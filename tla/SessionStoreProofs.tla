-------------------------- MODULE SessionStoreProofs --------------------------
(***************************************************************************)
(* Proofs about SessionStore, for any number of savers and of saves.  What *)
(* carries them is that a file is whole and synced before its name is      *)
(* changed, and stays so: then whatever a power loss takes back, the name  *)
(* still stands for a whole file, and it takes back nothing a synced       *)
(* directory already holds.                                                *)
(***************************************************************************)
EXTENDS SessionStore, SequenceTheorems, TLAPS

File == [data : {"empty", "part", "whole"}, synced : BOOLEAN, place : Places]

Whole(n) == n \in 1 .. Len(files) /\ files[n].data = "whole"
Safe(n) == Whole(n) /\ files[n].synced = TRUE

(* What a name has stood for was safe when the name was changed.           *)
HeldInv == \A d \in Places : \A i \in 1 .. Len(held[d]) : Safe(held[d][i])

(* How far a save has come says what is true of its file and of the name.  *)
SaveInv(p) ==
  /\ At(p, "opening") => saves[p].file = 0
  /\ At(p, "writing") => saves[p].file \in 1 .. Len(files)
  /\ At(p, "written") => Whole(saves[p].file)
  /\ At(p, "synced") => Safe(saves[p].file)
  /\ At(p, "renamed") =>
       saves[p].place = "session" /\ saves[p].at <= Len(held["session"])
  /\ At(p, "reporting") /\ saves[p].place = "session" =>
       saves[p].at <= durable["session"]

AckInv == acked["session"] <= durable["session"]

StoreInv ==
  /\ TypeOK
  /\ Len(files) <= MaxSaves
  /\ HeldInv
  /\ \A p \in Savers : SaveInv(p)
  /\ AckInv

(* The types in the form the steps below use.                              *)
LEMMA Types ==
  ASSUME TypeOK
  PROVE  /\ Len(files) \in Nat /\ DOMAIN files = 1 .. Len(files)
         /\ \A n \in 1 .. Len(files) : files[n] \in File
         /\ \A d \in Places : /\ held[d] \in Seq(Nat) /\ Len(held[d]) \in Nat
                              /\ durable[d] \in 0 .. Len(held[d])
                              /\ acked[d] \in Nat
         /\ \A p \in Savers : /\ saves[p].step \in Steps
                              /\ saves[p].place \in Places
                              /\ saves[p].file \in 0 .. Len(files)
                              /\ saves[p].at \in Nat
<1>1. files \in Seq(File)
  BY DEF TypeOK, File
<1>2. Len(files) \in Nat /\ DOMAIN files = 1 .. Len(files)
  BY <1>1, LenProperties
<1>3. \A n \in 1 .. Len(files) : files[n] \in File
  BY <1>1, ElementOfSeq
<1>4. \A d \in Places : held[d] \in Seq(Nat) /\ Len(held[d]) \in Nat
  BY LenProperties DEF TypeOK
<1>5. \A d \in Places : durable[d] \in 0 .. Len(held[d]) /\ acked[d] \in Nat
  BY <1>4 DEF TypeOK
<1>6. \A p \in Savers : saves[p] \in [step : Steps, place : Places,
                                      file : 0 .. Len(files), at : Nat]
  BY DEF TypeOK
<1> QED
  BY <1>2, <1>3, <1>4, <1>5, <1>6

LEMMA InitInv == Init => StoreInv
<1> SUFFICES ASSUME Init PROVE StoreInv
  OBVIOUS
<1>1. Len(<<>>) = 0 /\ DOMAIN <<>> = {} /\ <<>> \in Seq(File) /\ <<>> \in Seq(Nat)
  OBVIOUS
<1>2. None \in [step : Steps, place : Places, file : 0 .. 0, at : Nat]
  BY DEF None, Steps, Places
<1>3. TypeOK
  BY <1>1, <1>2 DEF Init, TypeOK, File
<1>4. HeldInv /\ AckInv
  BY <1>1 DEF Init, HeldInv, AckInv, Places
<1>5. \A p \in Savers : SaveInv(p)
  BY <1>1 DEF Init, SaveInv, At, None
<1> QED
  BY <1>1, <1>3, <1>4, <1>5, MaxSavesAssumption DEF StoreInv, Init

-----------------------------------------------------------------------------
(* Files only gain: none is lost, a whole one stays whole, a safe one safe. *)
KeepsFiles ==
  /\ files' \in Seq(File)
  /\ Len(files) <= Len(files')
  /\ \A n \in 1 .. Len(files) : (Whole(n) => Whole(n)') /\ (Safe(n) => Safe(n)')

SaveType(n) == [step : Steps, place : Places, file : 0 .. n, at : Nat]

LEMMA CreateKeeps ==
  ASSUME TypeOK, NEW p \in Savers, NEW data \in {"empty", "part"}, Create(p, data)
  PROVE  /\ KeepsFiles
         /\ Len(files') = Len(files) + 1 /\ Len(files') <= MaxSaves
         /\ temps' \subseteq 1 .. Len(files')
<1> DEFINE new == [data |-> data, synced |-> FALSE, place |-> saves[p].place]
<1>1. files \in Seq(File) /\ new \in File /\ Len(files) \in Nat
  BY Types DEF TypeOK, File
<1>2. files' = Append(files, new)
  BY DEF Create
<1> HIDE DEF new
<1>3. /\ files' \in Seq(File) /\ Len(files') = Len(files) + 1
      /\ \A n \in 1 .. Len(files) : files'[n] = files[n]
  BY <1>1, <1>2, AppendProperties
<1>4. KeepsFiles
  BY <1>1, <1>3 DEF KeepsFiles, Whole, Safe
<1>5. temps \subseteq 1 .. Len(files)
  BY Types DEF TypeOK
<1>6. temps' = temps \cup {Len(files) + 1}
  BY DEF Create
<1>7. \A n \in Nat : \A T \in SUBSET (1 .. n) : T \cup {n + 1} \subseteq 1 .. (n + 1)
  OBVIOUS
<1>8. temps' \subseteq 1 .. Len(files')
  <2>1. Len(files) \in Nat /\ temps \in SUBSET (1 .. Len(files))
    BY <1>1, <1>5
  <2> QED
    BY <2>1, <1>3, <1>6, <1>7
<1>9. Len(files) < MaxSaves
  BY DEF Create
<1> QED
  BY <1>1, <1>3, <1>4, <1>8, <1>9, MaxSavesAssumption

LEMMA SameKeeps ==
  ASSUME TypeOK, files' = files
  PROVE  KeepsFiles /\ Len(files') = Len(files)
<1>1. files \in Seq(File) /\ Len(files) \in Nat
  BY Types DEF TypeOK, File
<1> QED
  BY <1>1 DEF KeepsFiles, Whole, Safe

(* One saver moves on and the names stay.                                  *)
LEMMA OneMoves ==
  ASSUME StoreInv, KeepsFiles, UNCHANGED <<held, durable, acked>>,
         temps' \subseteq 1 .. Len(files'), Len(files') <= MaxSaves,
         NEW p \in Savers, NEW s \in SaveType(Len(files')),
         saves' = [saves EXCEPT ![p] = s],
         SaveInv(p)'
  PROVE  StoreInv'
<1>0. /\ TypeOK /\ HeldInv /\ AckInv
      /\ Len(files) \in Nat /\ Len(files') \in Nat /\ Len(files) <= Len(files')
  BY Types, LenProperties DEF StoreInv, KeepsFiles
<1>1. DOMAIN files' = 1 .. Len(files')
  BY LenProperties DEF KeepsFiles
<1>2. saves \in [Savers -> SaveType(Len(files))]
  BY <1>0 DEF TypeOK, SaveType
<1>3. \A q \in Savers : saves[q] \in SaveType(Len(files'))
  BY <1>0, <1>2 DEF SaveType
<1>4. saves' \in [Savers -> SaveType(Len(files'))]
  BY <1>2, <1>3
<1>5. TypeOK'
  BY <1>0, <1>1, <1>4 DEF TypeOK, SaveType, KeepsFiles, File
<1>6. HeldInv'
  BY <1>0 DEF HeldInv, KeepsFiles, Safe, Whole
<1>7. ASSUME NEW q \in Savers PROVE SaveInv(q)'
  <2>1. CASE q = p
    BY <2>1
  <2>2. CASE q # p
    <3>1. saves'[q] = saves[q] /\ SaveInv(q)
      BY <1>2, <2>2 DEF StoreInv
    <3>2. At(q, "written") => Whole(saves[q].file)'
      BY <3>1 DEF SaveInv, KeepsFiles, Whole
    <3>3. At(q, "synced") => Safe(saves[q].file)'
      BY <3>1 DEF SaveInv, KeepsFiles, Safe, Whole
    <3>4. At(q, "writing") => saves[q].file \in 1 .. Len(files')
      BY <1>0, <3>1 DEF SaveInv
    <3> QED
      BY <3>1, <3>2, <3>3, <3>4 DEF SaveInv, At, Whole, Safe
  <2> QED
    BY <2>1, <2>2
<1>8. AckInv'
  BY <1>0 DEF AckInv
<1> QED
  BY <1>5, <1>6, <1>7, <1>8 DEF StoreInv

-----------------------------------------------------------------------------
(* Every step keeps the invariant: first the steps of one save that leave   *)
(* the names alone.                                                        *)
LEMMA SaverKeeps ==
  ASSUME StoreInv, NEW p \in Savers,
         \/ \E d \in Places : Begin(p, d)
         \/ Open(p) \/ Write(p) \/ SyncFile(p) \/ Fails(p) \/ Dropped(p) \/ Killed(p)
  PROVE  StoreInv'
<1>0. /\ TypeOK /\ saves[p] \in SaveType(Len(files)) /\ SaveInv(p)
      /\ Len(files) \in Nat /\ DOMAIN files = 1 .. Len(files)
      /\ temps \subseteq 1 .. Len(files) /\ Len(files) <= MaxSaves
      /\ saves \in [Savers -> SaveType(Len(files))]
      /\ files \in Seq(File)
  BY Types DEF StoreInv, SaveType, TypeOK, File
<1>1. ASSUME NEW n \in Nat PROVE None \in SaveType(n)
  BY DEF None, SaveType, Steps, Places
<1>2. ASSUME NEW d \in Places, Begin(p, d) PROVE StoreInv'
  <2> DEFINE s == [step |-> "opening", place |-> d, file |-> 0, at |-> 0]
  <2>1. KeepsFiles /\ Len(files') = Len(files)
    BY <1>0, <1>2, SameKeeps DEF Begin, disk
  <2>2. s \in SaveType(Len(files')) /\ s.step = "opening" /\ s.file = 0
    BY <1>0, <2>1 DEF None, SaveType, Steps
  <2>3. saves' = [saves EXCEPT ![p] = s] /\ temps' = temps
        /\ UNCHANGED <<held, durable, acked>>
    BY <1>2 DEF Begin, disk
  <2> HIDE DEF s
  <2>4. SaveInv(p)'
    BY <1>0, <2>2, <2>3 DEF SaveInv, At
  <2> QED
    BY <1>0, <2>1, <2>2, <2>3, <2>4, OneMoves
<1>3. CASE Open(p)
  <2> DEFINE s == [step |-> "writing", place |-> saves[p].place,
                   file |-> Len(files) + 1, at |-> 0]
  <2>1. /\ KeepsFiles /\ Len(files') = Len(files) + 1
        /\ temps' \subseteq 1 .. Len(files') /\ Len(files') <= MaxSaves
    BY <1>0, <1>3, CreateKeeps DEF Open
  <2>2. s \in SaveType(Len(files')) /\ s.step = "writing" /\ s.file = Len(files')
    BY <1>0, <2>1 DEF SaveType, Steps
  <2>3. saves' = [saves EXCEPT ![p] = s] /\ UNCHANGED <<held, durable, acked>>
    BY <1>0, <1>3 DEF Open
  <2> HIDE DEF s
  <2>4. SaveInv(p)'
    BY <1>0, <2>1, <2>2, <2>3 DEF SaveInv, At
  <2> QED
    BY <2>1, <2>2, <2>3, <2>4, OneMoves
<1>4. CASE Write(p)
  <2> DEFINE s == [saves[p] EXCEPT !.step = "written"]
             n == saves[p].file
  <2>1. n \in 1 .. Len(files)
    BY <1>0, <1>4 DEF Write, SaveInv
  <2>2. files' = [files EXCEPT ![n].data = "whole"]
    BY <1>4 DEF Write
  <2>3. files[n] \in File
    BY <1>0, <2>1, ElementOfSeq
  <2>4. /\ files' \in Seq(File) /\ Len(files') = Len(files)
        /\ \A k \in 1 .. Len(files) : files'[k] = IF k = n THEN [files[n] EXCEPT !.data = "whole"]
                                                        ELSE files[k]
    <3>1. [files[n] EXCEPT !.data = "whole"] \in File
      BY <2>3 DEF File
    <3> QED
      BY <1>0, <2>1, <2>2, <3>1, ExceptSeq
  <2>5. /\ files'[n].data = "whole"
        /\ files'[n].synced = files[n].synced
    BY <2>1, <2>3, <2>4 DEF File
  <2>6. KeepsFiles
    BY <1>0, <2>4, <2>5 DEF KeepsFiles, Whole, Safe
  <2>7. s \in SaveType(Len(files')) /\ s.step = "written" /\ s.file = n
    BY <1>0, <2>4 DEF SaveType, Steps
  <2>8. saves' = [saves EXCEPT ![p] = s] /\ UNCHANGED <<held, durable, acked, temps>>
    BY <1>0, <1>4 DEF Write, Goes
  <2> HIDE DEF s
  <2>9. SaveInv(p)'
    BY <1>0, <2>1, <2>4, <2>5, <2>7, <2>8 DEF SaveInv, At, Whole
  <2> QED
    BY <1>0, <2>4, <2>6, <2>7, <2>8, <2>9, OneMoves
<1>5. CASE SyncFile(p)
  <2> DEFINE s == [saves[p] EXCEPT !.step = "synced"]
             n == saves[p].file
  <2>1. n \in 1 .. Len(files) /\ files[n].data = "whole"
    BY <1>0, <1>5 DEF SyncFile, SaveInv, Whole
  <2>2. files' = [files EXCEPT ![n].synced = TRUE]
    BY <1>5 DEF SyncFile
  <2>3. files[n] \in File
    BY <1>0, <2>1, ElementOfSeq
  <2>4. /\ files' \in Seq(File) /\ Len(files') = Len(files)
        /\ \A k \in 1 .. Len(files) : files'[k] = IF k = n THEN [files[n] EXCEPT !.synced = TRUE]
                                                        ELSE files[k]
    <3>1. [files[n] EXCEPT !.synced = TRUE] \in File
      BY <2>3 DEF File
    <3> QED
      BY <1>0, <2>1, <2>2, <3>1, ExceptSeq
  <2>5. /\ files'[n].data = "whole"
        /\ files'[n].synced = TRUE
    BY <2>1, <2>3, <2>4 DEF File
  <2>6. KeepsFiles
    BY <1>0, <2>4, <2>5 DEF KeepsFiles, Whole, Safe
  <2>7. s \in SaveType(Len(files')) /\ s.step = "synced" /\ s.file = n
    BY <1>0, <2>4 DEF SaveType, Steps
  <2>8. saves' = [saves EXCEPT ![p] = s] /\ UNCHANGED <<held, durable, acked, temps>>
    BY <1>0, <1>5 DEF SyncFile, Goes
  <2> HIDE DEF s
  <2>9. SaveInv(p)'
    BY <1>0, <2>1, <2>4, <2>5, <2>7, <2>8 DEF SaveInv, At, Whole, Safe
  <2> QED
    BY <1>0, <2>4, <2>6, <2>7, <2>8, <2>9, OneMoves
<1>6. CASE Fails(p) \/ Killed(p) \/ Dropped(p)
  <2>1. KeepsFiles /\ temps' \subseteq 1 .. Len(files') /\ Len(files') <= MaxSaves
    <3>1. CASE files' = files /\ temps' \subseteq temps
      BY <1>0, <3>1, SameKeeps
    <3>2. CASE Create(p, "empty")
      BY <1>0, <3>2, CreateKeeps
    <3> QED
      BY <1>6, <3>1, <3>2 DEF Fails, Killed, Dropped, disk
  <2>2. /\ saves' = [saves EXCEPT ![p] = None]
        /\ UNCHANGED <<held, durable, acked>>
    BY <1>6 DEF Fails, Killed, Dropped, disk
  <2>3. Len(files') \in Nat /\ None \in SaveType(Len(files'))
    BY <1>1, <2>1, LenProperties DEF KeepsFiles
  <2>4. SaveInv(p)'
    BY <1>0, <2>2 DEF SaveInv, At, None
  <2> QED
    BY <2>1, <2>2, <2>3, <2>4, OneMoves
<1> QED
  BY <1>2, <1>3, <1>4, <1>5, <1>6

LEMMA RenameKeeps ==
  ASSUME StoreInv, NEW p \in Savers, Rename(p)
  PROVE  StoreInv'
<1> DEFINE d == saves[p].place
           n == saves[p].file
           s == [step |-> IF d = "session" THEN "renamed" ELSE "reporting",
                 place |-> d, file |-> n, at |-> Len(held[d]) + 1]
<1>0. /\ TypeOK /\ HeldInv /\ AckInv
      /\ Len(files) \in Nat /\ DOMAIN files = 1 .. Len(files)
      /\ saves \in [Savers -> SaveType(Len(files))]
      /\ \A e \in Places : /\ held[e] \in Seq(Nat) /\ Len(held[e]) \in Nat
                           /\ durable[e] \in 0 .. Len(held[e]) /\ acked[e] \in Nat
  BY Types DEF StoreInv, SaveType, TypeOK
<1>1. d \in Places /\ n \in 1 .. Len(files) /\ Safe(n)
  BY <1>0 DEF Rename, StoreInv, SaveInv, SaveType, Safe, Whole
<1>2. /\ held' = [held EXCEPT ![d] = Append(held[d], n)]
      /\ saves' = [saves EXCEPT ![p] = s]
      /\ temps' \subseteq temps
      /\ UNCHANGED <<files, durable, acked>>
  BY DEF Rename
<1>3. s \in SaveType(Len(files)) /\ s.place = d /\ s.at = Len(held[d]) + 1
      /\ s.step = IF d = "session" THEN "renamed" ELSE "reporting"
  BY <1>0, <1>1 DEF SaveType, Steps
<1> HIDE DEF s
<1>4. held \in [Places -> Seq(Nat)]
  BY <1>0 DEF TypeOK
<1>5. Append(held[d], n) \in Seq(Nat) /\ Len(Append(held[d], n)) = Len(held[d]) + 1
      /\ \A i \in 1 .. Len(held[d]) : Append(held[d], n)[i] = held[d][i]
      /\ Append(held[d], n)[Len(held[d]) + 1] = n
  BY <1>0, <1>1, AppendProperties
<1> DEFINE longer == Append(held[d], n)
<1> HIDE DEF longer
<1>6. /\ held' \in [Places -> Seq(Nat)]
      /\ held'[d] = longer
      /\ \A e \in Places : e # d => held'[e] = held[e]
  BY <1>1, <1>2, <1>4, <1>5 DEF longer
<1>7. ASSUME NEW e \in Places PROVE Len(held[e]) <= Len(held'[e])
  <2>1. CASE e = d
    BY <1>0, <1>5, <1>6, <2>1 DEF longer
  <2>2. CASE e # d
    BY <1>0, <1>6, <2>2
  <2> QED
    BY <2>1, <2>2
<1>8. TypeOK'
  <2>1. saves' \in [Savers -> SaveType(Len(files))]
    BY <1>0, <1>2, <1>3
  <2>2. \A e \in Places : durable[e] <= Len(held'[e])
    <3> SUFFICES ASSUME NEW e \in Places PROVE durable[e] <= Len(held'[e])
      OBVIOUS
    <3>1. Len(held'[e]) \in Nat /\ Len(held[e]) \in Nat
      BY <1>0, <1>6, LenProperties
    <3> QED
      BY <1>0, <1>7, <3>1
  <2> QED
    BY <1>0, <1>2, <1>6, <2>1, <2>2 DEF TypeOK, SaveType
<1>9. HeldInv'
  <2> SUFFICES ASSUME NEW e \in Places, NEW i \in 1 .. Len(held'[e])
               PROVE  Safe(held[e][i])'
    BY DEF HeldInv
  <2>1. CASE e = d /\ i = Len(held[d]) + 1
    BY <1>1, <1>2, <1>5, <1>6, <2>1 DEF longer, Safe, Whole
  <2>2. CASE e = d /\ i # Len(held[d]) + 1
    <3>0. Len(held'[e]) = Len(held[d]) + 1 /\ held'[e] = longer
      BY <1>5, <1>6, <2>2 DEF longer
    <3>1. i \in 1 .. Len(held[d])
      BY <1>0, <1>1, <2>2, <3>0
    <3>2. held'[e][i] = held[d][i]
      BY <1>5, <3>0, <3>1 DEF longer
    <3> QED
      BY <1>0, <1>1, <1>2, <3>1, <3>2, ZenonT(40) DEF HeldInv, Safe, Whole
  <2>3. CASE e # d
    BY <1>0, <1>2, <1>6, <2>3 DEF HeldInv, Safe, Whole
  <2> QED
    BY <2>1, <2>2, <2>3
<1>10. ASSUME NEW q \in Savers PROVE SaveInv(q)'
  <2>1. "session" \in Places
    BY DEF Places
  <2>2. CASE q = p
    <3>1. saves'[q] = s
      BY <1>0, <1>2, <2>2
    <3>2. d = "session" => Len(held'["session"]) = Len(held[d]) + 1
      BY <1>5, <1>6 DEF longer
    <3> QED
      BY <1>0, <1>1, <1>3, <2>1, <3>1, <3>2 DEF SaveInv, At
  <2>3. CASE q # p
    <3>1. saves'[q] = saves[q] /\ SaveInv(q) /\ saves[q] \in SaveType(Len(files))
      BY <1>0, <1>2, <2>3 DEF StoreInv
    <3>2. Len(held'["session"]) \in Nat /\ Len(held["session"]) \in Nat
      BY <1>0, <1>6, <2>1, LenProperties
    <3>3. At(q, "renamed") =>
            saves[q].place = "session" /\ saves[q].at <= Len(held'["session"])
      BY <1>7, <2>1, <3>1, <3>2 DEF SaveInv, SaveType
    <3> QED
      BY <1>2, <3>1, <3>3 DEF SaveInv, At, Whole, Safe
  <2> QED
    BY <2>2, <2>3
<1>11. AckInv'
  BY <1>0, <1>2 DEF AckInv
<1> QED
  BY <1>2, <1>8, <1>9, <1>10, <1>11 DEF StoreInv

(* The end of a save.                                                      *)
LEMMA EndKeeps ==
  ASSUME StoreInv, NEW p \in Savers, SyncDirectory(p) \/ Report(p)
  PROVE  StoreInv'
<1>0. /\ TypeOK /\ HeldInv /\ AckInv
      /\ saves \in [Savers -> SaveType(Len(files))]
      /\ "session" \in Places
      /\ \A e \in Places : /\ Len(held[e]) \in Nat
                           /\ durable[e] \in 0 .. Len(held[e]) /\ acked[e] \in Nat
      /\ \A q \in Savers : SaveInv(q) /\ saves[q] \in SaveType(Len(files))
      /\ durable \in [Places -> Nat] /\ acked \in [Places -> Nat]
  BY Types DEF StoreInv, SaveType, TypeOK, Places
<1>1. CASE SyncDirectory(p)
  <2> DEFINE s == [saves[p] EXCEPT !.step = "reporting"]
  <2>1. /\ UNCHANGED <<files, temps, held, acked>>
        /\ durable' = [durable EXCEPT !["session"] = Len(held["session"])]
        /\ saves' = [saves EXCEPT ![p] = s]
        /\ saves[p].step = "renamed"
    BY <1>0, <1>1 DEF SyncDirectory, Goes, At
  <2>2. s \in SaveType(Len(files)) /\ s.step = "reporting" /\ s.at = saves[p].at
    BY <1>0 DEF SaveType, Steps
  <2> HIDE DEF s
  <2>3. TypeOK'
    <3>1. saves' \in [Savers -> SaveType(Len(files))]
      BY <1>0, <2>1, <2>2
    <3>2. durable' \in [Places -> Nat] /\ \A d \in Places : durable'[d] <= Len(held[d])
      BY <1>0, <2>1
    <3> QED
      BY <1>0, <2>1, <3>1, <3>2 DEF TypeOK, SaveType
  <2>4. HeldInv' /\ AckInv'
    BY <1>0, <2>1 DEF HeldInv, AckInv, Safe, Whole
  <2>5. ASSUME NEW q \in Savers PROVE SaveInv(q)'
    <3>1. durable'["session"] = Len(held["session"])
          /\ durable["session"] <= Len(held["session"])
      BY <1>0, <2>1
    <3>2. CASE q = p
      BY <1>0, <2>1, <2>2, <3>1, <3>2 DEF SaveInv, At
    <3>3. CASE q # p
      <4>1. saves'[q] = saves[q]
        BY <1>0, <2>1, <3>3
      <4>2. At(q, "reporting") /\ saves[q].place = "session" =>
              saves[q].at <= durable'["session"]
        BY <1>0, <3>1 DEF SaveInv, SaveType
      <4> QED
        BY <1>0, <2>1, <4>1, <4>2 DEF SaveInv, At, Whole, Safe
    <3> QED
      BY <3>2, <3>3
  <2> QED
    BY <2>1, <2>3, <2>4, <2>5 DEF StoreInv
<1>2. CASE Report(p)
  <2> DEFINE d == saves[p].place
             a == saves[p].at
  <2>1. /\ UNCHANGED <<files, temps, held, durable>>
        /\ acked' = [acked EXCEPT ![d] = Later(acked[d], a)]
        /\ saves' = [saves EXCEPT ![p] = None]
        /\ saves[p].step = "reporting"
    BY <1>2 DEF Report, disk, At
  <2>2. d \in Places /\ a \in Nat /\ None \in SaveType(Len(files))
        /\ None.step = "none"
    BY <1>0, Types DEF SaveType, None, Steps, Places
  <2>3. TypeOK'
    <3>1. saves' \in [Savers -> SaveType(Len(files))]
      BY <1>0, <2>1, <2>2
    <3>2. acked' \in [Places -> Nat]
      BY <1>0, <2>1, <2>2 DEF Later
    <3> QED
      BY <1>0, <2>1, <3>1, <3>2 DEF TypeOK, SaveType
  <2>4. HeldInv'
    BY <1>0, <2>1 DEF HeldInv, Safe, Whole
  <2>5. AckInv'
    <3>1. d = "session" => a <= durable["session"]
      BY <1>0, <2>1 DEF SaveInv, At
    <3> QED
      BY <1>0, <2>1, <2>2, <3>1 DEF AckInv, Later
  <2>6. ASSUME NEW q \in Savers PROVE SaveInv(q)'
    <3>1. CASE q = p
      BY <1>0, <2>1, <2>2, <3>1 DEF SaveInv, At
    <3>2. CASE q # p
      <4>1. saves'[q] = saves[q]
        BY <1>0, <2>1, <3>2
      <4> QED
        BY <1>0, <2>1, <4>1 DEF SaveInv, At, Whole, Safe
    <3> QED
      BY <3>1, <3>2
  <2> QED
    BY <2>1, <2>3, <2>4, <2>5, <2>6 DEF StoreInv
<1> QED
  BY <1>1, <1>2

(* The file system's own steps.                                            *)
LEMMA WriteBackKeeps ==
  ASSUME StoreInv, WriteBack
  PROVE  StoreInv'
<1>0. /\ TypeOK /\ HeldInv /\ AckInv
      /\ Len(files) \in Nat /\ DOMAIN files = 1 .. Len(files) /\ files \in Seq(File)
      /\ \A n \in 1 .. Len(files) : files[n] \in File
      /\ "session" \in Places
      /\ \A e \in Places : /\ Len(held[e]) \in Nat
                           /\ durable[e] \in 0 .. Len(held[e]) /\ acked[e] \in Nat
      /\ \A q \in Savers : SaveInv(q) /\ saves[q] \in SaveType(Len(files))
      /\ durable \in [Places -> Nat]
  BY Types DEF StoreInv, SaveType, TypeOK, Places, File
<1>1. ASSUME NEW n \in 1 .. Len(files),
             files' = [files EXCEPT ![n].synced = (files[n].data = "whole")],
             UNCHANGED <<temps, held, durable, acked, saves>>
      PROVE  StoreInv'
  <2> DEFINE f == [files[n] EXCEPT !.synced = (files[n].data = "whole")]
  <2>1. f \in File /\ f.data = files[n].data
    BY <1>0 DEF File
  <2>2. files[n].data = "whole" => f.synced = TRUE
    BY <1>0 DEF File
  <2> HIDE DEF f
  <2>3. files' = [files EXCEPT ![n] = f]
    BY <1>1 DEF f
  <2>4. /\ files' \in Seq(File) /\ Len(files') = Len(files)
        /\ \A k \in 1 .. Len(files) : files'[k] = IF k = n THEN f ELSE files[k]
    BY <1>0, <2>1, <2>3, ExceptSeq
  <2>5. \A k \in 1 .. Len(files) : (Whole(k) => Whole(k)') /\ (Safe(k) => Safe(k)')
    <3> SUFFICES ASSUME NEW k \in 1 .. Len(files)
                 PROVE  (Whole(k) => Whole(k)') /\ (Safe(k) => Safe(k)')
      OBVIOUS
    <3>1. CASE k = n
      BY <2>1, <2>2, <2>4, <3>1 DEF Whole, Safe
    <3>2. CASE k # n
      BY <2>4, <3>2 DEF Whole, Safe
    <3> QED
      BY <3>1, <3>2
  <2>6. DOMAIN files' = 1 .. Len(files)
    BY <2>4, LenProperties
  <2>7. TypeOK'
    BY <1>0, <1>1, <2>4, <2>6 DEF TypeOK, File
  <2>8. HeldInv' /\ AckInv'
    BY <1>0, <1>1, <2>5 DEF HeldInv, AckInv, Safe, Whole
  <2>9. ASSUME NEW q \in Savers PROVE SaveInv(q)'
    <3>1. At(q, "written") => Whole(saves[q].file)'
      BY <1>0, <1>1, <2>5 DEF SaveInv, Whole
    <3>2. At(q, "synced") => Safe(saves[q].file)'
      BY <1>0, <1>1, <2>5 DEF SaveInv, Whole, Safe
    <3> QED
      BY <1>0, <1>1, <2>4, <3>1, <3>2 DEF SaveInv, At, Whole, Safe
  <2> QED
    BY <2>4, <2>7, <2>8, <2>9 DEF StoreInv
<1>2. ASSUME NEW d \in Places,
             durable' = [durable EXCEPT ![d] = Len(held[d])],
             UNCHANGED <<files, temps, held, acked, saves>>
      PROVE  StoreInv'
  <2>1. /\ durable' \in [Places -> Nat]
        /\ \A e \in Places : durable[e] <= durable'[e] /\ durable'[e] <= Len(held[e])
    BY <1>0, <1>2
  <2>2. TypeOK'
    BY <1>0, <1>2, <2>1 DEF TypeOK
  <2>3. HeldInv'
    BY <1>0, <1>2 DEF HeldInv, Safe, Whole
  <2>4. AckInv'
    BY <1>0, <1>2, <2>1 DEF AckInv
  <2>5. ASSUME NEW q \in Savers PROVE SaveInv(q)'
    <3>1. At(q, "reporting") /\ saves[q].place = "session" =>
            saves[q].at <= durable'["session"]
      BY <1>0, <2>1 DEF SaveInv, SaveType
    <3> QED
      BY <1>0, <1>2, <3>1 DEF SaveInv, At, Whole, Safe
  <2> QED
    BY <1>2, <2>2, <2>3, <2>4, <2>5 DEF StoreInv
<1> QED
  BY <1>0, <1>1, <1>2 DEF WriteBack

LEMMA PowerLossKeeps ==
  ASSUME StoreInv, PowerLoss
  PROVE  StoreInv'
<1>0. /\ TypeOK /\ HeldInv /\ AckInv
      /\ Len(files) \in Nat /\ DOMAIN files = 1 .. Len(files)
      /\ \A n \in 1 .. Len(files) : files[n] \in File
      /\ "session" \in Places
      /\ \A e \in Places : /\ held[e] \in Seq(Nat) /\ Len(held[e]) \in Nat
                           /\ durable[e] \in 0 .. Len(held[e]) /\ acked[e] \in Nat
  BY Types DEF StoreInv, Places
<1>1. PICK kept \in [Places -> 0 .. MaxSaves] :
        /\ \A d \in Places : kept[d] \in durable[d] .. Len(held[d])
        /\ held' = [d \in Places |-> SubSeq(held[d], 1, kept[d])]
        /\ durable' = kept
  BY DEF PowerLoss
<1> DEFINE torn(n) == IF files[n].synced THEN files[n] ELSE [files[n] EXCEPT !.data = "part"]
<1>2. /\ files' = [n \in 1 .. Len(files) |-> torn(n)]
      /\ saves' = [p \in Savers |-> None]
      /\ UNCHANGED <<temps, acked>>
  BY <1>0 DEF PowerLoss
<1>3. \A n \in 1 .. Len(files) : torn(n) \in File
  BY <1>0 DEF File
<1>4. \A n \in 1 .. Len(files) : files[n].synced = TRUE => torn(n) = files[n]
  OBVIOUS
<1> HIDE DEF torn
<1>5. files' \in Seq(File) /\ Len(files') = Len(files) /\ DOMAIN files' = 1 .. Len(files)
  BY <1>0, <1>2, <1>3, LenProperties
<1>6. \A n : Safe(n) => Safe(n)'
  BY <1>2, <1>4, <1>5 DEF Safe, Whole
<1>7. ASSUME NEW d \in Places
      PROVE  /\ kept[d] \in Nat /\ held'[d] \in Seq(Nat) /\ Len(held'[d]) = kept[d]
             /\ \A i \in 1 .. kept[d] : held'[d][i] = held[d][i] /\ i \in 1 .. Len(held[d])
  <2>1. kept[d] \in 0 .. Len(held[d]) /\ kept[d] \in Nat
    BY <1>0, <1>1
  <2>2. held'[d] = SubSeq(held[d], 1, kept[d])
    BY <1>1
  <2> QED
    BY <1>0, <2>1, <2>2, SubSeqProperties, SMTT(30)
<1>8. None \in SaveType(Len(files)) /\ None.step = "none"
  BY <1>0 DEF None, SaveType, Steps, Places
<1>9. TypeOK'
  <2>1. saves' \in [Savers -> SaveType(Len(files'))]
    BY <1>2, <1>5, <1>8
  <2>2. held' \in [Places -> Seq(Nat)] /\ durable' \in [Places -> Nat]
    BY <1>1, <1>7
  <2>3. \A d \in Places : durable'[d] <= Len(held'[d])
    BY <1>1, <1>7
  <2> QED
    BY <1>0, <1>2, <1>5, <2>1, <2>2, <2>3 DEF TypeOK, SaveType, File
<1>10. HeldInv'
  <2> SUFFICES ASSUME NEW d \in Places, NEW i \in 1 .. Len(held'[d])
               PROVE  Safe(held[d][i])'
    BY DEF HeldInv
  <2>1. held'[d][i] = held[d][i] /\ Safe(held[d][i])
    BY <1>0, <1>7 DEF HeldInv
  <2>2. Safe(held[d][i]) => files'[held[d][i]] = files[held[d][i]]
    BY <1>2, <1>4 DEF Safe, Whole
  <2> QED
    BY <1>5, <2>1, <2>2 DEF Safe, Whole
<1>11. AckInv'
  BY <1>0, <1>1, <1>2 DEF AckInv
<1>12. \A p \in Savers : SaveInv(p)'
  BY <1>2, <1>8 DEF SaveInv, At
<1> QED
  BY <1>5, <1>9, <1>10, <1>11, <1>12 DEF StoreInv

LEMMA StepKeeps == StoreInv /\ [Next]_vars => StoreInv'
<1> SUFFICES ASSUME StoreInv, [Next]_vars PROVE StoreInv'
  OBVIOUS
<1>1. CASE UNCHANGED vars
  BY <1>1 DEF vars, StoreInv, TypeOK, HeldInv, SaveInv, AckInv, At, Whole, Safe
<1> QED
  BY <1>1, SaverKeeps, RenameKeeps, EndKeeps, WriteBackKeeps, PowerLossKeeps DEF Next, Step

LEMMA StoreInvariant == Spec => []StoreInv
<1> QED
  BY InitInv, StepKeeps, PTL DEF Spec

-----------------------------------------------------------------------------
(* Whatever saves ran at once, stopped early or were cut off by a power     *)
(* loss, the session's file and a checkpoint's hold one whole version.     *)
THEOREM SavedFilesAreWhole == Spec => []HoldsWhole
<1>1. StoreInv => HoldsWhole
  <2> SUFFICES ASSUME StoreInv, NEW d \in Places, held[d] # <<>>
               PROVE  files[held[d][Len(held[d])]].data = "whole"
    BY DEF HoldsWhole
  <2>1. held[d] \in Seq(Nat)
    BY Types DEF StoreInv
  <2>2. Len(held[d]) \in 1 .. Len(held[d])
    BY <2>1, EmptySeq, LenProperties
  <2> QED
    BY <2>2 DEF StoreInv, HeldInv, Safe, Whole
<1> QED
  BY <1>1, StoreInvariant, PTL

(* A power loss takes back no save of a session that has been reported.    *)
THEOREM ReportedSavesStay == Spec => []ReportedStays
<1>1. StoreInv => ReportedStays
  <2> SUFFICES ASSUME StoreInv PROVE ReportedStays
    OBVIOUS
  <2>1. "session" \in Places
    BY DEF Places
  <2> QED
    BY <2>1, Types DEF StoreInv, AckInv, ReportedStays
<1> QED
  BY <1>1, StoreInvariant, PTL

(* What the store does is what SavedSession promises.                      *)
THEOREM StoreKeepsThePromise == Spec => SavedSessionKept
<1> DEFINE versions == held["session"]
           reported == acked["session"]
<1>0. ASSUME StoreInv
      PROVE  /\ "session" \in Places /\ held \in [Places -> Seq(Nat)]
             /\ versions \in Seq(Nat) /\ Len(versions) \in Nat /\ reported \in Nat
             /\ durable["session"] \in 0 .. Len(versions) /\ reported <= durable["session"]
  BY <1>0, Types DEF StoreInv, AckInv, Places, TypeOK
<1>1. Init => Promise!Init
  BY DEF Init, Promise!Init, Places
<1>2. ASSUME StoreInv, UNCHANGED <<held, acked>> PROVE UNCHANGED Promise!vars
  BY <1>2 DEF Promise!vars
<1>3. ASSUME StoreInv, NEW p \in Savers, Rename(p) PROVE [Promise!Next]_Promise!vars
  <2> DEFINE d == saves[p].place
             n == saves[p].file
  <2>1. /\ held' = [held EXCEPT ![d] = Append(held[d], n)] /\ acked' = acked
    BY <1>3 DEF Rename
  <2>2. d \in Places /\ n \in 1 .. Len(files) /\ Len(files') \in Nat
    BY <1>3, Types DEF Rename, StoreInv, SaveInv, Safe, Whole
  <2>3. CASE d = "session"
    <3>1. versions' = Append(versions, n) /\ reported' = reported
      BY <1>0, <1>3, <2>1, <2>3
    <3>2. n \in 1 .. MaxSaves
      <4>1. Len(files) \in Nat /\ Len(files) <= MaxSaves
        BY <1>3, Types DEF StoreInv
      <4> QED
        BY <2>2, <4>1, MaxSavesAssumption
    <3> QED
      BY <3>1, <3>2 DEF Promise!Next, Promise!Replace
  <2>4. CASE d # "session"
    <3>1. versions' = versions /\ reported' = reported
      BY <1>0, <1>3, <2>1, <2>4
    <3> QED
      BY <3>1 DEF Promise!vars
  <2> QED
    BY <2>3, <2>4
<1>4. ASSUME StoreInv, NEW p \in Savers, Report(p) PROVE [Promise!Next]_Promise!vars
  <2> DEFINE d == saves[p].place
             a == saves[p].at
  <2>1. acked' = [acked EXCEPT ![d] = Later(acked[d], a)] /\ held' = held
        /\ saves[p].step = "reporting"
    BY <1>4 DEF Report, disk, At
  <2>2. d \in Places /\ a \in Nat /\ acked \in [Places -> Nat]
    BY <1>4, Types DEF StoreInv, TypeOK
  <2>3. CASE d = "session"
    <3>1. a <= Len(versions) /\ reported' = Later(reported, a)
      BY <1>0, <1>4, <2>1, <2>2, <2>3 DEF StoreInv, SaveInv, At
    <3>2. versions' = versions
      BY <2>1
    <3>3. CASE reported < a
      <4>1. reported' \in reported + 1 .. Len(versions)
        BY <1>0, <1>4, <2>2, <3>1, <3>3 DEF Later
      <4> QED
        BY <3>2, <4>1 DEF Promise!Next, Promise!Report
    <3>4. CASE ~(reported < a)
      BY <3>1, <3>2, <3>4 DEF Later, Promise!vars
    <3> QED
      BY <3>3, <3>4
  <2>4. CASE d # "session"
    BY <1>0, <1>4, <2>1, <2>2, <2>4 DEF Promise!vars
  <2> QED
    BY <2>3, <2>4
<1>5. ASSUME StoreInv, PowerLoss PROVE [Promise!Next]_Promise!vars
  <2>1. PICK kept \in [Places -> 0 .. MaxSaves] :
          /\ \A d \in Places : kept[d] \in durable[d] .. Len(held[d])
          /\ held' = [d \in Places |-> SubSeq(held[d], 1, kept[d])]
    BY <1>5 DEF PowerLoss
  <2> DEFINE n == kept["session"]
  <2>2. n \in reported .. Len(versions)
    BY <1>0, <1>5, <2>1
  <2>3. versions' = SubSeq(versions, 1, n) /\ reported' = reported
    BY <1>0, <1>5, <2>1 DEF PowerLoss
  <2> QED
    BY <2>2, <2>3 DEF Promise!Next, Promise!PowerLoss
<1>6. StoreInv /\ [Next]_vars => [Promise!Next]_Promise!vars
  <2> SUFFICES ASSUME StoreInv, [Next]_vars PROVE [Promise!Next]_Promise!vars
    OBVIOUS
  <2>1. CASE UNCHANGED <<held, acked>>
    BY <1>2, <2>1
  <2>2. CASE \E p \in Savers : Rename(p) \/ Report(p)
    BY <1>3, <1>4, <2>2
  <2>3. CASE PowerLoss
    BY <1>5, <2>3
  <2>4. UNCHANGED <<held, acked>> \/ PowerLoss \/ \E p \in Savers : Rename(p) \/ Report(p)
    BY DEF Next, Step, vars, disk, Begin, Open, Write, SyncFile, SyncDirectory, Fails,
           Dropped, Killed, WriteBack
  <2> QED
    BY <2>1, <2>2, <2>3, <2>4
<1> QED
  BY <1>1, <1>6, StoreInvariant, PTL DEF Spec, SavedSessionKept, Promise!Spec

-----------------------------------------------------------------------------
(* A temporary file of a session has its saver still at work.              *)
NoStrays ==
  \A n \in temps :
    \/ \E p \in Savers : ~At(p, "none") /\ saves[p].file = n
    \/ files[n].data = "empty"
    \/ files[n].place = "checkpoint"

TempsInv ==
  /\ NoStrays
  /\ \A n \in temps : n \in 1 .. Len(files)
  /\ \A p \in Savers :
       /\ At(p, "renamed") \/ At(p, "reporting") => saves[p].file \notin temps
       /\ saves[p].file # 0 /\ ~At(p, "none") => files[saves[p].file].place = saves[p].place

(* What a saver's step must respect: it may add a file of its own to the   *)
(* temporary ones, and lets go of none but a checkpoint's.                 *)
LEMMA OneGoesOn ==
  ASSUME StoreInv, TempsInv,
         Len(files') \in Nat, Len(files) <= Len(files'),
         NEW p \in Savers, NEW s \in SaveType(Len(files')),
         saves' = [saves EXCEPT ![p] = s],
         \A n \in 1 .. Len(files) :
           /\ files'[n].place = files[n].place
           /\ files[n].data = "empty" =>
                files'[n].data = "empty" \/ (s.step # "none" /\ s.file = n),
         s.step # "none" /\ s.file # 0 => files'[s.file].place = s.place,
         s.step \in {"renamed", "reporting"} => s.file \notin temps',
         \A n \in temps' : n \in temps \/ (n = Len(files) + 1 /\ n = Len(files')),
         Len(files) + 1 \in temps' =>
           \/ files'[Len(files) + 1].data = "empty"
           \/ s.step # "none" /\ s.file = Len(files) + 1,
         saves[p].step # "none" /\ saves[p].file \in temps' =>
           \/ s.step # "none" /\ s.file = saves[p].file
           \/ saves[p].place = "checkpoint"
  PROVE  TempsInv'
<1>0. /\ Len(files) \in Nat
      /\ saves \in [Savers -> SaveType(Len(files))]
      /\ \A q \in Savers : saves[q] \in SaveType(Len(files))
      /\ saves'[p] = s
      /\ \A q \in Savers : q # p => saves'[q] = saves[q]
  BY Types DEF StoreInv, SaveType, TypeOK
<1>1. \A n \in temps' : n \in 1 .. Len(files')
  BY <1>0 DEF TempsInv
<1>2. ASSUME NEW q \in Savers
      PROVE  /\ At(q, "renamed")' \/ At(q, "reporting")' => saves'[q].file \notin temps'
             /\ saves'[q].file # 0 /\ ~At(q, "none")' =>
                  files'[saves'[q].file].place = saves'[q].place
  <2>1. CASE q = p
    BY <1>0, <2>1 DEF At
  <2>2. CASE q # p
    <3>1. saves'[q] = saves[q] /\ saves[q].file \in 0 .. Len(files)
      BY <1>0, <2>2 DEF SaveType
    <3>2. At(q, "renamed") \/ At(q, "reporting") => saves[q].file \notin temps
      BY DEF TempsInv
    <3>3. saves[q].file # 0 /\ ~At(q, "none") => files[saves[q].file].place = saves[q].place
      BY DEF TempsInv
    <3>4. saves[q].file # Len(files) + 1
      BY <1>0, <3>1
    <3> QED
      BY <1>0, <3>1, <3>2, <3>3, <3>4 DEF At
  <2> QED
    BY <2>1, <2>2
<1>3. ASSUME NEW n \in temps'
      PROVE  \/ \E q \in Savers : ~At(q, "none")' /\ saves'[q].file = n
             \/ files'[n].data = "empty"
             \/ files'[n].place = "checkpoint"
  <2>1. CASE n = Len(files) + 1
    BY <1>0, <2>1 DEF At
  <2>2. CASE n # Len(files) + 1
    <3>1. n \in temps /\ n \in 1 .. Len(files)
      BY <2>2 DEF TempsInv
    <3>2. CASE files[n].data = "empty" \/ files[n].place = "checkpoint"
      BY <1>0, <3>1, <3>2 DEF At
    <3>3. CASE \E q \in Savers : ~At(q, "none") /\ saves[q].file = n
      <4>1. PICK q \in Savers : saves[q].step # "none" /\ saves[q].file = n
        BY <3>3 DEF At
      <4>2. CASE q # p
        BY <1>0, <4>1, <4>2 DEF At
      <4>3. CASE q = p
        <5>1. files[n].place = saves[p].place
          BY <3>1, <4>1, <4>3 DEF TempsInv, At
        <5> QED
          BY <1>0, <3>1, <4>1, <4>3, <5>1 DEF At
      <4> QED
        BY <4>2, <4>3
    <3> QED
      BY <3>1, <3>2, <3>3 DEF TempsInv, NoStrays
  <2> QED
    BY <2>1, <2>2
<1> QED
  BY <1>1, <1>2, <1>3 DEF TempsInv, NoStrays, At

LEMMA TempsStay ==
  ASSUME StoreInv, TempsInv, ~crashes, [Next]_vars
  PROVE  TempsInv'
<1>0. /\ TypeOK /\ Len(files) \in Nat /\ DOMAIN files = 1 .. Len(files)
      /\ files \in Seq(File)
      /\ \A n \in 1 .. Len(files) : files[n] \in File
      /\ \A q \in Savers : SaveInv(q) /\ saves[q] \in SaveType(Len(files))
      /\ \A n \in temps : n \in 1 .. Len(files)
  BY Types DEF StoreInv, SaveType, TypeOK, File, TempsInv
<1>1. ASSUME NEW p \in Savers, NEW s \in SaveType(Len(files)),
             files' = files, temps' \subseteq temps, saves' = [saves EXCEPT ![p] = s],
             s.step # "none" =>
               /\ s.file = saves[p].file /\ saves[p].step # "none"
               /\ s.place = saves[p].place,
             s.step \in {"renamed", "reporting"} => s.file \notin temps',
             s.step = "none" /\ saves[p].file \in temps' /\ saves[p].step # "none" =>
               saves[p].place = "checkpoint"
      PROVE  TempsInv'
  <2>1. s.step # "none" /\ s.file # 0 => files'[s.file].place = s.place
    BY <1>1 DEF TempsInv, At
  <2>2. Len(files) + 1 \notin temps'
    BY <1>0, <1>1
  <2>3. s \in SaveType(Len(files'))
    BY <1>1
  <2>4. \A n \in temps' : n \in temps \/ (n = Len(files) + 1 /\ n = Len(files'))
    BY <1>1
  <2>5. \A n \in 1 .. Len(files) :
          /\ files'[n].place = files[n].place
          /\ files[n].data = "empty" =>
               files'[n].data = "empty" \/ (s.step # "none" /\ s.file = n)
    BY <1>1
  <2>6. Len(files') \in Nat /\ Len(files) <= Len(files')
    BY <1>0, <1>1
  <2>7. saves[p].step # "none" /\ saves[p].file \in temps' =>
          (s.step # "none" /\ s.file = saves[p].file) \/ saves[p].place = "checkpoint"
    BY <1>1
  <2> QED
    BY <1>1, <2>1, <2>2, <2>3, <2>4, <2>5, <2>6, <2>7, OneGoesOn
<1>2. ASSUME NEW p \in Savers, NEW data \in {"empty", "part"}, Create(p, data),
             NEW s \in SaveType(Len(files')), saves' = [saves EXCEPT ![p] = s],
             saves[p].step = "opening", saves[p].file = 0,
             \/ s.step = "none" /\ data = "empty"
             \/ /\ s.step = "writing" /\ s.place = saves[p].place
                /\ s.file = Len(files) + 1
      PROVE  TempsInv'
  <2> DEFINE new == [data |-> data, synced |-> FALSE, place |-> saves[p].place]
  <2>1. new \in File /\ new.data = data /\ new.place = saves[p].place
    BY <1>0, <1>2 DEF File, SaveType
  <2>2. files' = Append(files, new) /\ temps' = temps \cup {Len(files) + 1}
    BY <1>2 DEF Create
  <2> HIDE DEF new
  <2>3. /\ Len(files') = Len(files) + 1 /\ Len(files') \in Nat
        /\ \A n \in 1 .. Len(files) : files'[n] = files[n]
        /\ files'[Len(files) + 1] = new
    BY <1>0, <2>1, <2>2, AppendProperties
  <2>4. s.step # "none" /\ s.file # 0 => files'[s.file].place = s.place
    BY <1>2, <2>1, <2>3
  <2>5. \A n \in temps' : n \in temps \/ (n = Len(files) + 1 /\ n = Len(files'))
    BY <2>2, <2>3
  <2>6. saves[p].file \notin temps'
    BY <1>0, <1>2, <2>2
  <2>7. \/ files'[Len(files) + 1].data = "empty"
        \/ s.step # "none" /\ s.file = Len(files) + 1
    BY <1>2, <2>1, <2>3
  <2>8. Len(files) <= Len(files')
    BY <1>0, <2>3
  <2>9. s.step \notin {"renamed", "reporting"}
    BY <1>2
  <2> QED
    BY <2>3, <2>4, <2>5, <2>6, <2>7, <2>8, <2>9, <1>2, OneGoesOn
<1>3. ASSUME NEW p \in Savers, NEW f, NEW n \in 1 .. Len(files), NEW s \in SaveType(Len(files)),
             files' = [files EXCEPT ![n] = f], f \in File, f.place = files[n].place,
             temps' = temps, saves' = [saves EXCEPT ![p] = s],
             s.step \in {"written", "synced"}, s.file = saves[p].file, s.file = n,
             s.place = saves[p].place /\ saves[p].step # "none"
      PROVE  TempsInv'
  <2>1. /\ Len(files') = Len(files)
        /\ \A k \in 1 .. Len(files) : files'[k] = IF k = n THEN f ELSE files[k]
    BY <1>0, <1>3, ExceptSeq
  <2>2. \A k \in 1 .. Len(files) :
          /\ files'[k].place = files[k].place
          /\ files[k].data = "empty" =>
               files'[k].data = "empty" \/ (s.step # "none" /\ s.file = k)
    BY <1>3, <2>1
  <2>3. s.step # "none" /\ s.file # 0 => files'[s.file].place = s.place
    <3>1. s.file \in 0 .. Len(files)
      BY <1>3 DEF SaveType
    <3>2. s.file # 0 => files[s.file].place = s.place
      BY <1>3 DEF TempsInv, At
    <3> QED
      BY <1>0, <2>2, <3>1, <3>2
  <2>4. Len(files) + 1 \notin temps'
    BY <1>0, <1>3
  <2>5. s \in SaveType(Len(files')) /\ Len(files') \in Nat /\ Len(files) <= Len(files')
    BY <1>0, <1>3, <2>1
  <2>6. s.step \notin {"none", "renamed", "reporting"} /\ \A k \in temps' : k \in temps
    BY <1>3
  <2> QED
    BY <1>3, <2>2, <2>3, <2>4, <2>5, <2>6, OneGoesOn
<1>4. ASSUME NEW p \in Savers, NEW d \in Places, Begin(p, d) PROVE TempsInv'
  <2> DEFINE s == [step |-> "opening", place |-> d, file |-> 0, at |-> 0]
  <2>1. s \in SaveType(Len(files)) /\ s.step = "opening" /\ s.file = 0
    BY <1>0 DEF SaveType, Steps
  <2>2. files' = files /\ temps' = temps /\ saves' = [saves EXCEPT ![p] = s]
        /\ saves[p].step = "none"
    BY <1>4 DEF Begin, disk, At
  <2> HIDE DEF s
  <2>3. Len(files) + 1 \notin temps'
    BY <1>0, <2>2
  <2>4. \A n \in 1 .. Len(files) :
          /\ files'[n].place = files[n].place
          /\ files[n].data = "empty" =>
               files'[n].data = "empty" \/ (s.step # "none" /\ s.file = n)
    BY <2>2
  <2>5. Len(files') \in Nat /\ Len(files) <= Len(files') /\ s \in SaveType(Len(files'))
    BY <1>0, <2>1, <2>2
  <2>6. \A n \in temps' : n \in temps \/ (n = Len(files) + 1 /\ n = Len(files'))
    BY <2>2
  <2>7. s.step \notin {"renamed", "reporting"}
    BY <2>1
  <2> QED
    BY <2>1, <2>2, <2>3, <2>4, <2>5, <2>6, <2>7, OneGoesOn
<1>5. ASSUME NEW p \in Savers, Open(p) PROVE TempsInv'
  <2> DEFINE s == [step |-> "writing", place |-> saves[p].place,
                   file |-> Len(files) + 1, at |-> 0]
  <2>1. Create(p, "part") /\ saves[p].step = "opening"
    BY <1>5 DEF Open, At
  <2>2. Len(files') = Len(files) + 1
    BY <1>0, <2>1, CreateKeeps
  <2>3. s \in SaveType(Len(files')) /\ s.step = "writing" /\ s.place = saves[p].place
        /\ s.file = Len(files) + 1
    BY <1>0, <2>2 DEF SaveType, Steps
  <2>4. saves' = [saves EXCEPT ![p] = s]
    BY <1>0, <1>5 DEF Open
  <2> HIDE DEF s
  <2>5. saves[p].file = 0
    BY <1>5 DEF StoreInv, Open, SaveInv, At
  <2> QED
    BY <1>2, <2>1, <2>3, <2>4, <2>5
<1>6. ASSUME NEW p \in Savers, Write(p) \/ SyncFile(p) PROVE TempsInv'
  <2> DEFINE n == saves[p].file
             st == IF Write(p) THEN "written" ELSE "synced"
             s == [saves[p] EXCEPT !.step = st]
  <2>1. n \in 1 .. Len(files)
    BY <1>0, <1>6 DEF Write, SyncFile, SaveInv, Whole
  <2>2. st \in {"written", "synced"}
    OBVIOUS
  <2>3. s \in SaveType(Len(files)) /\ s.step = st /\ s.file = n /\ s.place = saves[p].place
    BY <1>0, <2>2 DEF SaveType, Steps
  <2>4. files[n] \in File
    BY <1>0, <2>1
  <2>5. CASE Write(p)
    <3> DEFINE f == [files[n] EXCEPT !.data = "whole"]
    <3>1. f \in File /\ f.place = files[n].place
      BY <2>4 DEF File
    <3>2. files' = [files EXCEPT ![n] = f] /\ temps' = temps
          /\ saves' = [saves EXCEPT ![p] = s] /\ saves[p].step # "none"
      BY <2>5 DEF Write, Goes, At
    <3> HIDE DEF f, s, st, n
    <3> QED
      BY <1>3, <2>1, <2>2, <2>3, <3>1, <3>2 DEF n
  <2>6. CASE ~Write(p)
    <3> DEFINE f == [files[n] EXCEPT !.synced = TRUE]
    <3>1. f \in File /\ f.place = files[n].place
      BY <2>4 DEF File
    <3>2. files' = [files EXCEPT ![n] = f] /\ temps' = temps
          /\ saves' = [saves EXCEPT ![p] = s] /\ saves[p].step # "none"
      BY <1>6, <2>6 DEF SyncFile, Goes, At
    <3> HIDE DEF f, s, st, n
    <3> QED
      BY <1>3, <2>1, <2>2, <2>3, <3>1, <3>2 DEF n
  <2> QED
    BY <2>5, <2>6
<1>7. ASSUME NEW p \in Savers, Rename(p) PROVE TempsInv'
  <2> DEFINE st == IF saves[p].place = "session" THEN "renamed" ELSE "reporting"
             s == [step |-> st, place |-> saves[p].place, file |-> saves[p].file,
                   at |-> Len(held[saves[p].place]) + 1]
  <2>1. st \in {"renamed", "reporting"}
    OBVIOUS
  <2>2. Len(held[saves[p].place]) \in Nat
    BY <1>0, Types DEF SaveType
  <2>3. s \in SaveType(Len(files)) /\ s.step = st /\ s.file = saves[p].file
        /\ s.place = saves[p].place
    BY <1>0, <2>1, <2>2 DEF SaveType, Steps
  <2>4. /\ files' = files /\ temps' = temps \ {saves[p].file}
        /\ saves' = [saves EXCEPT ![p] = s] /\ saves[p].step # "none"
    BY <1>7 DEF Rename, At
  <2> HIDE DEF s, st
  <2> QED
    BY <1>1, <2>1, <2>3, <2>4
<1>8. ASSUME NEW p \in Savers, SyncDirectory(p) PROVE TempsInv'
  <2> DEFINE s == [saves[p] EXCEPT !.step = "reporting"]
  <2>1. s \in SaveType(Len(files)) /\ s.step = "reporting" /\ s.file = saves[p].file
        /\ s.place = saves[p].place
    BY <1>0 DEF SaveType, Steps
  <2>2. /\ files' = files /\ temps' = temps /\ saves' = [saves EXCEPT ![p] = s]
        /\ saves[p].step = "renamed"
    BY <1>8 DEF SyncDirectory, Goes, At
  <2>3. saves[p].file \notin temps
    BY <2>2 DEF TempsInv, At
  <2> HIDE DEF s
  <2> QED
    BY <1>1, <2>1, <2>2, <2>3
<1>9. None \in SaveType(Len(files)) /\ None.step = "none"
  BY <1>0 DEF None, SaveType, Steps, Places
<1>10. ASSUME NEW p \in Savers, Report(p) \/ Fails(p) PROVE TempsInv'
  <2>1. /\ files' = files /\ temps' \subseteq temps /\ saves' = [saves EXCEPT ![p] = None]
    BY <1>10 DEF Report, Fails, disk
  <2>2. saves[p].file \notin temps'
    <3>1. CASE Report(p)
      BY <3>1 DEF Report, TempsInv, disk
    <3>2. CASE Fails(p)
      BY <3>2 DEF Fails, Removed
    <3> QED
      BY <1>10, <3>1, <3>2
  <2> QED
    BY <1>1, <1>9, <2>1, <2>2
<1>11. ASSUME NEW p \in Savers, Dropped(p) PROVE TempsInv'
  <2>1. saves' = [saves EXCEPT ![p] = None]
    BY <1>11 DEF Dropped
  <2>2. CASE At(p, "opening") /\ Create(p, "empty")
    <3>1. Len(files') = Len(files) + 1
      BY <1>0, <2>2, CreateKeeps
    <3>2. None \in SaveType(Len(files'))
      BY <1>0, <3>1 DEF None, SaveType, Steps, Places
    <3>3. saves[p].file = 0
      BY <2>2 DEF StoreInv, SaveInv, At
    <3> QED
      BY <1>2, <1>9, <2>1, <2>2, <3>2, <3>3 DEF At
  <2>3. CASE files' = files /\ temps' = temps \ Removed(p, TRUE)
    <3>1. saves[p].file \in temps' => saves[p].place = "checkpoint"
      BY <2>3 DEF Removed
    <3> QED
      BY <1>1, <1>9, <2>1, <2>3, <3>1
  <2> QED
    BY <1>11, <2>2, <2>3 DEF Dropped
<1>12. CASE WriteBack \/ UNCHANGED vars
  <2>1. /\ UNCHANGED <<temps, saves>>
        /\ Len(files') = Len(files)
        /\ \A n \in 1 .. Len(files) : /\ files'[n].place = files[n].place
                                     /\ files'[n].data = files[n].data
    <3>1. CASE UNCHANGED files
      BY <1>12, <3>1 DEF WriteBack, vars
    <3>2. ASSUME NEW n \in 1 .. Len(files),
                 files' = [files EXCEPT ![n].synced = (files[n].data = "whole")]
          PROVE  /\ Len(files') = Len(files)
                 /\ \A k \in 1 .. Len(files) : /\ files'[k].place = files[k].place
                                              /\ files'[k].data = files[k].data
      <4> DEFINE f == [files[n] EXCEPT !.synced = (files[n].data = "whole")]
      <4>1. f \in File /\ f.data = files[n].data /\ f.place = files[n].place
        BY <1>0 DEF File
      <4>2. files' = [files EXCEPT ![n] = f]
        BY <3>2
      <4> HIDE DEF f
      <4>3. /\ Len(files') = Len(files)
            /\ \A k \in 1 .. Len(files) : files'[k] = IF k = n THEN f ELSE files[k]
        BY <1>0, <4>1, <4>2, ExceptSeq
      <4> QED
        BY <4>1, <4>3
    <3> QED
      BY <1>0, <1>12, <3>1, <3>2 DEF WriteBack, vars
  <2>2. NoStrays'
    BY <1>0, <2>1 DEF TempsInv, NoStrays, At
  <2>3. ASSUME NEW p \in Savers
        PROVE  /\ At(p, "renamed")' \/ At(p, "reporting")' => saves'[p].file \notin temps'
               /\ saves'[p].file # 0 /\ ~At(p, "none")' =>
                    files'[saves'[p].file].place = saves'[p].place
    <3>1. saves[p].file \in 0 .. Len(files)
      BY <1>0 DEF SaveType
    <3> QED
      BY <1>0, <2>1, <3>1 DEF TempsInv, At
  <2> QED
    BY <1>0, <2>1, <2>2, <2>3 DEF TempsInv
<1> QED
  BY <1>4, <1>5, <1>6, <1>7, <1>8, <1>10, <1>11, <1>12 DEF Next, Step, Killed, PowerLoss

(* Short of a crash, a save that stops early leaves no temporary file       *)
(* behind but an empty one that was being opened.                          *)
THEOREM SavesCleanUp == Spec => []CleansUp
<1>1. Init => TempsInv
  BY DEF Init, TempsInv, NoStrays, At, None
<1>2. StoreInv /\ (~crashes => TempsInv) /\ [Next]_vars => (~crashes' => TempsInv')
  BY TempsStay DEF Next, vars
<1>3. (~crashes => TempsInv) => CleansUp
  BY DEF TempsInv, NoStrays, CleansUp
<1> QED
  BY <1>1, <1>2, <1>3, StoreInvariant, PTL DEF Spec

(* Every file a save or a name points at has been written, whatever was    *)
(* cut off (SessionStore::save).                                           *)
THEOREM StoreTypes == Spec => []TypeOK
<1>1. StoreInv => TypeOK
  BY DEF StoreInv
<1> QED
  BY <1>1, StoreInvariant, PTL
=============================================================================
