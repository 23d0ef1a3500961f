---------------------------- MODULE SubagentsProofs ----------------------------
(***************************************************************************)
(* Proofs about Subagents, for any number of guardians, delegations and    *)
(* callers: no two delegations share a name, a background task always has  *)
(* exactly one owner, and none is left without.                            *)
(***************************************************************************)
EXTENDS Subagents, SequenceTheorems, TLAPS

(* A name says which delegation it is: the division by the number of       *)
(* guardians loses nothing.                                                *)
LEMMA GuardianDiffers ==
  ASSUME NEW i \in Nat, NEW j \in Nat, guardian(i) = guardian(j)
  PROVE  i = j
<1>1. i % Guardians = j % Guardians /\ i \div Guardians = j \div Guardians
  BY DEF guardian
<1>2. /\ i = Guardians * (i \div Guardians) + (i % Guardians)
      /\ j = Guardians * (j \div Guardians) + (j % Guardians)
  BY GuardiansAssumption
<1> QED
  BY <1>1, <1>2

ChildType == [name : Names, background : BOOLEAN, collected : Nat, aborted : BOOLEAN,
              step : {"working", "saving", "ended", "unsaved", "dropped"}]

N == Len(children)

ShapeInv ==
  /\ spawned = N
  /\ children \in Seq(ChildType)
  /\ registry \in [Names -> 0 .. N]
  /\ waits \in [Callers -> [name : Names, child : 0 .. N]]
  /\ open \in BOOLEAN

(* Who owns a task knows it by its name, and it has not been collected.    *)
OwnedInv ==
  /\ \A n \in Names : registry[n] # 0 =>
       /\ children[registry[n]].name = n
       /\ children[registry[n]].background = TRUE
       /\ children[registry[n]].collected = 0
  /\ \A c \in Callers : waits[c].child # 0 =>
       /\ children[waits[c].child].name = waits[c].name
       /\ children[waits[c].child].background = TRUE
       /\ children[waits[c].child].collected = 0
  /\ \A c \in Callers : waits[c] # NoWait => waits[c].child # 0

RegistryInv == ShapeInv /\ OwnedInv /\ OneOwner

LEMMA Shape ==
  ASSUME ShapeInv
  PROVE  /\ N \in Nat /\ DOMAIN children = 1 .. N
         /\ \A i \in 1 .. N : children[i] \in ChildType
         /\ \A n \in Names : registry[n] \in 0 .. N
         /\ \A c \in Callers : waits[c].name \in Names /\ waits[c].child \in 0 .. N
BY LenProperties, ElementOfSeq DEF ShapeInv, N

LEMMA NoWaitTyped == NoWait \in [name : Names, child : 0 .. 0] /\ NoWait.child = 0
<1>1. 0 \in 0 .. MaxChildren
  BY MaxChildrenAssumption
<1> QED
  BY <1>1 DEF NoWait, Names

LEMMA InitRegistry == Init => RegistryInv
<1> SUFFICES ASSUME Init PROVE RegistryInv
  OBVIOUS
<1>1. N = 0 /\ children \in Seq(ChildType) /\ DOMAIN children = {}
  BY DEF Init, N
<1>2. ShapeInv
  BY <1>1, NoWaitTyped DEF Init, ShapeInv
<1>3. OwnedInv /\ OneOwner
  BY <1>1, NoWaitTyped DEF Init, OwnedInv, OneOwner, Ids
<1> QED
  BY <1>2, <1>3 DEF RegistryInv

(* A delegation goes through its own life without changing who owns it.    *)
SameTask(a, b) ==
  a.name = b.name /\ a.background = b.background /\ a.collected = b.collected

(* What a step must respect that takes no task from its owner: it may add  *)
(* a delegation, and may register that one.                                *)
LEMMA OwnersStay ==
  ASSUME RegistryInv,
         children' \in Seq(ChildType), N' \in Nat, N <= N',
         \A i \in 1 .. N : SameTask(children'[i], children[i]),
         \A i \in N + 1 .. N' : children'[i].collected = 0,
         spawned' = N', UNCHANGED <<waits, open>>,
         registry' \in [Names -> 0 .. N'],
         \A n \in Names :
           \/ registry'[n] = registry[n]
           \/ /\ registry'[n] = N + 1 /\ N' = N + 1
              /\ children'[N + 1].name = n /\ children'[N + 1].background = TRUE
  PROVE  RegistryInv'
<1>0. /\ N \in Nat
      /\ \A n \in Names : registry[n] \in 0 .. N
      /\ \A c \in Callers : waits[c].name \in Names /\ waits[c].child \in 0 .. N
      /\ waits \in [Callers -> [name : Names, child : 0 .. N]] /\ open \in BOOLEAN
  BY Shape DEF RegistryInv, ShapeInv
<1>1. ShapeInv'
  <2>1. waits \in [Callers -> [name : Names, child : 0 .. N']]
    <3>1. \A k \in 0 .. N : k \in 0 .. N'
      BY <1>0
    <3>2. [name : Names, child : 0 .. N] \subseteq [name : Names, child : 0 .. N']
      BY <3>1
    <3> QED
      BY <1>0, <3>2
  <2> QED
    BY <1>0, <2>1 DEF ShapeInv
<1>2. ASSUME NEW n \in Names, registry'[n] # 0
      PROVE  /\ children'[registry'[n]].name = n
             /\ children'[registry'[n]].background = TRUE
             /\ children'[registry'[n]].collected = 0
  <2>1. CASE registry'[n] = registry[n]
    <3>1. registry[n] \in 1 .. N
      BY <1>0, <1>2, <2>1
    <3> QED
      BY <1>2, <2>1, <3>1 DEF RegistryInv, OwnedInv, SameTask
  <2>2. CASE registry'[n] # registry[n]
    BY <1>0, <2>2
  <2> QED
    BY <2>1, <2>2
<1>3. ASSUME NEW c \in Callers, waits[c].child # 0
      PROVE  /\ children'[waits[c].child].name = waits[c].name
             /\ children'[waits[c].child].background = TRUE
             /\ children'[waits[c].child].collected = 0
  <2>1. waits[c].child \in 1 .. N
    BY <1>0, <1>3
  <2> QED
    BY <1>3, <2>1 DEF RegistryInv, OwnedInv, SameTask
<1>4. OwnedInv'
  BY <1>2, <1>3 DEF RegistryInv, OwnedInv
<1>5. ASSUME NEW n \in Names, NEW m \in Names, registry'[n] = registry'[m], registry'[n] # 0
      PROVE  n = m
  BY <1>2, <1>5, ZenonT(40)
<1>6. ASSUME NEW n \in Names, NEW c \in Callers, registry'[n] = waits[c].child
      PROVE  registry'[n] = 0
  <2>1. waits[c].child # N + 1
    BY <1>0
  <2>2. registry'[n] = registry[n]
    BY <1>6, <2>1
  <2> QED
    BY <1>6, <2>2 DEF RegistryInv, OneOwner
<1>7. ASSUME NEW i \in DOMAIN children' PROVE children'[i].collected <= 1
  <2>1. DOMAIN children' = 1 .. N'
    BY LenProperties DEF N
  <2>2. CASE i \in 1 .. N
    <3>1. children[i].collected <= 1
      BY <2>2, Shape DEF RegistryInv, OneOwner, Ids, Child
    <3> QED
      BY <2>2, <3>1 DEF SameTask
  <2>3. CASE i \notin 1 .. N
    <3>1. i \in N + 1 .. N'
      BY <1>0, <2>1, <2>3
    <3> QED
      BY <3>1
  <2> QED
    BY <2>2, <2>3
<1>8. OneOwner'
  BY <1>5, <1>6, <1>7 DEF RegistryInv, OneOwner, Ids, Child
<1> QED
  BY <1>1, <1>4, <1>8 DEF RegistryInv

LEMMA BeginAdds ==
  ASSUME RegistryInv, NEW name \in Names, NEW background \in BOOLEAN, Begin(name, background)
  PROVE  /\ children' \in Seq(ChildType) /\ N' = N + 1 /\ N' \in Nat /\ N <= N'
         /\ \A i \in 1 .. N : children'[i] = children[i]
         /\ children'[N + 1].name = name
         /\ children'[N + 1].background = background
         /\ children'[N + 1].collected = 0
         /\ spawned' = N'
<1> DEFINE new == [name |-> name, background |-> background, step |-> "working",
                   aborted |-> FALSE, collected |-> 0]
<1>0. children \in Seq(ChildType) /\ N \in Nat /\ spawned = N
  BY Shape DEF RegistryInv, ShapeInv
<1>1. new \in ChildType /\ new.name = name /\ new.background = background
      /\ new.collected = 0
  BY DEF ChildType
<1>2. children' = Append(children, new) /\ spawned' = spawned + 1
  BY DEF Begin
<1> HIDE DEF new
<1>3. /\ children' \in Seq(ChildType) /\ N' = N + 1
      /\ \A i \in 1 .. N : children'[i] = children[i]
      /\ children'[N + 1] = new
  BY <1>0, <1>1, <1>2, AppendProperties DEF N
<1>4. children'[N + 1].background = background
  BY <1>1, <1>3, Zenon
<1>5. children'[N + 1].name = name /\ children'[N + 1].collected = 0
  BY <1>1, <1>3
<1>6. N + 1 \in Nat /\ N <= N + 1
  BY <1>0
<1> QED
  BY <1>0, <1>2, <1>3, <1>4, <1>5, <1>6

LEMMA NamesNext ==
  ASSUME RegistryInv, N < MaxChildren, NEW name \in NextNames
  PROVE  name \in Names /\ (fresh => name = guardian(N))
<1>1. N \in Nat /\ spawned = N
  BY Shape DEF RegistryInv, ShapeInv
<1>2. N \in 0 .. MaxChildren
  BY <1>1, MaxChildrenAssumption
<1> QED
  BY <1>1, <1>2 DEF NextNames, Names

LEMMA StartKeeps ==
  ASSUME RegistryInv, Start \/ Delegate
  PROVE  RegistryInv'
<1>1. PICK name \in NextNames, background \in BOOLEAN :
        /\ Begin(name, background)
        /\ registry' = IF background THEN [registry EXCEPT ![name] = N + 1] ELSE registry
        /\ UNCHANGED <<waits, open>>
  BY DEF Start, Delegate, N
<1>2. N < MaxChildren
  BY <1>1 DEF Begin, N
<1>3. name \in Names
  BY <1>2, NamesNext
<1>4. /\ children' \in Seq(ChildType) /\ N' = N + 1 /\ N' \in Nat /\ N <= N'
      /\ \A i \in 1 .. N : children'[i] = children[i]
      /\ children'[N + 1].name = name
      /\ children'[N + 1].background = background
      /\ children'[N + 1].collected = 0
      /\ spawned' = N'
  BY <1>1, <1>3, BeginAdds
<1>5. N \in Nat /\ registry \in [Names -> 0 .. N]
  BY Shape DEF RegistryInv, ShapeInv
<1>6. registry' \in [Names -> 0 .. N']
  <2>1. \A k \in 0 .. N : k \in 0 .. N'
    BY <1>4, <1>5
  <2>2. N + 1 \in 0 .. N' /\ registry \in [Names -> 0 .. N']
    BY <1>4, <1>5, <2>1
  <2> QED
    BY <1>1, <1>3, <2>2
<1>7. \A n \in Names :
        \/ registry'[n] = registry[n]
        \/ /\ registry'[n] = N + 1 /\ N' = N + 1
           /\ children'[N + 1].name = n /\ children'[N + 1].background = TRUE
  BY <1>1, <1>4, <1>5
<1>8. \A i \in 1 .. N : SameTask(children'[i], children[i])
  BY <1>4 DEF SameTask
<1>9. \A i \in N + 1 .. N' : children'[i].collected = 0
  BY <1>4, <1>5
<1>10. /\ children' \in Seq(ChildType) /\ N' \in Nat /\ N <= N' /\ spawned' = N'
       /\ UNCHANGED <<waits, open>>
  BY <1>1, <1>4
<1> QED
  BY <1>6, <1>7, <1>8, <1>9, <1>10, OwnersStay

LEMMA ChildKeeps ==
  ASSUME RegistryInv, NEW i \in Ids,
         RunReturns(i) \/ SaveReturns(i) \/ DelegateDropped(i) \/ TaskStops(i)
  PROVE  RegistryInv'
<1>0. /\ N \in Nat /\ children \in Seq(ChildType) /\ i \in 1 .. N
      /\ children[i] \in ChildType /\ spawned = N /\ registry \in [Names -> 0 .. N]
  BY Shape DEF RegistryInv, ShapeInv, Ids
<1>1. PICK step \in {"saving", "ended", "unsaved", "dropped"} :
        children' = [children EXCEPT ![i].step = step]
  BY DEF RunReturns, SaveReturns, DelegateDropped, TaskStops, Becomes
<1>2. UNCHANGED <<spawned, registry, waits, open>>
  BY DEF RunReturns, SaveReturns, DelegateDropped, TaskStops
<1> DEFINE r == [children[i] EXCEPT !.step = step]
<1>3. r \in ChildType /\ SameTask(r, children[i])
  BY <1>0 DEF ChildType, SameTask
<1>4. children' = [children EXCEPT ![i] = r]
  BY <1>1
<1> HIDE DEF r
<1>5. /\ children' \in Seq(ChildType) /\ N' = N
      /\ \A k \in 1 .. N : children'[k] = IF k = i THEN r ELSE children[k]
  BY <1>0, <1>3, <1>4, ExceptSeq DEF N
<1>6. \A k \in 1 .. N : SameTask(children'[k], children[k])
  BY <1>3, <1>5 DEF SameTask
<1>7. \A k \in N + 1 .. N' : children'[k].collected = 0
  BY <1>0, <1>5
<1>8. /\ children' \in Seq(ChildType) /\ N' \in Nat /\ N <= N' /\ spawned' = N'
      /\ registry' \in [Names -> 0 .. N'] /\ UNCHANGED <<waits, open>>
  BY <1>0, <1>2, <1>5
<1>9. \A n \in Names : registry'[n] = registry[n]
  BY <1>2
<1> QED
  BY <1>6, <1>7, <1>8, <1>9, OwnersStay

LEMMA AbortKeeps ==
  ASSUME RegistryInv, NEW set,
         children' = [i \in Ids |-> IF i \in set THEN [children[i] EXCEPT !.aborted = TRUE]
                                                 ELSE children[i]]
  PROVE  /\ children' \in Seq(ChildType) /\ N' = N /\ N' \in Nat
         /\ \A k \in 1 .. N : SameTask(children'[k], children[k])
<1> DEFINE r(i) == IF i \in set THEN [children[i] EXCEPT !.aborted = TRUE] ELSE children[i]
<1>0. N \in Nat /\ DOMAIN children = 1 .. N /\ \A i \in 1 .. N : children[i] \in ChildType
  BY Shape DEF RegistryInv
<1>1. children' = [i \in 1 .. N |-> r(i)]
  BY <1>0 DEF Ids
<1>2. \A i \in 1 .. N : r(i) \in ChildType
  BY <1>0 DEF ChildType
<1>3. \A i \in 1 .. N : SameTask(r(i), children[i])
  BY <1>0 DEF ChildType, SameTask
<1> HIDE DEF r
<1>4. children' \in Seq(ChildType) /\ N' = N
  <2>1. children' \in [1 .. N -> ChildType]
    BY <1>2, <1>1
  <2>2. children' \in Seq(ChildType)
    BY <1>0, <2>1
  <2>3. DOMAIN children' = 1 .. Len(children') /\ Len(children') \in Nat
    BY <2>2, LenProperties
  <2>4. DOMAIN children' = 1 .. N
    BY <2>1
  <2>5. \A a, b \in Nat : 1 .. a = 1 .. b => a = b
    OBVIOUS
  <2>6. Len(children') = N
    BY <1>0, <2>3, <2>4, <2>5
  <2> QED
    BY <2>2, <2>6 DEF N
<1> QED
  BY <1>0, <1>1, <1>3, <1>4

LEMMA CollectKeeps ==
  ASSUME RegistryInv, NEW c \in Callers, NEW name \in Names, Collect(c, name)
  PROVE  RegistryInv'
<1> DEFINE i == registry[name]
           w == [name |-> name, child |-> i]
<1>0. /\ N \in Nat /\ registry \in [Names -> 0 .. N] /\ i \in 1 .. N
      /\ waits \in [Callers -> [name : Names, child : 0 .. N]]
      /\ ShapeInv /\ OwnedInv /\ OneOwner
  BY Shape DEF RegistryInv, ShapeInv, Collect
<1>1. /\ waits' = [waits EXCEPT ![c] = w]
      /\ registry' = [registry EXCEPT ![name] = 0]
      /\ UNCHANGED <<spawned, children, open>>
  BY DEF Collect
<1>2. /\ w \in [name : Names, child : 0 .. N] /\ w.child = i /\ w.name = name
  BY <1>0
<1> HIDE DEF w
<1>3. /\ waits' \in [Callers -> [name : Names, child : 0 .. N]]
      /\ waits'[c] = w /\ \A d \in Callers : d # c => waits'[d] = waits[d]
      /\ registry' \in [Names -> 0 .. N]
      /\ registry'[name] = 0 /\ \A n \in Names : n # name => registry'[n] = registry[n]
      /\ N' = N
  BY <1>0, <1>1, <1>2 DEF N
<1>4. ShapeInv'
  BY <1>0, <1>1, <1>3 DEF ShapeInv
<1>5. OwnedInv'
  <2>1. ASSUME NEW n \in Names, registry'[n] # 0 PROVE registry'[n] = registry[n]
    BY <1>3, <2>1
  <2>2. ASSUME NEW d \in Callers
        PROVE  /\ waits'[d].child # 0 =>
                    /\ children[waits'[d].child].name = waits'[d].name
                    /\ children[waits'[d].child].background = TRUE
                    /\ children[waits'[d].child].collected = 0
               /\ waits'[d] # NoWait => waits'[d].child # 0
    <3>1. CASE d = c
      BY <1>0, <1>2, <1>3, <3>1 DEF OwnedInv
    <3>2. CASE d # c
      BY <1>0, <1>3, <3>2 DEF OwnedInv
    <3> QED
      BY <3>1, <3>2
  <2>3. NoWait' = NoWait
    BY DEF NoWait
  <2> QED
    BY <1>0, <1>1, <2>1, <2>2, <2>3 DEF OwnedInv
<1>6. OneOwner'
  <2>1. \A n, m \in Names : registry'[n] = registry'[m] /\ registry'[n] # 0 => n = m
    BY <1>0, <1>3 DEF OneOwner
  <2>2. \A d \in Callers : d # c => waits[d].child # i
    BY <1>0 DEF OneOwner
  <2>3. \A d, e \in Callers :
          waits'[d].child = waits'[e].child /\ waits'[d] # NoWait => d = e
    <3> SUFFICES ASSUME NEW d \in Callers, NEW e \in Callers,
                        waits'[d].child = waits'[e].child, waits'[d] # NoWait
                 PROVE  d = e
      OBVIOUS
    <3>1. CASE d = c \/ e = c
      BY <1>2, <1>3, <2>2, <3>1
    <3>2. CASE d # c /\ e # c
      BY <1>0, <1>3, <3>2 DEF OneOwner
    <3> QED
      BY <3>1, <3>2
  <2>4. \A n \in Names, d \in Callers : registry'[n] = waits'[d].child => registry'[n] = 0
    <3> SUFFICES ASSUME NEW n \in Names, NEW d \in Callers, registry'[n] = waits'[d].child
                 PROVE  registry'[n] = 0
      OBVIOUS
    <3>1. CASE n = name
      BY <1>3, <3>1
    <3>2. CASE n # name /\ d = c
      BY <1>0, <1>2, <1>3, <3>2 DEF OneOwner
    <3>3. CASE n # name /\ d # c
      BY <1>0, <1>3, <3>3 DEF OneOwner
    <3> QED
      BY <3>1, <3>2, <3>3
  <2>5. NoWait' = NoWait
    BY DEF NoWait
  <2>6. \A k \in DOMAIN children' : children'[k].collected <= 1
    BY <1>0, <1>1 DEF OneOwner, Ids, Child
  <2> QED
    BY <2>1, <2>3, <2>4, <2>5, <2>6 DEF OneOwner, Ids, Child
<1> QED
  BY <1>4, <1>5, <1>6 DEF RegistryInv

(* A caller stops waiting: its task is collected, given back, or stopped.  *)
LEMMA WaitEndsKeeps ==
  ASSUME RegistryInv, NEW c \in Callers, waits[c] # NoWait,
         waits' = [waits EXCEPT ![c] = NoWait], UNCHANGED <<spawned, open>>,
         children' \in Seq(ChildType), N' = N,
         \A k \in 1 .. N : children'[k].name = children[k].name,
         \A k \in 1 .. N : children'[k].background = children[k].background,
         \A k \in 1 .. N : k # waits[c].child =>
           children'[k].collected = children[k].collected,
         children'[waits[c].child].collected \in 0 .. 1,
         \/ registry' = registry
         \/ /\ registry[waits[c].name] = 0
            /\ children'[waits[c].child].collected = 0
            /\ registry' = [registry EXCEPT ![waits[c].name] = waits[c].child]
  PROVE  RegistryInv'
<1> DEFINE i == waits[c].child
           name == waits[c].name
<1>0. /\ N \in Nat /\ registry \in [Names -> 0 .. N] /\ i \in 1 .. N /\ name \in Names
      /\ waits \in [Callers -> [name : Names, child : 0 .. N]]
      /\ \A k \in 1 .. N : children[k].collected \in Nat
      /\ ShapeInv /\ OwnedInv /\ OneOwner
  <2>1. ShapeInv /\ OwnedInv /\ OneOwner
    BY DEF RegistryInv
  <2>2. /\ N \in Nat /\ registry \in [Names -> 0 .. N] /\ i \in 0 .. N /\ name \in Names
        /\ waits \in [Callers -> [name : Names, child : 0 .. N]]
        /\ \A k \in 1 .. N : children[k] \in ChildType
    BY <2>1, Shape DEF ShapeInv
  <2>3. i # 0
    BY <2>1 DEF OwnedInv
  <2>4. \A k \in 1 .. N : children[k].collected \in Nat
    BY <2>2 DEF ChildType
  <2> QED
    BY <2>1, <2>2, <2>3, <2>4
<1>1. NoWait \in [name : Names, child : 0 .. N] /\ NoWait.child = 0
  BY <1>0, NoWaitTyped
<1>2. /\ waits' \in [Callers -> [name : Names, child : 0 .. N]]
      /\ waits'[c] = NoWait /\ \A d \in Callers : d # c => waits'[d] = waits[d]
  BY <1>0, <1>1
<1>3. /\ registry' \in [Names -> 0 .. N]
      /\ \A n \in Names : registry'[n] # registry[n] =>
           n = name /\ registry'[n] = i /\ registry[n] = 0 /\ registry' # registry
  BY <1>0
<1>4. ShapeInv'
  BY <1>0, <1>2, <1>3 DEF ShapeInv
<1>5. \A d \in Callers : waits[d].child = i => d = c
  BY <1>0 DEF OneOwner
<1>6. \A n \in Names : registry'[n] # registry[n] => children'[i].collected = 0
  <2>1. CASE registry' = registry
    BY <2>1
  <2>2. CASE registry' # registry
    BY <2>2
  <2> QED
    BY <2>1, <2>2
<1>7. ASSUME NEW n \in Names, registry'[n] # 0
      PROVE  /\ children'[registry'[n]].name = n
             /\ children'[registry'[n]].background = TRUE
             /\ children'[registry'[n]].collected = 0
  <2>1. CASE registry'[n] = registry[n]
    <3> DEFINE k == registry[n]
    <3>1. k \in 1 .. N /\ k # i
      BY <1>0, <1>7, <2>1 DEF OneOwner
    <3>2. /\ children[k].name = n
          /\ children[k].background = TRUE
          /\ children[k].collected = 0
      BY <1>0, <1>7, <2>1 DEF OwnedInv
    <3> HIDE DEF k
    <3>3. /\ children'[k].name = n
          /\ children'[k].background = TRUE
          /\ children'[k].collected = 0
      BY <3>1, <3>2
    <3> QED
      BY <2>1, <3>3 DEF k
  <2>2. CASE registry'[n] # registry[n]
    <3>1. registry'[n] = i /\ n = name /\ children'[i].collected = 0
      BY <1>3, <1>6, <2>2
    <3>2. children[i].name = name /\ children[i].background = TRUE
      BY <1>0 DEF OwnedInv
    <3>3. children'[i].name = name /\ children'[i].background = TRUE
      BY <1>0, <3>2
    <3> QED
      BY <3>1, <3>3
  <2> QED
    BY <2>1, <2>2
<1>8. ASSUME NEW d \in Callers
      PROVE  /\ waits'[d].child # 0 =>
                  /\ children'[waits'[d].child].name = waits'[d].name
                  /\ children'[waits'[d].child].background = TRUE
                  /\ children'[waits'[d].child].collected = 0
             /\ waits'[d] # NoWait => waits'[d].child # 0
  <2>1. CASE d = c
    BY <1>1, <1>2, <2>1
  <2>2. CASE d # c /\ waits[d].child # 0
    <3>1. waits[d].child \in 1 .. N /\ waits[d].child # i
      BY <1>0, <1>5, <2>2
    <3> DEFINE k == waits[d].child
    <3>2. /\ children[k].name = waits[d].name
          /\ children[k].background = TRUE
          /\ children[k].collected = 0
      BY <1>0, <2>2 DEF OwnedInv
    <3> HIDE DEF k
    <3>3. /\ children'[k].name = waits[d].name
          /\ children'[k].background = TRUE
          /\ children'[k].collected = 0
      BY <3>1, <3>2 DEF k
    <3>4. waits'[d] = waits[d] /\ waits[d].child # 0
      BY <1>2, <2>2
    <3> QED
      BY <3>3, <3>4 DEF k
  <2>3. CASE d # c /\ waits[d].child = 0
    BY <1>0, <1>2, <2>3 DEF OwnedInv
  <2> QED
    BY <2>1, <2>2, <2>3
<1>9. NoWait' = NoWait
  BY DEF NoWait
<1>10. OwnedInv'
  BY <1>7, <1>8, <1>9 DEF OwnedInv
<1>11. ASSUME NEW n \in Names, NEW m \in Names,
              registry'[n] = registry'[m], registry'[n] # 0
       PROVE  n = m
  <2>1. children'[registry'[n]].name = n /\ children'[registry'[m]].name = m
    BY <1>7, <1>11
  <2> QED
    BY <1>11, <2>1
<1>12. ASSUME NEW d \in Callers, NEW e \in Callers,
              waits'[d].child = waits'[e].child, waits'[d] # NoWait
       PROVE  d = e
  BY <1>0, <1>1, <1>2, <1>8, <1>12, ZenonT(40) DEF OneOwner
<1>13. ASSUME NEW n \in Names, NEW d \in Callers, registry'[n] = waits'[d].child
       PROVE  registry'[n] = 0
  <2>1. CASE d = c
    BY <1>1, <1>2, <1>13, <2>1
  <2>2. CASE d # c /\ registry'[n] = registry[n]
    BY <1>0, <1>2, <1>13, <2>2 DEF OneOwner
  <2>3. CASE d # c /\ registry'[n] # registry[n]
    BY <1>2, <1>3, <1>5, <1>13, <2>3
  <2> QED
    BY <2>1, <2>2, <2>3
<1>14. ASSUME NEW k \in DOMAIN children' PROVE children'[k].collected <= 1
  <2>1. k \in 1 .. N
    BY <1>14, LenProperties DEF N
  <2>2. children[k].collected <= 1
    BY <1>0, <2>1, Shape DEF OneOwner, Ids, Child
  <2> QED
    BY <1>0, <2>1, <2>2
<1>15. OneOwner'
  BY <1>9, <1>11, <1>12, <1>13, <1>14 DEF OneOwner, Ids, Child
<1> QED
  BY <1>4, <1>10, <1>15 DEF RegistryInv

LEMMA CollectedKeeps ==
  ASSUME RegistryInv, NEW c \in Callers, Collected(c)
  PROVE  RegistryInv'
<1> DEFINE i == waits[c].child
           r == [children[i] EXCEPT !.collected = 1]
<1>0. /\ N \in Nat /\ children \in Seq(ChildType) /\ i \in 1 .. N
      /\ children[i] \in ChildType /\ children[i].collected = 0
  <2>1. waits[c] # NoWait /\ ShapeInv /\ OwnedInv
    BY DEF Collected, RegistryInv
  <2>2. N \in Nat /\ children \in Seq(ChildType) /\ i \in 0 .. N
    BY <2>1, Shape DEF ShapeInv
  <2>3. i # 0 /\ children[i].collected = 0
    BY <2>1 DEF OwnedInv
  <2> QED
    BY <2>1, <2>2, <2>3, Shape
<1>1. r \in ChildType /\ r.collected = 1 /\ r.name = children[i].name
  BY <1>0 DEF ChildType
<1>2. r.background = children[i].background
  BY <1>0 DEF ChildType
<1>3. /\ children' = [children EXCEPT ![i].collected = 1]
      /\ waits[c] # NoWait /\ waits' = [waits EXCEPT ![c] = NoWait]
      /\ UNCHANGED <<spawned, registry, open>>
  BY <1>0 DEF Collected
<1>33. children' = [children EXCEPT ![i] = r]
  BY <1>3
<1> HIDE DEF r, i
<1>4. /\ children' \in Seq(ChildType) /\ N' = N
      /\ \A k \in 1 .. N : children'[k] = IF k = i THEN r ELSE children[k]
  BY <1>0, <1>1, <1>33, ExceptSeq DEF N
<1>5. \A k \in 1 .. N : children'[k].name = children[k].name
  BY <1>1, <1>4
<1>6. \A k \in 1 .. N : children'[k].background = children[k].background
  <2> SUFFICES ASSUME NEW k \in 1 .. N
               PROVE  children'[k].background = children[k].background
    OBVIOUS
  <2>1. CASE k = i
    <3>1. children'[k] = r
      BY <1>4, <2>1
    <3> QED
      BY <1>2, <2>1, <3>1, Zenon
  <2>2. CASE k # i
    BY <1>4, <2>2
  <2> QED
    BY <2>1, <2>2
<1>7. /\ \A k \in 1 .. N : k # i => children'[k].collected = children[k].collected
      /\ children'[i].collected \in 0 .. 1
  BY <1>0, <1>1, <1>4
<1> QED
  BY <1>3, <1>4, <1>5, <1>6, <1>7, WaitEndsKeeps DEF i

LEMMA CollectDroppedKeeps ==
  ASSUME RegistryInv, NEW c \in Callers, CollectDropped(c)
  PROVE  RegistryInv'
<1> DEFINE i == waits[c].child
           name == waits[c].name
<1>0. /\ waits[c] # NoWait /\ waits' = [waits EXCEPT ![c] = NoWait]
      /\ UNCHANGED <<spawned, open>>
  BY DEF CollectDropped
<1>1. /\ N \in Nat /\ children \in Seq(ChildType) /\ i \in 1 .. N
      /\ children[i].collected = 0
  <2>1. ShapeInv /\ OwnedInv
    BY DEF RegistryInv
  <2>2. N \in Nat /\ children \in Seq(ChildType) /\ i \in 0 .. N
    BY <2>1, Shape DEF ShapeInv
  <2>3. i # 0 /\ children[i].collected = 0
    BY <1>0, <2>1 DEF OwnedInv
  <2> QED
    BY <2>2, <2>3
<1>2. CASE registry[name] = 0
  <2>1. children' = children /\ registry' = [registry EXCEPT ![name] = i]
    BY <1>2 DEF CollectDropped
  <2>2. /\ N' = N /\ children' \in Seq(ChildType) /\ children'[i].collected = 0
        /\ \A k \in 1 .. N : /\ children'[k].name = children[k].name
                             /\ children'[k].collected = children[k].collected
    BY <1>1, <2>1 DEF N
  <2>3. \A k \in 1 .. N : children'[k].background = children[k].background
    BY <2>1, Zenon
  <2>4. children'[i].collected \in 0 .. 1
    BY <2>2
  <2> QED
    BY <1>0, <1>2, <2>1, <2>2, <2>3, <2>4, WaitEndsKeeps, Zenon
<1>3. CASE registry[name] # 0
  <2>1. children' = Aborted({i}) /\ registry' = registry
    BY <1>3 DEF CollectDropped
  <2>2. /\ children' \in Seq(ChildType) /\ N' = N
        /\ \A k \in 1 .. N : SameTask(children'[k], children[k])
    <3>1. PICK set : set = {i}
      OBVIOUS
    <3>2. children' = Aborted(set)
      BY <2>1, <3>1
    <3> QED
      BY <3>2, AbortKeeps, Zenon DEF Aborted, Child, SameTask
  <2>3. children'[i].collected \in 0 .. 1
    BY <1>1, <2>2 DEF SameTask
  <2> QED
    BY <1>0, <2>1, <2>2, <2>3, WaitEndsKeeps DEF SameTask
<1> QED
  BY <1>2, <1>3

LEMMA DropRegistryKeeps ==
  ASSUME RegistryInv, DropRegistry
  PROVE  RegistryInv'
<1>0. /\ ShapeInv /\ OwnedInv /\ OneOwner
      /\ N \in Nat /\ waits \in [Callers -> [name : Names, child : 0 .. N]]
  BY Shape DEF RegistryInv, ShapeInv
<1>1. /\ children' \in Seq(ChildType) /\ N' = N
      /\ \A k \in 1 .. N : SameTask(children'[k], children[k])
  <2>1. PICK set : set = {registry[n] : n \in Names}
    OBVIOUS
  <2>2. children' = Aborted(set)
    BY <2>1 DEF DropRegistry
  <2>3. children' = [i \in Ids |-> IF i \in set THEN [children[i] EXCEPT !.aborted = TRUE]
                                                 ELSE children[i]]
    BY <2>2 DEF Aborted, Child
  <2>4. N' = N
    BY <2>3, AbortKeeps, Zenon
  <2>5. \A k \in 1 .. N : SameTask(children'[k], children[k])
    BY <2>3, AbortKeeps, Zenon DEF SameTask
  <2>6. children' \in Seq(ChildType)
    BY <2>3, AbortKeeps, Zenon
  <2> QED
    BY <2>4, <2>5, <2>6
<1>2. /\ registry' = [n \in Names |-> 0] /\ open' = FALSE /\ UNCHANGED <<spawned, waits>>
  BY DEF DropRegistry
<1>3. ShapeInv'
  <2>1. registry' \in [Names -> 0 .. N']
    BY <1>0, <1>1, <1>2
  <2> QED
    BY <1>0, <1>1, <1>2, <2>1 DEF ShapeInv
<1>4. NoWait' = NoWait /\ \A n \in Names : registry'[n] = 0
  BY <1>2 DEF NoWait
<1>5. ASSUME NEW c \in Callers, waits[c].child # 0
      PROVE  /\ children'[waits[c].child].name = waits[c].name
             /\ children'[waits[c].child].background = TRUE
             /\ children'[waits[c].child].collected = 0
  <2>1. waits[c].child \in 1 .. N
    BY <1>0, <1>5
  <2> QED
    BY <1>0, <1>1, <1>5, <2>1 DEF OwnedInv, SameTask
<1>6. OwnedInv'
  BY <1>0, <1>2, <1>4, <1>5 DEF OwnedInv
<1>7. \A k \in DOMAIN children' : children'[k].collected <= 1
  <2>1. DOMAIN children' = 1 .. N
    BY <1>1, LenProperties DEF N
  <2>2. \A k \in 1 .. N : children[k].collected <= 1
    BY <1>0, Shape DEF OneOwner, Ids, Child
  <2> QED
    BY <1>1, <2>1, <2>2 DEF SameTask
<1>8. OneOwner'
  BY <1>0, <1>2, <1>4, <1>7 DEF OneOwner, Ids, Child
<1> QED
  BY <1>3, <1>6, <1>8 DEF RegistryInv

LEMMA StepKeeps ==
  ASSUME RegistryInv, [Next]_vars
  PROVE  RegistryInv'
<1>1. CASE Start \/ Delegate
  BY <1>1, StartKeeps
<1>2. CASE DropRegistry
  BY <1>2, DropRegistryKeeps
<1>3. ASSUME NEW i \in Ids,
             RunReturns(i) \/ SaveReturns(i) \/ DelegateDropped(i) \/ TaskStops(i)
      PROVE  RegistryInv'
  BY <1>3, ChildKeeps
<1>4. ASSUME NEW c \in Callers,
             (\E name \in Names : Collect(c, name)) \/ Collected(c) \/ CollectDropped(c)
      PROVE  RegistryInv'
  BY <1>4, CollectKeeps, CollectedKeeps, CollectDroppedKeeps
<1>5. CASE UNCHANGED vars
  <2>1. NoWait' = NoWait /\ N' = N
    BY <1>5 DEF NoWait, N, vars
  <2> QED
    BY <1>5, <2>1 DEF vars, RegistryInv, ShapeInv, OwnedInv, OneOwner, Ids, Child
<1> QED
  BY <1>1, <1>2, <1>3, <1>4, <1>5 DEF Next, Step

(* The registry and the callers agree with the tasks they hold: name, kind  *)
(* and no result handed out yet (SubagentRegistry).                         *)
THEOREM RegistryInvHolds == Spec => []RegistryInv
<1>1. Init => RegistryInv
  BY InitRegistry
<1>2. RegistryInv /\ [Next]_vars => RegistryInv'
  BY StepKeeps
<1> QED
  BY <1>1, <1>2, PTL DEF Spec

(* No task is ever owned twice, whatever names the host gives: the result  *)
(* of a background task is handed out once (SubagentRegistry::collect).    *)
THEOREM OneOwnerHolds == Spec => []OneOwner
<1>1. RegistryInv => OneOwner
  BY DEF RegistryInv
<1> QED
  BY <1>1, RegistryInvHolds, PTL

-----------------------------------------------------------------------------
(* Names that come from next_name: the name of a delegation says which one *)
(* it is.                                                                  *)
NamesInv == \A k \in 1 .. N : children[k].name = guardian(k - 1)

Kept(new, old) ==
  /\ new.name = old.name /\ new.background = old.background
  /\ new.collected = 0 => old.collected = 0

(* A step adds a delegation with the next name, or leaves the names.       *)
LEMMA StepNames ==
  ASSUME RegistryInv, [Next]_vars
  PROVE  \/ /\ N' = N
            /\ \A k \in 1 .. N : Kept(children'[k], children[k])
         \/ /\ Start \/ Delegate
            /\ N' = N + 1
            /\ \A k \in 1 .. N : children'[k] = children[k]
            /\ fresh => children'[N + 1].name = guardian(N)
<1>0. ShapeInv /\ N \in Nat /\ children \in Seq(ChildType)
  BY Shape DEF RegistryInv, ShapeInv
<1>1. ASSUME NEW name \in NextNames, NEW background \in BOOLEAN, Begin(name, background)
      PROVE  /\ N' = N + 1
             /\ \A k \in 1 .. N : children'[k] = children[k]
             /\ fresh => children'[N + 1].name = guardian(N)
  <2>1. N < MaxChildren
    BY <1>1 DEF Begin, N
  <2>2. name \in Names /\ (fresh => name = guardian(N))
    BY <2>1, NamesNext
  <2> QED
    BY <1>1, <2>2, BeginAdds
<1>2. CASE Start \/ Delegate
  BY <1>1, <1>2 DEF Start, Delegate
<1>3. ASSUME NEW i \in 1 .. N, NEW r, Kept(r, children[i]), r \in ChildType,
             children' = [children EXCEPT ![i] = r]
      PROVE  N' = N /\ \A k \in 1 .. N : Kept(children'[k], children[k])
  <2>1. /\ N' = N
        /\ \A k \in 1 .. N : children'[k] = IF k = i THEN r ELSE children[k]
    BY <1>0, <1>3, ExceptSeq DEF N
  <2>2. \A k \in 1 .. N : Kept(children'[k], children[k])
    BY <1>3, <2>1, Zenon DEF Kept
  <2> QED
    BY <2>1, <2>2
<1>4. ASSUME NEW i \in Ids,
             RunReturns(i) \/ SaveReturns(i) \/ DelegateDropped(i) \/ TaskStops(i)
      PROVE  N' = N /\ \A k \in 1 .. N : Kept(children'[k], children[k])
  <2>1. PICK step \in {"saving", "ended", "unsaved", "dropped"} :
          children' = [children EXCEPT ![i].step = step]
    BY <1>4 DEF RunReturns, SaveReturns, DelegateDropped, TaskStops, Becomes
  <2>2. PICK r : r = [children[i] EXCEPT !.step = step]
    OBVIOUS
  <2>3. children' = [children EXCEPT ![i] = r] /\ i \in 1 .. N /\ children[i] \in ChildType
    BY <1>0, <2>1, <2>2, Shape DEF Ids
  <2>4. r \in ChildType /\ Kept(r, children[i])
    BY <2>2, <2>3 DEF ChildType, Kept
  <2> QED
    BY <1>3, <2>3, <2>4
<1>5. ASSUME NEW c \in Callers, Collected(c)
      PROVE  N' = N /\ \A k \in 1 .. N : Kept(children'[k], children[k])
  <2>1. PICK i : i = waits[c].child
    OBVIOUS
  <2>2. i \in 1 .. N /\ children[i] \in ChildType /\ children[i].collected = 0
    <3>1. waits[c].child \in 0 .. N /\ waits[c] # NoWait
      BY <1>0, <1>5, Shape DEF Collected
    <3>2. waits[c].child # 0 /\ children[waits[c].child].collected = 0
      BY <3>1 DEF RegistryInv, OwnedInv
    <3> QED
      BY <1>0, <2>1, <3>1, <3>2, Shape
  <2>3. children' = [children EXCEPT ![i].collected = 1]
    BY <1>5, <2>1, <2>2 DEF Collected
  <2>4. PICK r : r = [children[i] EXCEPT !.collected = 1]
    OBVIOUS
  <2>5. r \in ChildType /\ Kept(r, children[i])
    BY <2>2, <2>4 DEF ChildType, Kept
  <2>6. children' = [children EXCEPT ![i] = r]
    BY <2>3, <2>4
  <2> QED
    BY <1>3, <2>2, <2>5, <2>6
<1>6. ASSUME NEW set, children' = Aborted(set)
      PROVE  N' = N /\ \A k \in 1 .. N : Kept(children'[k], children[k])
  <2>1. N' = N /\ \A k \in 1 .. N : SameTask(children'[k], children[k])
    BY <1>6, AbortKeeps DEF Aborted, Child
  <2> QED
    BY <2>1 DEF SameTask, Kept
<1>7. ASSUME UNCHANGED children
      PROVE  N' = N /\ \A k \in 1 .. N : Kept(children'[k], children[k])
  BY <1>7, Zenon DEF N, Kept
<1>8. ASSUME NEW c \in Callers, CollectDropped(c)
      PROVE  N' = N /\ \A k \in 1 .. N : Kept(children'[k], children[k])
  <2>1. PICK set : set = {waits[c].child}
    OBVIOUS
  <2>2. children' = children \/ children' = Aborted(set)
    BY <1>8, <2>1 DEF CollectDropped
  <2> QED
    BY <1>6, <1>7, <2>2
<1>9. CASE DropRegistry
  <2>1. PICK set : set = {registry[n] : n \in Names}
    OBVIOUS
  <2>2. children' = Aborted(set)
    BY <1>9, <2>1 DEF DropRegistry
  <2> QED
    BY <1>6, <2>2
<1>10. ASSUME NEW c \in Callers, NEW name \in Names, Collect(c, name)
       PROVE  UNCHANGED children
  BY <1>10 DEF Collect
<1> QED
  BY <1>2, <1>4, <1>5, <1>7, <1>8, <1>9, <1>10 DEF Next, Step, vars

LEMMA NamesKeep ==
  ASSUME fresh, RegistryInv, NamesInv, [Next]_vars
  PROVE  NamesInv'
<1>0. N \in Nat
  BY Shape DEF RegistryInv
<1>1. CASE N' = N /\ \A k \in 1 .. N : Kept(children'[k], children[k])
  BY <1>1 DEF NamesInv, Kept
<1>2. CASE /\ N' = N + 1
           /\ \A k \in 1 .. N : children'[k] = children[k]
           /\ children'[N + 1].name = guardian(N)
  <2> SUFFICES ASSUME NEW k \in 1 .. N'
               PROVE  children'[k].name = guardian(k - 1)
    BY DEF NamesInv
  <2>1. CASE k \in 1 .. N
    BY <1>2, <2>1 DEF NamesInv
  <2>2. CASE k \notin 1 .. N
    <3>1. k = N + 1 /\ k - 1 = N
      BY <1>0, <1>2, <2>2
    <3> QED
      BY <1>2, <3>1
  <2> QED
    BY <2>1, <2>2
<1> QED
  BY <1>1, <1>2, StepNames

(* Names that come from next_name never repeat, however many delegations   *)
(* there are and however few guardians (guardian's suffix).                *)
THEOREM NamesDifferHolds == Spec => []NamesDiffer
<1>1. Init => RegistryInv /\ NamesInv
  <2>1. Init => N = 0
    BY DEF Init, N
  <2> QED
    BY <2>1, InitRegistry DEF NamesInv
<1>2. RegistryInv /\ (fresh => NamesInv) /\ [Next]_vars =>
        RegistryInv' /\ (fresh' => NamesInv')
  BY StepKeeps, NamesKeep DEF Next, vars
<1>3. RegistryInv /\ (fresh => NamesInv) => NamesDiffer
  <2> SUFFICES ASSUME RegistryInv, NamesInv, NEW i \in Ids, NEW j \in Ids,
                      children[i].name = children[j].name
               PROVE  i = j
    BY DEF NamesDiffer, Child
  <2>1. i \in 1 .. N /\ j \in 1 .. N /\ N \in Nat
    BY Shape DEF RegistryInv, Ids
  <2>2. guardian(i - 1) = guardian(j - 1) /\ i - 1 \in Nat /\ j - 1 \in Nat
    BY <2>1 DEF NamesInv
  <2>3. i - 1 = j - 1
    BY <2>2, GuardianDiffers
  <2> QED
    BY <2>1, <2>3
<1> QED
  BY <1>1, <1>2, <1>3, PTL DEF Spec

-----------------------------------------------------------------------------
(* Nothing that has not been collected is out of reach: it is registered   *)
(* under its name, or some caller waits for it.                            *)
Held(k) == registry[children[k].name] = k \/ Awaited(k)
Due(k) == children[k].background = TRUE /\ children[k].collected = 0
HeldInv == open => \A k \in 1 .. N : Due(k) => Held(k)

FreshInv == RegistryInv /\ NamesInv /\ HeldInv

(* A delegation that starts is held from its first step.                   *)
LEMMA HeldStarts ==
  ASSUME fresh, FreshInv, Start \/ Delegate, NEW k \in 1 .. N',
         Due(k)', k \in 1 .. N => Held(k)
  PROVE  Held(k)'
<1>0. /\ RegistryInv /\ NamesInv /\ OwnedInv /\ N \in Nat
      /\ registry \in [Names -> 0 .. N]
  BY Shape DEF FreshInv, RegistryInv, ShapeInv
<1>1. PICK name \in NextNames, background \in BOOLEAN :
        /\ Begin(name, background)
        /\ registry' = IF background THEN [registry EXCEPT ![name] = N + 1] ELSE registry
        /\ UNCHANGED waits
  BY DEF Start, Delegate, N
<1>2. name \in Names /\ name = guardian(N)
  BY <1>0, <1>1, NamesNext DEF Begin, N
<1>3. /\ N' = N + 1 /\ children'[N + 1].name = name
      /\ children'[N + 1].background = background
      /\ \A i \in 1 .. N : children'[i] = children[i]
  BY <1>0, <1>1, <1>2, BeginAdds
<1>4. CASE k = N + 1
  <2>1. background = TRUE
    BY <1>3, <1>4, Zenon DEF Due
  <2>2. registry' = [registry EXCEPT ![name] = N + 1]
    BY <1>1, <2>1
  <2> QED
    BY <1>0, <1>2, <1>3, <1>4, <2>2 DEF Held
<1>5. CASE k # N + 1
  <2>1. k \in 1 .. N /\ children'[k].name = children[k].name /\ Held(k)
    BY <1>0, <1>3, <1>5
  <2>2. ASSUME NEW n \in Names, registry[n] = k PROVE registry'[n] = k
    <3>1. n = guardian(k - 1)
      BY <1>0, <2>1, <2>2 DEF OwnedInv, NamesInv
    <3>2. n # name
      BY <1>0, <1>2, <2>1, <3>1, GuardianDiffers
    <3> QED
      BY <1>0, <1>1, <1>2, <2>2, <3>2
  <2>3. children[k].name \in Names
    BY <1>0, <2>1, Shape DEF RegistryInv, ChildType
  <2> QED
    BY <1>1, <2>1, <2>2, <2>3 DEF Held, Awaited
<1> QED
  BY <1>4, <1>5

(* Taking a task out of the registry, and giving it back.                  *)
LEMMA HeldMoves ==
  ASSUME fresh, FreshInv, NEW c \in Callers, NEW k \in 1 .. N, Held(k), Due(k)',
         children'[k].name = children[k].name,
         (\E name \in Names : Collect(c, name)) \/ Collected(c) \/ CollectDropped(c)
  PROVE  Held(k)'
<1>0. /\ RegistryInv /\ NamesInv /\ OwnedInv /\ OneOwner /\ N \in Nat
      /\ registry \in [Names -> 0 .. N]
      /\ waits \in [Callers -> [name : Names, child : 0 .. N]]
      /\ children \in Seq(ChildType) /\ NoWait.child = 0
  BY Shape, NoWaitTyped DEF FreshInv, RegistryInv, ShapeInv
<1>1. children[k].name \in Names
  BY <1>0, Shape DEF RegistryInv, ChildType
<1>2. ASSUME NEW name \in Names, Collect(c, name)
      PROVE  Held(k)'
  <2>1. /\ waits' = [waits EXCEPT ![c] = [name |-> name, child |-> registry[name]]]
        /\ registry' = [registry EXCEPT ![name] = 0] /\ waits[c].child = 0
    BY <1>0, <1>2 DEF Collect
  <2>2. CASE registry[name] = k
    <3>1. waits'[c].child = k
      BY <1>0, <2>1, <2>2
    <3> QED
      BY <3>1 DEF Held, Awaited
  <2>3. CASE registry[name] # k /\ registry[children[k].name] = k
    <3>1. registry'[children[k].name] = k
      BY <1>0, <1>1, <2>1, <2>3
    <3> QED
      BY <3>1 DEF Held
  <2>4. CASE \E d \in Callers : waits[d].child = k
    <3>1. PICK d \in Callers : waits[d].child = k
      BY <2>4
    <3>2. d # c /\ waits'[d] = waits[d]
      BY <1>0, <2>1, <3>1
    <3> QED
      BY <3>1, <3>2 DEF Held, Awaited
  <2> QED
    BY <2>2, <2>3, <2>4 DEF Held, Awaited
<1>3. CASE Collected(c)
  <2>1. /\ waits' = [waits EXCEPT ![c] = NoWait] /\ registry' = registry
        /\ children' = [children EXCEPT ![waits[c].child].collected = @ + 1]
        /\ waits[c] # NoWait
    BY <1>3 DEF Collected
  <2>2. waits[c].child # k
    <3> SUFFICES ASSUME waits[c].child = k PROVE FALSE
      OBVIOUS
    <3>1. children[k].collected = 0 /\ children[k] \in ChildType /\ DOMAIN children = 1 .. N
      BY <1>0, <2>1, Shape DEF OwnedInv, RegistryInv
    <3>2. children'[k].collected = 1
      BY <2>1, <3>1
    <3> QED
      BY <3>2 DEF Due
  <2>3. CASE registry[children[k].name] = k
    BY <2>1, <2>3 DEF Held
  <2>4. CASE \E d \in Callers : waits[d].child = k
    <3>1. PICK d \in Callers : waits[d].child = k
      BY <2>4
    <3>2. d # c /\ waits'[d] = waits[d]
      BY <1>0, <2>1, <2>2, <3>1
    <3> QED
      BY <3>1, <3>2 DEF Held, Awaited
  <2> QED
    BY <2>3, <2>4 DEF Held, Awaited
<1>4. CASE CollectDropped(c)
  <2> DEFINE i == waits[c].child
             name == waits[c].name
  <2>1. /\ waits' = [waits EXCEPT ![c] = NoWait] /\ waits[c] # NoWait
        /\ registry[name] = 0 => registry' = [registry EXCEPT ![name] = i]
        /\ registry[name] # 0 => registry' = registry
    BY <1>4 DEF CollectDropped
  <2>2. i \in 1 .. N /\ children[i].name = name /\ name \in Names
    BY <1>0, <2>1 DEF OwnedInv
  <2>3. registry[name] = 0
    <3> SUFFICES ASSUME registry[name] # 0 PROVE FALSE
      OBVIOUS
    <3>1. registry[name] \in 1 .. N /\ children[registry[name]].name = name
      BY <1>0, <2>2 DEF OwnedInv
    <3>2. guardian(registry[name] - 1) = guardian(i - 1)
      BY <2>2, <3>1, <1>0 DEF NamesInv
    <3>3. registry[name] - 1 = i - 1
      BY <2>2, <3>1, <3>2, GuardianDiffers
    <3>4. registry[name] = i
      BY <2>2, <3>1, <3>3
    <3> QED
      BY <1>0, <2>2, <3>4 DEF OneOwner
  <2>4. registry' = [registry EXCEPT ![name] = i]
    BY <2>1, <2>3
  <2>5. CASE k = i
    <3>1. registry'[children[k].name] = k
      BY <1>0, <2>2, <2>4, <2>5
    <3> QED
      BY <3>1 DEF Held
  <2>6. CASE k # i /\ registry[children[k].name] = k
    <3>1. registry'[children[k].name] = k
      BY <1>0, <1>1, <2>3, <2>4, <2>6
    <3> QED
      BY <3>1 DEF Held
  <2>7. CASE k # i /\ \E d \in Callers : waits[d].child = k
    <3>1. PICK d \in Callers : waits[d].child = k
      BY <2>7
    <3>2. d # c /\ waits'[d] = waits[d]
      BY <1>0, <2>1, <2>7, <3>1
    <3> QED
      BY <3>1, <3>2 DEF Held, Awaited
  <2> QED
    BY <2>5, <2>6, <2>7 DEF Held, Awaited
<1> QED
  BY <1>2, <1>3, <1>4

LEMMA HeldKeeps ==
  ASSUME fresh, FreshInv, [Next]_vars
  PROVE  HeldInv'
<1> SUFFICES ASSUME open', NEW k \in 1 .. N', Due(k)'
             PROVE  Held(k)'
  BY DEF HeldInv
<1>0. RegistryInv /\ HeldInv
  BY DEF FreshInv
<1>1. open /\ ~DropRegistry
  BY DEF Next, Step, vars, Start, Delegate, Begin, DropRegistry, RunReturns, SaveReturns,
         DelegateDropped, TaskStops, Collect, Collected, CollectDropped
<1>2. k \in 1 .. N => children'[k].name = children[k].name /\ Due(k)
  <2>1. k \in 1 .. N => Kept(children'[k], children[k])
    BY <1>0, StepNames, Zenon DEF Kept
  <2> QED
    BY <2>1, Zenon DEF Kept, Due
<1>3. k \in 1 .. N => Held(k)
  BY <1>0, <1>1, <1>2 DEF HeldInv
<1>4. CASE Start \/ Delegate
  BY <1>3, <1>4, HeldStarts
<1>5. CASE ~(Start \/ Delegate)
  <2>1. k \in 1 .. N
    BY <1>0, <1>5, StepNames
  <2>2. ASSUME NEW i \in Ids,
               RunReturns(i) \/ SaveReturns(i) \/ DelegateDropped(i) \/ TaskStops(i)
        PROVE  UNCHANGED <<registry, waits>>
    BY <2>2 DEF RunReturns, SaveReturns, DelegateDropped, TaskStops
  <2>3. CASE UNCHANGED <<registry, waits>>
    BY <1>2, <1>3, <2>1, <2>3 DEF Held, Awaited
  <2>4. ASSUME NEW c \in Callers,
               (\E name \in Names : Collect(c, name)) \/ Collected(c) \/ CollectDropped(c)
        PROVE  Held(k)'
    BY <1>2, <1>3, <2>1, <2>4, HeldMoves
  <2> QED
    BY <1>1, <1>5, <2>2, <2>3, <2>4 DEF Next, Step, vars
<1> QED
  BY <1>4, <1>5

(* "keeps the background ones addressable until they are collected": a     *)
(* cancelled wait gives the task back, and a fresh name takes nobody's     *)
(* place (Collection's Drop, SubagentRegistry::next_name).                 *)
THEOREM AddressableHolds == Spec => []Addressable
<1>1. Init => RegistryInv /\ FreshInv
  <2>1. Init => N = 0
    BY DEF Init, N
  <2> QED
    BY <2>1, InitRegistry DEF FreshInv, NamesInv, HeldInv
<1>2. (fresh => FreshInv) /\ [Next]_vars => (fresh' => FreshInv')
  <2>1. [Next]_vars => fresh' = fresh
    BY DEF Next, vars
  <2>2. FreshInv => RegistryInv /\ NamesInv
    BY DEF FreshInv
  <2> QED
    BY <2>1, <2>2, StepKeeps, NamesKeep, HeldKeeps DEF FreshInv
<1>3. (fresh => FreshInv) => Addressable
  <2>1. FreshInv => Ids = 1 .. N
    BY Shape DEF FreshInv, RegistryInv, Ids
  <2> QED
    BY <2>1, Shape DEF FreshInv, RegistryInv, HeldInv, Held, Due, Addressable, Child, ChildType
<1> QED
  BY <1>1, <1>2, <1>3, PTL DEF Spec

(* The registry and the waiting callers name tasks that were spawned, for   *)
(* any number of them.                                                     *)
THEOREM SubagentTypes == Spec => []TypeOK
<1>1. RegistryInv => TypeOK
  BY DEF RegistryInv, ShapeInv, TypeOK, ChildType, N
<1> QED
  BY <1>1, RegistryInvHolds, PTL
-----------------------------------------------------------------------------
(* What a delegation's life never takes back: its end, a request to stop   *)
(* it and its kind; and only the result of an ended one is collected.      *)
Ended(d) == d.step \in {"ended", "unsaved", "dropped"}

Stays(new, old) ==
  /\ Ended(old) => Ended(new)
  /\ old.aborted = TRUE => new.aborted = TRUE
  /\ new.background = old.background
  /\ new.collected # 0 => old.collected # 0 \/ Ended(new)

LEMMA StepStays ==
  ASSUME RegistryInv, [Next]_vars
  PROVE  /\ N' \in Nat /\ N <= N'
         /\ \A k \in 1 .. N : Stays(children'[k], children[k])
         /\ \A k \in N + 1 .. N' : children'[k].collected = 0
<1>0. ShapeInv /\ N \in Nat /\ children \in Seq(ChildType)
  BY Shape DEF RegistryInv, ShapeInv
<1> DEFINE Same == N' = N /\ \A k \in 1 .. N : Stays(children'[k], children[k])
<1>1. ASSUME NEW name \in NextNames, NEW background \in BOOLEAN, Begin(name, background)
      PROVE  /\ N' = N + 1 /\ children'[N + 1].collected = 0
             /\ \A k \in 1 .. N : children'[k] = children[k]
  <2>1. N < MaxChildren
    BY <1>1 DEF Begin, N
  <2>2. name \in Names
    BY <2>1, NamesNext
  <2> QED
    BY <1>1, <2>2, BeginAdds
<1>2. CASE Start \/ Delegate
  <2>1. /\ N' = N + 1 /\ children'[N + 1].collected = 0
        /\ \A k \in 1 .. N : children'[k] = children[k]
    BY <1>1, <1>2 DEF Start, Delegate
  <2>2. \A k \in 1 .. N : Stays(children'[k], children[k])
    BY <2>1, Zenon DEF Stays
  <2> QED
    BY <1>0, <2>1, <2>2
<1>3. ASSUME NEW i \in 1 .. N, NEW r \in ChildType, Stays(r, children[i]),
             children' = [children EXCEPT ![i] = r]
      PROVE  Same
  <2>1. /\ N' = N
        /\ \A k \in 1 .. N : children'[k] = IF k = i THEN r ELSE children[k]
    BY <1>0, <1>3, ExceptSeq DEF N
  <2>2. \A k \in 1 .. N : Stays(children'[k], children[k])
    BY <1>3, <2>1, Zenon DEF Stays
  <2> QED
    BY <2>1, <2>2
<1>4. ASSUME NEW i \in Ids,
             RunReturns(i) \/ SaveReturns(i) \/ DelegateDropped(i) \/ TaskStops(i)
      PROVE  Same
  <2>1. /\ i \in 1 .. N /\ children[i] \in ChildType
        /\ ~Ended(children[i])
    BY <1>0, <1>4, Shape DEF Ids, Over, Child, Ended, RunReturns, SaveReturns, DelegateDropped,
       TaskStops
  <2>2. PICK step \in {"saving", "ended", "unsaved", "dropped"} :
          children' = [children EXCEPT ![i].step = step]
    BY <1>4 DEF RunReturns, SaveReturns, DelegateDropped, TaskStops, Becomes
  <2>3. PICK r : r = [children[i] EXCEPT !.step = step]
    OBVIOUS
  <2>4. children' = [children EXCEPT ![i] = r] /\ r \in ChildType
    BY <2>1, <2>2, <2>3 DEF ChildType
  <2>5. Stays(r, children[i])
    BY <2>1, <2>3 DEF ChildType, Stays
  <2> QED
    BY <1>3, <2>1, <2>4, <2>5
<1>5. ASSUME NEW c \in Callers, Collected(c)
      PROVE  Same
  <2>1. PICK i : i = waits[c].child
    OBVIOUS
  <2>2. /\ i \in 1 .. N /\ children[i] \in ChildType /\ children[i].collected = 0
        /\ Ended(children[i])
    <3>1. waits[c].child \in 0 .. N /\ waits[c] # NoWait
      BY <1>0, <1>5, Shape DEF Collected
    <3>2. waits[c].child # 0 /\ children[waits[c].child].collected = 0
      BY <3>1 DEF RegistryInv, OwnedInv
    <3> QED
      BY <1>0, <1>5, <2>1, <3>1, <3>2, Shape DEF Collected, Over, Child, Ended
  <2>3. children' = [children EXCEPT ![i].collected = 1]
    BY <1>5, <2>1, <2>2 DEF Collected
  <2>4. PICK r : r = [children[i] EXCEPT !.collected = 1]
    OBVIOUS
  <2>5. r \in ChildType /\ r.step = children[i].step
    BY <2>2, <2>4 DEF ChildType
  <2>6. r.aborted = children[i].aborted /\ r.background = children[i].background
    BY <2>2, <2>4 DEF ChildType
  <2>7. Stays(r, children[i])
    BY <2>2, <2>5, <2>6, Zenon DEF Stays, Ended
  <2>8. children' = [children EXCEPT ![i] = r]
    BY <2>3, <2>4
  <2> QED
    BY <1>3, <2>2, <2>5, <2>7, <2>8
<1>6. ASSUME NEW set, children' = Aborted(set)
      PROVE  Same /\ \A k \in 1 .. N : k \in set => children'[k].aborted = TRUE
  <2>1. N' = N /\ \A k \in 1 .. N : children'[k] =
          IF k \in set THEN [children[k] EXCEPT !.aborted = TRUE] ELSE children[k]
    <3>1. N' = N
      BY <1>6, AbortKeeps DEF Aborted, Child
    <3>2. DOMAIN children = 1 .. N
      BY <1>0, Shape
    <3> QED
      BY <1>6, <3>1, <3>2 DEF Aborted, Child, Ids
  <2>2. ASSUME NEW k \in 1 .. N, k \in set
        PROVE  children'[k].aborted = TRUE /\ Stays(children'[k], children[k])
    <3>1. children[k] \in ChildType /\ children'[k] = [children[k] EXCEPT !.aborted = TRUE]
      BY <1>0, <2>1, <2>2, Shape
    <3>2. /\ children'[k].aborted = TRUE /\ children'[k].step = children[k].step
          /\ children'[k].collected = children[k].collected
      BY <3>1 DEF ChildType
    <3>3. children'[k].background = children[k].background
      BY <3>1 DEF ChildType
    <3> QED
      BY <3>2, <3>3, Zenon DEF Stays, Ended
  <2>3. ASSUME NEW k \in 1 .. N, k \notin set PROVE Stays(children'[k], children[k])
    <3>1. children'[k] = children[k]
      BY <2>1, <2>3
    <3> QED
      BY <3>1, Zenon DEF Stays
  <2> QED
    BY <2>1, <2>2, <2>3
<1>7. ASSUME UNCHANGED children PROVE Same
  BY <1>7, Zenon DEF N, Stays
<1>8. ASSUME NEW c \in Callers, CollectDropped(c) PROVE Same
  <2>1. PICK set : set = {waits[c].child}
    OBVIOUS
  <2>2. children' = children \/ children' = Aborted(set)
    BY <1>8, <2>1 DEF CollectDropped
  <2> QED
    BY <1>6, <1>7, <2>2
<1>9. CASE DropRegistry
  <2>1. PICK set : set = {registry[n] : n \in Names}
    OBVIOUS
  <2>2. children' = Aborted(set)
    BY <1>9, <2>1 DEF DropRegistry
  <2>3. Same
    BY <1>6, <2>2
  <2> QED
    BY <1>0, <2>3
<1>10. ASSUME NEW c \in Callers, NEW name \in Names, Collect(c, name)
       PROVE  UNCHANGED children
  BY <1>10 DEF Collect
<1>11. Same => N' \in Nat /\ N <= N' /\ \A k \in N + 1 .. N' : children'[k].collected = 0
  BY <1>0
<1> HIDE DEF Same
<1>12. CASE ~(Start \/ Delegate \/ DropRegistry)
  <2>1. Same
    BY <1>4, <1>5, <1>7, <1>8, <1>10, <1>12 DEF Next, Step, vars
  <2> QED
    BY <1>11, <2>1 DEF Same
<1> QED
  BY <1>2, <1>9, <1>12

(* What the going registry stops.                                          *)
LEMMA DropStops ==
  ASSUME RegistryInv, DropRegistry, NEW k \in 1 .. N, NEW n \in Names, registry[n] = k
  PROVE  children'[k].aborted = TRUE
<1>1. children[k] \in ChildType /\ k \in Ids
  BY Shape DEF RegistryInv, Ids
<1>2. k \in {registry[m] : m \in Names}
  OBVIOUS
<1>3. children'[k] = [children[k] EXCEPT !.aborted = TRUE]
  BY <1>1, <1>2 DEF DropRegistry, Aborted, Child
<1> QED
  BY <1>1, <1>3 DEF ChildType

-----------------------------------------------------------------------------
(* A result is taken of an ended task only; and once the registry is gone  *)
(* no caller waits and every background task has ended or been stopped.    *)
Stopped(d) == Ended(d) \/ d.aborted = TRUE \/ d.background # TRUE

StopInv ==
  /\ \A k \in 1 .. N : children[k].collected # 0 => Ended(children[k])
  /\ ~open => /\ \A c \in Callers : waits[c] = NoWait
              /\ \A k \in 1 .. N : Stopped(children[k])

LEMMA StopKeeps ==
  ASSUME fresh, FreshInv, StopInv, [Next]_vars
  PROVE  StopInv'
<1>0. RegistryInv /\ HeldInv /\ N \in Nat /\ \A k \in 1 .. N : children[k] \in ChildType
  BY Shape DEF FreshInv, RegistryInv
<1>1. /\ N' \in Nat /\ N <= N'
      /\ \A k \in 1 .. N : Stays(children'[k], children[k])
      /\ \A k \in N + 1 .. N' : children'[k].collected = 0
  BY <1>0, StepStays
<1>2. ASSUME NEW k \in 1 .. N', children'[k].collected # 0 PROVE Ended(children'[k])
  <2>1. k \in 1 .. N
    BY <1>0, <1>1, <1>2
  <2> QED
    BY <1>1, <1>2, <2>1 DEF Stays, StopInv
<1>3. NoWait' = NoWait
  BY DEF NoWait
<1>4. CASE ~open /\ ~open'
  <2>1. ~Start /\ ~Delegate /\ ~DropRegistry
    BY <1>4 DEF Start, Delegate, Begin, DropRegistry
  <2>2. N' = N
    BY <1>0, <2>1, StepNames
  <2>3. UNCHANGED waits
    BY <1>4, <2>1 DEF StopInv, Next, Step, vars, RunReturns, SaveReturns, DelegateDropped,
       TaskStops, Collect, Collected, CollectDropped
  <2>4. \A k \in 1 .. N : Stopped(children'[k])
    BY <1>1, <1>4, Zenon DEF Stays, Stopped, StopInv
  <2>5. \A c \in Callers : waits'[c] = NoWait'
    BY <1>3, <1>4, <2>3 DEF StopInv
  <2> QED
    BY <1>2, <2>2, <2>4, <2>5 DEF StopInv, Ended, Stopped
<1>5. CASE open /\ ~open'
  <2>1. DropRegistry
    BY <1>5 DEF Next, Step, vars, Start, Delegate, Begin, RunReturns, SaveReturns,
       DelegateDropped, TaskStops, Collect, Collected, CollectDropped
  <2>2. N' = N
    BY <1>0, <2>1, StepNames DEF Start, Delegate, Begin, DropRegistry
  <2>3. /\ UNCHANGED waits /\ \A c \in Callers : waits[c] = NoWait
    BY <2>1 DEF DropRegistry
  <2>4. ASSUME NEW k \in 1 .. N, ~Ended(children[k]), children[k].background = TRUE
        PROVE  children'[k].aborted = TRUE
    <3>1. Held(k)
      BY <1>5, <2>4, <1>0 DEF StopInv, HeldInv, Due
    <3>2. \A c \in Callers : waits[c].child = 0
      BY <2>3, NoWaitTyped
    <3>3. children[k].name \in Names
      BY <1>0 DEF ChildType
    <3>4. registry[children[k].name] = k
      BY <1>0, <3>1, <3>2 DEF Held, Awaited
    <3> QED
      BY <1>0, <2>1, <3>3, <3>4, DropStops
  <2>5. \A k \in 1 .. N : Stopped(children'[k])
    BY <1>1, <2>4, Zenon DEF Stays, Stopped
  <2>6. \A c \in Callers : waits'[c] = NoWait'
    BY <1>3, <2>3
  <2> QED
    BY <1>2, <2>2, <2>5, <2>6 DEF StopInv, Ended, Stopped
<1>6. CASE open'
  BY <1>2, <1>6 DEF StopInv, Ended
<1> QED
  BY <1>4, <1>5, <1>6

(* No background task runs that the registry or a caller could not reach,  *)
(* or that has been told to stop, even after the registry is gone.         *)
THEOREM NothingDetachedHolds == Spec => []NothingDetached
<1>1. Init => FreshInv /\ StopInv
  <2>1. Init => N = 0 /\ open = TRUE
    BY DEF Init, N
  <2> QED
    BY <2>1, InitRegistry DEF FreshInv, NamesInv, HeldInv, StopInv
<1>2. (fresh => FreshInv /\ StopInv) /\ [Next]_vars => (fresh' => (FreshInv /\ StopInv)')
  <2>1. [Next]_vars => fresh' = fresh
    BY DEF Next, vars
  <2>2. FreshInv => RegistryInv /\ NamesInv
    BY DEF FreshInv
  <2> QED
    BY <2>1, <2>2, StepKeeps, NamesKeep, HeldKeeps, StopKeeps DEF FreshInv
<1>3. (fresh => FreshInv /\ StopInv) => NothingDetached
  <2> SUFFICES ASSUME FreshInv, StopInv, NEW i \in Ids, ~Over(i),
                      ~Child(i).aborted, Child(i).background
               PROVE  Registered(i) \/ Awaited(i)
    BY DEF NothingDetached
  <2>1. i \in 1 .. N /\ children[i] \in ChildType /\ RegistryInv /\ HeldInv
    BY Shape DEF FreshInv, RegistryInv, Ids
  <2>2. children[i].aborted # TRUE /\ children[i].background = TRUE /\ children[i].name \in Names
    BY <2>1 DEF Child, ChildType
  <2>3. ~Ended(children[i])
    BY DEF Over, Child, Ended
  <2>4. open
    BY <2>1, <2>2, <2>3 DEF StopInv, Stopped
  <2>5. Held(i)
    BY <2>1, <2>2, <2>3, <2>4 DEF StopInv, HeldInv, Due
  <2> QED
    BY <2>2, <2>5 DEF Held, Registered
<1> QED
  BY <1>1, <1>2, <1>3, PTL DEF Spec
=============================================================================
