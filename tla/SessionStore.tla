----------------------------- MODULE SessionStore -----------------------------
(***************************************************************************)
(* How a session reaches the disk (session/write.rs, session/checkpoint.rs *)
(* and the store in session.rs): a save writes a temporary file of its own *)
(* and renames it over the session's file.  Several processes may save the *)
(* same session, a save may fail or be dropped at any await, a process may *)
(* be killed and the machine may lose power.                               *)
(*                                                                         *)
(* Two files are modelled, the session's and one named checkpoint's.  What *)
(* the file system keeps through a power loss is what was synced, and of   *)
(* the rest any part of a file's data and any first part of a directory's  *)
(* changes.                                                                *)
(***************************************************************************)
EXTENDS Integers, Sequences

CONSTANTS
  Savers,       \* the tasks that may be in the middle of a save
  MaxSaves      \* bound of the model: temporary files ever made

ASSUME MaxSavesAssumption == MaxSaves \in Nat

Places == {"session", "checkpoint"}

VARIABLES
  files,        \* files ever created, in order; each of its saver alone
  temps,        \* those that still have their temporary name
  held,         \* what each place's name has stood for, the last of them now
  durable,      \* how many of those changes of the name are on the disk
  acked,        \* how many of them a save of that place has reported
  saves,        \* the saves under way
  crashes       \* whether, this time, processes are killed and power is lost

disk == <<files, temps, held, durable>>
vars == <<files, temps, held, durable, acked, saves, crashes>>

None == [step |-> "none", place |-> "session", file |-> 0, at |-> 0]

Later(a, b) == IF a < b THEN b ELSE a

Steps == {"none", "opening", "writing", "written", "synced", "renamed", "reporting"}

Init ==
  /\ files = <<>>
  /\ temps = {}
  /\ held = [d \in Places |-> <<>>]
  /\ durable = [d \in Places |-> 0]
  /\ acked = [d \in Places |-> 0]
  /\ saves = [p \in Savers |-> None]
  /\ crashes \in BOOLEAN

At(p, step) == saves[p].step = step
Goes(p, step) == saves' = [saves EXCEPT ![p].step = step]

(* create_new under a fresh name, so no two saves ever share a file.       *)
Create(p, data) ==
  /\ Len(files) < MaxSaves
  /\ files' = Append(files, [data |-> data, synced |-> FALSE, place |-> saves[p].place])
  /\ temps' = temps \cup {Len(files) + 1}

-----------------------------------------------------------------------------
(* A save, await by await.                                                 *)

Begin(p, place) ==
  /\ At(p, "none")
  /\ saves' = [saves EXCEPT ![p] =
                 [step |-> "opening", place |-> place, file |-> 0, at |-> 0]]
  /\ UNCHANGED <<disk, acked>>

Open(p) ==
  /\ At(p, "opening")
  /\ Create(p, "part")
  /\ saves' = [saves EXCEPT ![p] =
                 [step |-> "writing", place |-> @.place, file |-> Len(files) + 1, at |-> 0]]
  /\ UNCHANGED <<held, durable, acked>>

Write(p) ==
  /\ At(p, "writing")
  /\ files' = [files EXCEPT ![saves[p].file].data = "whole"]
  /\ Goes(p, "written")
  /\ UNCHANGED <<temps, held, durable, acked>>

(* Mutant: the data is left to the system to write back.                   *)
SyncFile_Never(p) ==
  /\ At(p, "written")
  /\ Goes(p, "synced")
  /\ UNCHANGED <<disk, acked>>

SyncFile(p) ==
  /\ At(p, "written")
  /\ files' = [files EXCEPT ![saves[p].file].synced = TRUE]
  /\ Goes(p, "synced")
  /\ UNCHANGED <<temps, held, durable, acked>>

Rename(p) ==
  /\ At(p, "synced")
  /\ LET d == saves[p].place IN
       /\ held' = [held EXCEPT ![d] = Append(@, saves[p].file)]
       /\ saves' = [saves EXCEPT ![p] =
                      [step |-> IF d = "session" THEN "renamed" ELSE "reporting",
                       place |-> d, file |-> @.file, at |-> Len(held[d]) + 1]]
  /\ temps' = temps \ {saves[p].file}
  /\ UNCHANGED <<files, durable, acked>>

(* Mutant: the rename is left to the system to write back.                 *)
SyncDirectory_Never(p) ==
  /\ At(p, "renamed")
  /\ Goes(p, "reporting")
  /\ UNCHANGED <<disk, acked>>

(* Saves of a session only: a checkpoint's directory is not synced.        *)
SyncDirectory(p) ==
  /\ At(p, "renamed")
  /\ durable' = [durable EXCEPT !["session"] = Len(held["session"])]
  /\ Goes(p, "reporting")
  /\ UNCHANGED <<files, temps, held, acked>>

(* Ok(()) reaches the caller.                                              *)
Report(p) ==
  /\ At(p, "reporting")
  /\ acked' = [acked EXCEPT ![saves[p].place] = Later(@, saves[p].at)]
  /\ saves' = [saves EXCEPT ![p] = None]
  /\ UNCHANGED disk

(* What a save that stops early leaves behind: PendingFile takes the       *)
(* temporary file away; a dropped checkpoint has nothing that would.       *)
Removed_Never(p, dropped) == {}
Removed(p, dropped) ==
  IF saves[p].file \in temps /\ ~(dropped /\ saves[p].place = "checkpoint")
  THEN {saves[p].file} ELSE {}

(* Mutant: an error after the rename removes the file under its new name.  *)
Fails_RemovesRenamed(p) ==
  /\ saves[p].step \notin {"none", "reporting"}
  /\ temps' = temps \ Removed(p, FALSE)
  /\ held' = IF At(p, "renamed") THEN [held EXCEPT ![saves[p].place] = <<>>] ELSE held
  /\ saves' = [saves EXCEPT ![p] = None]
  /\ UNCHANGED <<files, durable, acked>>

(* An error from any of the awaits.                                        *)
Fails(p) ==
  /\ saves[p].step \notin {"none", "reporting"}
  /\ temps' = temps \ Removed(p, FALSE)
  /\ saves' = [saves EXCEPT ![p] = None]
  /\ UNCHANGED <<files, held, durable, acked>>

(* The caller stops waiting.  A file being opened is created all the same, *)
(* by the blocking thread, and nobody is left to remove it.                *)
Dropped(p) ==
  /\ ~At(p, "none")
  /\ saves' = [saves EXCEPT ![p] = None]
  /\ \/ /\ At(p, "opening")
        /\ Create(p, "empty")
     \/ /\ temps' = temps \ Removed(p, TRUE)
        /\ UNCHANGED files
  /\ UNCHANGED <<held, durable, acked>>

(* The process is killed, and no destructor runs.                          *)
Killed(p) ==
  /\ crashes
  /\ ~At(p, "none")
  /\ saves' = [saves EXCEPT ![p] = None]
  /\ UNCHANGED <<disk, acked>>

-----------------------------------------------------------------------------
(* The file system, of which the store relies on no more than this.        *)

(* The system writes a file or a directory back when it likes.             *)
WriteBack ==
  /\ \/ /\ \E n \in DOMAIN files :
             files' = [files EXCEPT ![n].synced = (files[n].data = "whole")]
        /\ UNCHANGED durable
     \/ /\ \E d \in Places : durable' = [durable EXCEPT ![d] = Len(held[d])]
        /\ UNCHANGED files
  /\ UNCHANGED <<temps, held, acked, saves>>

PowerLoss ==
  /\ crashes
  /\ \E kept \in [Places -> 0 .. MaxSaves] :
       /\ \A d \in Places : kept[d] \in durable[d] .. Len(held[d])
       /\ held' = [d \in Places |-> SubSeq(held[d], 1, kept[d])]
       /\ durable' = kept
  /\ files' = [n \in DOMAIN files |->
                 IF files[n].synced THEN files[n] ELSE [files[n] EXCEPT !.data = "part"]]
  /\ saves' = [p \in Savers |-> None]
  /\ UNCHANGED <<temps, acked>>

Step ==
  \/ \E p \in Savers :
       \/ \E d \in Places : Begin(p, d)
       \/ Open(p) \/ Write(p) \/ SyncFile(p) \/ Rename(p) \/ SyncDirectory(p)
       \/ Report(p) \/ Fails(p) \/ Dropped(p) \/ Killed(p)
  \/ WriteBack \/ PowerLoss

Next == Step /\ UNCHANGED crashes

Spec == Init /\ [][Next]_vars
-----------------------------------------------------------------------------
TypeOK ==
  /\ files \in Seq([data : {"empty", "part", "whole"}, synced : BOOLEAN, place : Places])
  /\ temps \subseteq DOMAIN files
  /\ held \in [Places -> Seq(Nat)]
  /\ durable \in [Places -> Nat]
  /\ \A d \in Places : durable[d] <= Len(held[d])
  /\ acked \in [Places -> Nat]
  /\ saves \in [Savers -> [step : Steps, place : Places,
                           file : 0 .. Len(files), at : Nat]]

(* Whoever opens a session or a checkpoint finds one whole version of it,  *)
(* whatever saves ran at once, stopped early or were cut off by a power    *)
(* loss.                                                                   *)
HoldsWhole ==
  \A d \in Places : held[d] # <<>> => files[held[d][Len(held[d])]].data = "whole"

(* The file holds a version at least as late as every one whose save has   *)
(* been reported: a power loss takes no reported turn back.                *)
ReportedStays == acked["session"] <= Len(held["session"])

(* "Each file save ... syncs the parent directory" (docs/embedding.md:     *)
(* 100-102): the same of a checkpoint the command line has reported.       *)
CheckpointStays == acked["checkpoint"] <= Len(held["checkpoint"])

(* Short of a crash, a save of a session that stops early, at any await,   *)
(* leaves no temporary file: only one being opened just then remains, empty.*)
CleansUp ==
  ~crashes => \A n \in temps :
    \/ \E p \in Savers : ~At(p, "none") /\ saves[p].file = n
    \/ files[n].data = "empty"
    \/ files[n].place = "checkpoint"

(* The store keeps the promise of SavedSession.                            *)
Promise == INSTANCE SavedSession WITH
  Version <- 1 .. MaxSaves, versions <- held["session"], reported <- acked["session"]
SavedSessionKept == Promise!Spec
=============================================================================
