------------------------------- MODULE Memories -------------------------------
(***************************************************************************)
(* Local memory (memory.rs): one file per memory, written, listed, read    *)
(* and removed by the memory tool and command of any number of sessions.   *)
(* Nothing is locked, and a program may end between two steps.             *)
(***************************************************************************)
EXTENDS Naturals, FiniteSets

CONSTANTS
  Rememberers,  \* callers
  MaxMemories   \* bound of the model: memories written

ASSUME MemoriesAssumption == MaxMemories \in Nat

VARIABLES
  memoryFiles,  \* the file of each id: "none", "torn" or "whole"
  memoryCalls,  \* each caller's call
  memoryIds,    \* ids given out
  memoryPast    \* history: see MemoriesInit

memoriesVars == <<memoryFiles, memoryCalls, memoryIds, memoryPast>>

MemoryIds == 1 .. MaxMemories
NoMemoryCall == [step |-> "idle"]

(* memoryPast: ids reported as remembered; ids a call set out to remove,   *)
(* with the id that replaces them, or 0; how often an id was reported as   *)
(* forgotten or replaced; and the last recall.                             *)
NoRecall == [due |-> {}, shown |-> {}]
MemoriesInit ==
  /\ memoryFiles = [id \in MemoryIds |-> "none"]
  /\ memoryCalls = [c \in Rememberers |-> NoMemoryCall]
  /\ memoryIds = 0
  /\ memoryPast = [remembered |-> {}, doomed |-> {}, told |-> [id \in MemoryIds |-> 0],
                   recall |-> NoRecall]

Stored == {id \in MemoryIds : memoryFiles[id] # "none"}
CallGoes(c, call) == memoryCalls' = [memoryCalls EXCEPT ![c] = call]

(* A file that goes or is written under way is not due in a recall: the    *)
(* calls that list files lose their claim to it.                           *)
NotDue(id) == [c \in Rememberers |->
  IF memoryCalls[c].step = "reading" THEN [memoryCalls[c] EXCEPT !.due = @ \ {id}] ELSE memoryCalls[c]]
-----------------------------------------------------------------------------
(* remember: the file of a fresh id, the new text, and then forget for     *)
(* each id it supersedes, whose errors are not errors of the call.  A file *)
(* that is removed before its text is in it stays removed.                 *)
Remembers(c) ==
  /\ memoryCalls[c].step = "idle" /\ memoryIds < MaxMemories
  /\ memoryIds' = memoryIds + 1
  /\ memoryFiles' = [memoryFiles EXCEPT ![memoryIds + 1] = "torn"]
  /\ \E old \in SUBSET (1 .. memoryIds) :
       CallGoes(c, [step |-> "writing", id |-> memoryIds + 1, old |-> old])
  /\ UNCHANGED memoryPast

WritesMemory(c) ==
  LET call == memoryCalls[c]
  IN  /\ call.step = "writing"
      /\ \/ /\ memoryFiles' = [memoryFiles EXCEPT ![call.id] = IF @ = "none" THEN @ ELSE "whole"]
            /\ CallGoes(c, [step |-> "replacing", id |-> call.id, old |-> call.old])
            /\ memoryPast' = [memoryPast EXCEPT !.doomed = @ \union (call.old \X {call.id})]
         \/ /\ CallGoes(c, NoMemoryCall)
            /\ UNCHANGED <<memoryFiles, memoryPast>>
      /\ UNCHANGED memoryIds

(* forget looks through the listing for a name that ends in the whole id   *)
(* and removes that file, which another call may have done first.          *)
Forgets(c) ==
  /\ memoryCalls[c].step = "idle"
  /\ \E id \in 1 .. memoryIds :
       /\ id \in Stored
       /\ CallGoes(c, [step |-> "removing", id |-> id, for |-> 0, old |-> {}])
       /\ memoryPast' = [memoryPast EXCEPT !.doomed = @ \union {<<id, 0>>}]
  /\ UNCHANGED <<memoryFiles, memoryIds>>

Replaces(c) ==
  LET call == memoryCalls[c]
  IN  /\ call.step = "replacing"
      /\ IF call.old = {}
         THEN /\ CallGoes(c, NoMemoryCall)
              /\ memoryPast' = [memoryPast EXCEPT !.remembered = @ \union {call.id}]
         ELSE /\ \E id \in call.old :
                   CallGoes(c, IF id \in Stored
                     THEN [step |-> "removing", id |-> id, for |-> call.id, old |-> call.old \ {id}]
                     ELSE [call EXCEPT !.old = @ \ {id}])
              /\ UNCHANGED memoryPast
      /\ UNCHANGED <<memoryFiles, memoryIds>>

(* Mutant: that the file is gone already counts as forgotten.              *)
RemovesMemory_Gone(c) ==
  LET call == memoryCalls[c]
  IN  /\ call.step = "removing"
      /\ memoryFiles' = [memoryFiles EXCEPT ![call.id] = "none"]
      /\ memoryPast' = [memoryPast EXCEPT !.told[call.id] = @ + 1]
      /\ memoryCalls' = [NotDue(call.id) EXCEPT ![c] =
           IF call.for = 0 THEN NoMemoryCall ELSE [step |-> "replacing", id |-> call.for, old |-> call.old]]
      /\ UNCHANGED memoryIds

RemovesMemory(c) ==
  LET call == memoryCalls[c]
  IN  /\ call.step = "removing"
      /\ \/ /\ call.id \in Stored
            /\ memoryFiles' = [memoryFiles EXCEPT ![call.id] = "none"]
            /\ memoryPast' = [memoryPast EXCEPT !.told[call.id] = @ + 1]
         \/ UNCHANGED <<memoryFiles, memoryPast>>   \* the removal fails
      /\ memoryCalls' = [(IF memoryFiles'[call.id] = "none" THEN NotDue(call.id) ELSE memoryCalls)
           EXCEPT ![c] =
             IF call.for = 0 THEN NoMemoryCall
             ELSE [step |-> "replacing", id |-> call.for, old |-> call.old]]
      /\ UNCHANGED memoryIds

(* recall: the names of the directory as they are met, each file read in   *)
(* turn; one that is gone by then is passed over, and a torn one is shown  *)
(* without its text.  `due` is a history: what was whole when it began and *)
(* still is.                                                               *)
Recalls(c) ==
  /\ memoryCalls[c].step = "idle"
  /\ CallGoes(c, [step |-> "reading", left |-> MemoryIds, shown |-> {},
                  due |-> {id \in Stored : memoryFiles[id] = "whole"}])
  /\ UNCHANGED <<memoryFiles, memoryIds, memoryPast>>

ReadsMemory(c) ==
  LET call == memoryCalls[c]
  IN  /\ call.step = "reading"
      /\ IF call.left = {}
         THEN /\ CallGoes(c, NoMemoryCall)
              /\ memoryPast' = [memoryPast EXCEPT !.recall = [due |-> call.due, shown |-> call.shown]]
         ELSE /\ \E id \in call.left :
                   CallGoes(c, [call EXCEPT !.left = @ \ {id},
                     !.shown = IF memoryFiles[id] = "whole" THEN @ \union {id} ELSE @])
              /\ UNCHANGED memoryPast
      /\ UNCHANGED <<memoryFiles, memoryIds>>

(* The call is dropped, or its program ends.                               *)
MemoryCallLost(c) ==
  /\ memoryCalls[c].step # "idle"
  /\ CallGoes(c, NoMemoryCall)
  /\ UNCHANGED <<memoryFiles, memoryIds, memoryPast>>

MemoriesNext ==
  \E c \in Rememberers :
    \/ Remembers(c) \/ WritesMemory(c) \/ Forgets(c) \/ Replaces(c) \/ RemovesMemory(c)
    \/ Recalls(c) \/ ReadsMemory(c) \/ MemoryCallLost(c)

MemoriesSpec == MemoriesInit /\ [][MemoriesNext]_memoriesVars
-----------------------------------------------------------------------------
MemoriesTypeOK ==
  /\ memoryFiles \in [MemoryIds -> {"none", "torn", "whole"}]
  /\ memoryIds \in 0 .. MaxMemories
  /\ memoryPast.remembered \subseteq MemoryIds /\ memoryPast.doomed \subseteq MemoryIds \X (0 .. MaxMemories)

(* A memory that was reported is there until a call that names it removes  *)
(* it; one that is superseded goes only when what replaces it is whole, so *)
(* that a program that ends in between leaves both and never neither; no   *)
(* removal is reported twice; and a recall shows everything that was whole *)
(* all the while.                                                          *)
MemoryKept ==
  /\ \A id \in memoryPast.remembered :
       memoryFiles[id] = "whole" \/ memoryPast.told[id] = 1
  /\ \A id \in MemoryIds : memoryPast.told[id] <= 1
  /\ \A id \in MemoryIds : memoryPast.told[id] > 0 =>
       \E for \in {entry[2] : entry \in {entry \in memoryPast.doomed : entry[1] = id}} :
         for = 0 \/ memoryFiles[for] = "whole" \/ memoryPast.told[for] > 0
  /\ memoryPast.recall.due \subseteq memoryPast.recall.shown
=============================================================================
