------------------------------ MODULE Subagents ------------------------------
(***************************************************************************)
(* The registry of subagents (subagent.rs) and the delegations it starts   *)
(* (the handler in app.rs): foreground ones, awaited by the tool call that *)
(* made them, and background ones, kept under their name until they are    *)
(* collected.  A collection takes the task out of the registry while it    *)
(* waits, and puts it back when the wait is cancelled.                     *)
(***************************************************************************)
EXTENDS Integers, Sequences

CONSTANTS
  Guardians,    \* how many names there are before they get a suffix
  Callers,      \* tool calls that may be collecting at once
  MaxChildren   \* bound of the model: delegations

ASSUME GuardiansAssumption == Guardians \in Nat \ {0}
ASSUME MaxChildrenAssumption == MaxChildren \in Nat

(* Mutant of guardian: the names repeat.                                    *)
guardian_NoSuffix(index) == <<index % Guardians, 0>>

(* guardian: a name and, from the second round on, a suffix.               *)
guardian(index) == <<index % Guardians, index \div Guardians>>
Names == {guardian(i) : i \in 0 .. MaxChildren}

VARIABLES
  spawned,      \* the counter of next_name
  children,     \* every delegation so far
  registry,     \* background tasks by name, 0 for none (running)
  waits,        \* what each caller is collecting
  open,         \* the registry has not been dropped
  fresh         \* whether all names come from next_name: a host that calls
                \* start itself may make them up

vars == <<spawned, children, registry, waits, open, fresh>>

NoWait == [name |-> guardian(0), child |-> 0]
Child(i) == children[i]
Ids == DOMAIN children

Init ==
  /\ spawned = 0
  /\ children = <<>>
  /\ registry = [n \in Names |-> 0]
  /\ waits = [c \in Callers |-> NoWait]
  /\ open = TRUE
  /\ fresh \in BOOLEAN

(* A child's own life: "working", then "saving" its session, then "ended",  *)
(* which SubagentEnd tells, or "unsaved"; or "dropped" where it was.       *)
Over(i) == Child(i).step \in {"ended", "unsaved", "dropped"}
Becomes(i, step) == children' = [children EXCEPT ![i].step = step]

-----------------------------------------------------------------------------
(* Starting: SubagentTool::execute, or a host that calls start itself.     *)
NextNames == IF fresh THEN {guardian(spawned)} ELSE Names

Begin(name, background) ==
  /\ open
  /\ Len(children) < MaxChildren
  /\ spawned' = spawned + 1
  /\ children' = Append(children, [name |-> name, background |-> background,
                                   step |-> "working", aborted |-> FALSE, collected |-> 0])

Start ==
  \E name \in NextNames :
    /\ Begin(name, TRUE)
    /\ registry' = [registry EXCEPT ![name] = Len(children) + 1]
    /\ UNCHANGED <<waits, open>>

Delegate ==
  \E name \in NextNames :
    /\ Begin(name, FALSE)
    /\ UNCHANGED <<registry, waits, open>>

-----------------------------------------------------------------------------
(* The handler.                                                            *)
RunReturns(i) ==
  /\ Child(i).step = "working"
  /\ Becomes(i, "saving")
  /\ UNCHANGED <<spawned, registry, waits, open>>

(* A save that fails returns before SubagentEnd.                           *)
SaveReturns(i) ==
  /\ Child(i).step = "saving"
  /\ \E step \in {"ended", "unsaved"} : Becomes(i, step)
  /\ UNCHANGED <<spawned, registry, waits, open>>

(* The run of the parent is cancelled: the call awaiting the child goes,   *)
(* and the child with it.                                                  *)
DelegateDropped(i) ==
  /\ ~Child(i).background
  /\ ~Over(i)
  /\ Becomes(i, "dropped")
  /\ UNCHANGED <<spawned, registry, waits, open>>

(* An aborted task stops at its next await, unless it ends before.         *)
TaskStops(i) ==
  /\ Child(i).aborted /\ ~Over(i)
  /\ Becomes(i, "dropped")
  /\ UNCHANGED <<spawned, registry, waits, open>>

Aborted(set) ==
  [i \in Ids |-> IF i \in set THEN [Child(i) EXCEPT !.aborted = TRUE] ELSE Child(i)]

-----------------------------------------------------------------------------
(* Collecting.                                                             *)

(* Mutant: the task stays in the registry while it is waited for.          *)
Collect_Peek(c, name) ==
  /\ open /\ waits[c] = NoWait
  /\ registry[name] # 0
  /\ waits' = [waits EXCEPT ![c] = [name |-> name, child |-> registry[name]]]
  /\ UNCHANGED <<spawned, children, registry, open>>

Collect(c, name) ==
  /\ open /\ waits[c] = NoWait
  /\ registry[name] # 0
  /\ waits' = [waits EXCEPT ![c] = [name |-> name, child |-> registry[name]]]
  /\ registry' = [registry EXCEPT ![name] = 0]
  /\ UNCHANGED <<spawned, children, open>>

(* The task is over, and its result goes to whoever waited.                *)
Collected(c) ==
  /\ waits[c] # NoWait
  /\ Over(waits[c].child)
  /\ children' = [children EXCEPT ![waits[c].child].collected = @ + 1]
  /\ waits' = [waits EXCEPT ![c] = NoWait]
  /\ UNCHANGED <<spawned, registry, open>>

(* Mutant: dropping the join handle detaches the task.                     *)
CollectDropped_Detach(c) ==
  /\ waits[c] # NoWait
  /\ waits' = [waits EXCEPT ![c] = NoWait]
  /\ UNCHANGED <<spawned, children, registry, open>>

(* A cancelled wait gives the task back, or stops it if its name is taken. *)
CollectDropped(c) ==
  /\ waits[c] # NoWait
  /\ LET name == waits[c].name
         vacant == registry[name] = 0
     IN  /\ registry' = IF vacant THEN [registry EXCEPT ![name] = waits[c].child] ELSE registry
         /\ children' = IF vacant THEN children ELSE Aborted({waits[c].child})
  /\ waits' = [waits EXCEPT ![c] = NoWait]
  /\ UNCHANGED <<spawned, open>>

(* Mutant: the map goes and the tasks stay.                                *)
DropRegistry_Forget ==
  /\ open
  /\ \A c \in Callers : waits[c] = NoWait
  /\ \A i \in Ids : Child(i).background \/ Over(i)
  /\ open' = FALSE
  /\ registry' = [n \in Names |-> 0]
  /\ UNCHANGED <<spawned, waits, children>>

(* The last owner of the registry goes; a call that uses it is one.        *)
DropRegistry ==
  /\ open
  /\ \A c \in Callers : waits[c] = NoWait
  /\ \A i \in Ids : Child(i).background \/ Over(i)
  /\ open' = FALSE
  /\ children' = Aborted({registry[n] : n \in Names})
  /\ registry' = [n \in Names |-> 0]
  /\ UNCHANGED <<spawned, waits>>

Step ==
  \/ Start \/ Delegate \/ DropRegistry
  \/ \E i \in Ids : RunReturns(i) \/ SaveReturns(i) \/ DelegateDropped(i) \/ TaskStops(i)
  \/ \E c \in Callers :
       (\E name \in Names : Collect(c, name)) \/ Collected(c) \/ CollectDropped(c)

Next == Step /\ UNCHANGED fresh

(* The runtime stops an aborted task at its next await.                    *)
Fairness == \A i \in 1 .. MaxChildren : WF_vars(i \in Ids /\ TaskStops(i) /\ UNCHANGED fresh)

Spec == Init /\ [][Next]_vars
LiveSpec == Spec /\ Fairness
-----------------------------------------------------------------------------
TypeOK ==
  /\ spawned = Len(children)
  /\ children \in Seq([name : Names, background : BOOLEAN, collected : Nat, aborted : BOOLEAN,
                       step : {"working", "saving", "ended", "unsaved", "dropped"}])
  /\ registry \in [Names -> 0 .. Len(children)]
  /\ waits \in [Callers -> [name : Names, child : 0 .. Len(children)]]
  /\ open \in BOOLEAN

Registered(i) == \E n \in Names : registry[n] = i
Awaited(i) == \E c \in Callers : waits[c].child = i

(* A background task has one owner at most: the registry or one caller, so *)
(* that its result is handed out once.                                     *)
OneOwner ==
  /\ \A n, m \in Names : registry[n] = registry[m] /\ registry[n] # 0 => n = m
  /\ \A c, d \in Callers : waits[c].child = waits[d].child /\ waits[c] # NoWait => c = d
  /\ \A n \in Names, c \in Callers : registry[n] = waits[c].child => registry[n] = 0
  /\ \A i \in Ids : Child(i).collected <= 1

(* "keeps the background ones addressable until they are collected"        *)
(* (SubagentRegistry's comment, src/subagent.rs): by its own name, or by   *)
(* the caller that waits for it.  A host that starts a task under a name   *)
(* in use pushes the other one out, so this is said of fresh names.        *)
Addressable ==
  fresh /\ open =>
    \A i \in Ids :
      Child(i).background /\ Child(i).collected = 0 =>
        registry[Child(i).name] = i \/ Awaited(i)

(* Nothing is left running that nobody could stop.                         *)
NothingDetached ==
  fresh => \A i \in Ids :
    \/ Over(i) \/ Child(i).aborted
    \/ ~Child(i).background
    \/ Registered(i) \/ Awaited(i)

(* Two delegations never share a name.                                     *)
NamesDiffer == fresh => \A i, j \in Ids : Child(i).name = Child(j).name => i = j

(* "Dropping the registry aborts its remaining tasks" (docs/embedding.md:  *)
(* 95): once it is gone every delegation comes to its end, but one that     *)
(* had lost its place to another of its name.                              *)
ChildrenStop == fresh /\ ~open ~> \A i \in Ids : Over(i)
=============================================================================
