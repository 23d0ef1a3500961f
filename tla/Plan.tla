----------------------------------- MODULE Plan -----------------------------------
(***************************************************************************)
(* The todo list (todo.rs, agent/plan.rs and the chat's copy of it).  The  *)
(* list is kept nowhere but in the calls of the session: the run reads it  *)
(* from the model's context to know when to remind, the screen follows the *)
(* calls that ran, and a resumed or rewound session is read from its end.  *)
(***************************************************************************)
EXTENDS Naturals, Sequences

CONSTANTS
  Patience,     \* PATIENCE: calls an open plan may go without a change
  PlanSteps,    \* items that may be in progress
  MaxPlanPath   \* bound of the model: prompts and calls of the session

ASSUME PlanAssumption ==
  /\ Patience \in Nat \ {0} /\ MaxPlanPath \in Nat \ {0}
  /\ PlanSteps \intersect {"open", "done", "none", "malformed", "other", "user"} = {}

VARIABLES
  planPath,     \* the active path: prompts and calls, oldest first
  planFrom,     \* where the model's context begins, after a compaction
  onScreen,     \* the list the chat shows
  openPlan,     \* the run's: the item in progress and how long it was quiet
  planRun,      \* whether a run is under way
  quietCalls,   \* history: calls since the run or the list last began anew
  reminders,    \* history: reminders appended since then
  screenLags    \* history: the last list was refused, cancelled or of another session

planVars == <<planPath, planFrom, onScreen, openPlan, planRun, quietCalls, reminders, screenLags>>

(* A list is known by its item in progress; "open" has items left and none *)
(* in progress, "done" has none left and "none" is no list.                *)
PlanLists == PlanSteps \union {"open", "done"}
PlanCalls == PlanLists \union {"malformed", "other"}
NoPlan == [current |-> "none", quiet |-> 0]

PlanInit ==
  /\ planPath = <<>> /\ planFrom = 1
  /\ onScreen = "none" /\ openPlan = NoPlan
  /\ planRun = FALSE
  /\ quietCalls = 0 /\ reminders = 0
  /\ screenLags = FALSE

opened(list) == IF list \in {"done", "none"} THEN NoPlan ELSE [current |-> list, quiet |-> 0]

(* Mutant: a change of the list does not start the count again.            *)
observe_CountsOn(plan, call) ==
  IF call \in PlanLists THEN [plan |-> [opened(call) EXCEPT !.quiet = plan.quiet], reminds |-> FALSE]
  ELSE IF call = "malformed" \/ plan.current = "none" THEN [plan |-> NoPlan, reminds |-> FALSE]
  ELSE [plan |-> [plan EXCEPT !.quiet = (@ + 1) % Patience], reminds |-> plan.quiet + 1 = Patience]

(* observe: a todo call sets the plan, or unsets it when it is not well    *)
(* formed; any other call makes an open plan older, and one that is too old*)
(* is brought up and begins anew.                                          *)
observe(plan, call) ==
  IF call \in PlanLists THEN [plan |-> opened(call), reminds |-> FALSE]
  ELSE IF call = "malformed" \/ plan.current = "none" THEN [plan |-> NoPlan, reminds |-> FALSE]
  ELSE [plan |-> [plan EXCEPT !.quiet = (@ + 1) % Patience], reminds |-> plan.quiet + 1 = Patience]

(* recalled, over what the model still reads: what a list of calls leaves  *)
(* is up to its last todo call.                                            *)
recalled(path) ==
  LET todos == {i \in planFrom .. Len(path) : path[i] \in PlanLists \union {"malformed"}}
      last == CHOOSE i \in todos : \A j \in todos : j <= i
  IN  IF todos = {} \/ path[last] = "malformed" THEN NoPlan ELSE opened(path[last])

(* session_plan: the last well-formed list of the active path.             *)
session_plan(path) ==
  LET lists == {i \in 1 .. Len(path) : path[i] \in PlanLists}
  IN  IF lists = {} THEN "none" ELSE path[CHOOSE i \in lists : \A j \in lists : j <= i]
-----------------------------------------------------------------------------
PlanPrompted ==
  /\ ~planRun /\ Len(planPath) < MaxPlanPath
  /\ planPath' = Append(planPath, "user")
  /\ planRun' = TRUE
  /\ openPlan' = recalled(planPath)
  /\ quietCalls' = 0 /\ reminders' = 0
  /\ UNCHANGED <<planFrom, onScreen, screenLags>>

(* A call of the run: the tool tells the screen when it executes, which a  *)
(* malformed list never does and another call may be kept from by a rule or*)
(* a hook; either way its result is what the reminder goes with.           *)
PlanCall ==
  /\ planRun /\ Len(planPath) < MaxPlanPath
  /\ \E call \in PlanCalls, refused \in BOOLEAN :
       LET seen == observe(openPlan, call)
           ran == ~refused /\ call \in PlanLists
       IN  /\ call \in {"malformed", "other"} => ~refused
           /\ planPath' = Append(planPath, call)
           /\ openPlan' = seen.plan
           /\ onScreen' = IF ran THEN call ELSE onScreen
           /\ quietCalls' = IF call = "other" THEN quietCalls + 1 ELSE 0
           /\ reminders' = IF call = "other" THEN reminders + (IF seen.reminds THEN 1 ELSE 0) ELSE 0
           /\ screenLags' = (~ran /\ (screenLags \/ call \in PlanLists))
  /\ UNCHANGED <<planFrom, planRun>>

(* The run ends, or is cancelled with a call that has not run: its list is *)
(* in the session and nobody has observed it.                              *)
PlanRunEnds ==
  /\ planRun
  /\ planRun' = FALSE
  /\ \/ UNCHANGED <<planPath, screenLags>>
     \/ \E list \in PlanLists :
          /\ Len(planPath) < MaxPlanPath
          /\ planPath' = Append(planPath, list)
          /\ screenLags' = TRUE
  /\ openPlan' = NoPlan
  /\ UNCHANGED <<planFrom, onScreen, quietCalls, reminders>>

(* Compaction takes the oldest part of the path out of what the model reads*)
(* and leaves the path as it is.                                           *)
PlanCompacted ==
  /\ planRun
  /\ \E from \in planFrom + 1 .. Len(planPath) : planFrom' = from
  /\ UNCHANGED <<planPath, onScreen, openPlan, planRun, quietCalls, reminders, screenLags>>

(* The chat is opened on the saved session, or steps back before its last  *)
(* prompt: the screen is read from what is left.  (A path that compaction  *)
(* has reached stays as it is here.)                                       *)
ReadsPlan(path, from) ==
  /\ planPath' = path
  /\ planFrom' = from
  /\ onScreen' = session_plan(path)
  /\ screenLags' = FALSE
  /\ UNCHANGED <<openPlan, planRun, quietCalls, reminders>>

Resumed == ~planRun /\ ReadsPlan(planPath, planFrom)

Rewound ==
  /\ ~planRun
  /\ \E i \in planFrom .. Len(planPath) :
       /\ planPath[i] = "user" /\ \A j \in i + 1 .. Len(planPath) : planPath[j] # "user"
       /\ ReadsPlan(SubSeq(planPath, 1, i - 1), planFrom)

(* /new and /clear leave the list on the screen.                           *)
NewSession ==
  /\ ~planRun /\ planPath # <<>>
  /\ planPath' = <<>> /\ planFrom' = 1
  /\ screenLags' = TRUE
  /\ UNCHANGED <<onScreen, openPlan, planRun, quietCalls, reminders>>

PlanNext ==
  \/ PlanPrompted \/ PlanCall \/ PlanRunEnds \/ PlanCompacted \/ Resumed \/ Rewound \/ NewSession

PlanSpec == PlanInit /\ [][PlanNext]_planVars
-----------------------------------------------------------------------------
PlanTypeOK ==
  /\ Len(planPath) <= MaxPlanPath /\ planFrom \in 1 .. MaxPlanPath
  /\ onScreen \in PlanLists \union {"none"}
  /\ openPlan.current \in PlanLists \union {"none"} /\ openPlan.quiet \in 0 .. Patience - 1
  /\ planRun \in BOOLEAN /\ quietCalls \in 0 .. MaxPlanPath /\ reminders \in 0 .. MaxPlanPath

(* There is one plan: the screen shows what a resumed session will show,   *)
(* unless the last list was refused or cancelled or belongs to the session *)
(* before; what the run reminds of is that list too, as long as its call is*)
(* in the model's context and no malformed one came after it; and a list   *)
(* that stays open is brought up once in every Patience calls.             *)
PlanIsOne ==
  /\ ~screenLags => onScreen = session_plan(planPath)
  /\ planRun =>
       \A i \in planFrom .. Len(planPath) :
         planPath[i] \in PlanLists /\ (\A j \in i + 1 .. Len(planPath) : planPath[j] \in {"user", "other"})
           => openPlan.current = opened(session_plan(planPath)).current
  /\ openPlan.current # "none" =>
       reminders = quietCalls \div Patience /\ openPlan.quiet = quietCalls % Patience
=============================================================================
