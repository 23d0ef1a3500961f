------------------------------ MODULE Approvals ------------------------------
(***************************************************************************)
(* What may run without asking, and who answers when it may not: the       *)
(* standing rules and the mode of a chat, the copies of them that its      *)
(* agent, its run and its subagents hold, and the way of one approval from *)
(* the call that waits for it, over the channel of the screen's loop, to   *)
(* the prompt on the screen and the key that answers it.                   *)
(*                                                                         *)
(* Calls are those whose subject is taken as it stands (shell, mcp and the *)
(* like): a call of shell is one bare "word", a simple command of several  *)
(* "words" or a "compound" one, all with the same first word; "other" is a *)
(* call of another tool.  The file tools, whose subjects are paths and are *)
(* normalized first, are left out.                                         *)
(***************************************************************************)
EXTENDS Naturals, Sequences

CONSTANTS
  Main,         \* the run of the chat
  Children,     \* the subagents its run may have
  StartRules,   \* bound of the model: the rules a chat may start with
  ModesSet,     \* bound of the model: the modes a chat is set to
  CallsMade,    \* bound of the model: the calls its runs make
  MaxAsked      \* bound of the model: approvals asked for

ASSUME MainAssumption == Main \notin Children
ASSUME MaxAskedAssumption == MaxAsked \in Nat

VARIABLES
  configured,   \* Config.rules and Config.permissions of the chat
  live,         \* the rules its approver looks at
  options,      \* the RunOptions the next run is begun with
  childOptions, \* the RunOptions in the agent's subagent tool
  runOptions,   \* the RunOptions of the run
  running,      \* "no", "yes", "cancelled", "returned", or "lost" with its agent
  children,     \* the subagents: none, waited for, in the background, or ending
  asks,         \* where each run's current call stands
  asked,        \* approvals sent to the screen (history: their numbers)
  channel,      \* approvals sent and not yet taken by the screen's loop
  shown,        \* ChatState.approval
  waiting,      \* ChatState.waiting
  agreed        \* history: the questions a person said yes to

screen == <<channel, shown, waiting>>
settings == <<configured, live, options, childOptions>>
approvalsVars == <<settings, runOptions, running, children, asks, asked, screen, agreed>>

Askers == Children \cup {Main}

Modes == {"ask", "auto", "read_only"}
Calls == {"word", "words", "compound", "other"}
Rules == {"shell", "shell(git *)", "mcp"}
RuleSets == [allow : SUBSET Rules, deny : SUBSET Rules]
ASSUME CallsMadeAssumption ==
  CallsMade \subseteq Calls /\ StartRules \subseteq RuleSets /\ ModesSet \subseteq Modes
Permits == [rules : RuleSets, mode : Modes]

Approval == [who : Askers, call : Calls, number : Nat]
NobodyAsks == [who |-> Main, call |-> "other", number |-> 0]

(* No call is under way: none was made yet, or the last is over.           *)
NotCalling == [at |-> "none", call |-> "other", by |-> "none", number |-> 0]

(* What a rule's pattern fits: "git" alone does not start with "git ".     *)
Fits(rule, call) ==
  CASE rule = "shell" -> call \in {"word", "words", "compound"}
    [] rule = "shell(git *)" -> call \in {"words", "compound"}
    [] rule = "mcp" -> call = "other"

(* A rule that denies wins, and only a bare rule lets a compound command   *)
(* through.                                                                *)
decide(rules, call) ==
  IF \E rule \in rules.deny : Fits(rule, call) THEN "denied"
  ELSE IF \E rule \in rules.allow :
            Fits(rule, call) /\ (call = "compound" => rule = "shell")
       THEN "allowed"
  ELSE "undecided"

rule_for(call) == IF call = "other" THEN "mcp" ELSE "shell(git *)"

(* A definition's mode can only make its subagent's stricter.              *)
Stricter(one, other) ==
  IF "read_only" \in {one, other} THEN "read_only"
  ELSE IF "ask" \in {one, other} THEN "ask" ELSE "auto"

NoChild == [is |-> "none", options |-> [rules |-> [allow |-> {}, deny |-> {}], mode |-> "ask"]]

(* Under what a run's calls are admitted.                                  *)
PermitsOf(who) == IF who = Main THEN runOptions ELSE children[who].options

Begun(permits) ==
  /\ configured = permits /\ live = permits.rules
  /\ options = permits /\ childOptions = permits /\ runOptions = permits

ApprovalsInit ==
  /\ \E rules \in StartRules, mode \in ModesSet : Begun([rules |-> rules, mode |-> mode])
  /\ running = "no" /\ children = [child \in Children |-> NoChild]
  /\ asks = [who \in Askers |-> NotCalling] /\ asked = 0
  /\ channel = <<>> /\ shown = NobodyAsks /\ waiting = <<>> /\ agreed = {}

(* -- the chat's settings ------------------------------------------------ *)

(* An agent that is dropped aborts the tasks of its subagent registry: each*)
(* ends at its next await.                                                 *)
Orphaned ==
  [child \in Children |->
     IF children[child].is = "background" THEN [children[child] EXCEPT !.is = "ending"]
     ELSE children[child]]

(* make_agent_with reads the config, or fails: the agent and the options   *)
(* then stay what they were, and the config does not.                      *)
Rebuilt ==
  \/ options' = configured' /\ childOptions' = configured' /\ children' = Orphaned
  \/ UNCHANGED <<options, childOptions, children>>

(* A slash command waits for the run to end, and for the prompt on the     *)
(* screen, which takes the keys.                                           *)
TakesCommands == running = "no" /\ shown = NobodyAsks

SetPermissions ==
  /\ TakesCommands
  /\ \E mode \in ModesSet : configured' = [configured EXCEPT !.mode = mode]
  /\ Rebuilt
  /\ UNCHANGED <<live, runOptions, running, asks, asked, screen, agreed>>

(* The key for it works during a run as well, and rebuilds nothing.        *)
CyclesPermissions ==
  /\ shown = NobodyAsks
  /\ \E mode \in ModesSet :
       /\ <<configured.mode, mode>> \in
            {<<"ask", "auto">>, <<"auto", "read_only">>, <<"read_only", "ask">>}
       /\ configured' = [configured EXCEPT !.mode = mode]
       /\ options' = [options EXCEPT !.mode = mode]
  /\ UNCHANGED <<live, childOptions, runOptions, running, children, asks, asked, screen, agreed>>

ClearRules ==
  /\ TakesCommands
  /\ configured' = [configured EXCEPT !.rules = [allow |-> {}, deny |-> {}]]
  /\ live' = [allow |-> {}, deny |-> {}]
  /\ UNCHANGED <<options, childOptions, runOptions, running, children, asks, asked, screen, agreed>>

(* -- the runs ------------------------------------------------------------*)

BeginsRun ==
  /\ TakesCommands
  /\ running' = "yes" /\ runOptions' = options
  /\ UNCHANGED <<settings, children, asks, asked, screen, agreed>>

(* The subagent tool: it waits for the child it starts, or lets it run in  *)
(* the background.  (Its own call is let through like any other.)          *)
Delegates(child) ==
  /\ running = "yes" /\ asks[Main].at = "none"
  /\ children[child] = NoChild /\ \A other \in Children : children[other].is # "waited"
  /\ \E how \in {"waited", "background"}, mode \in Modes :
       children' = [children EXCEPT ![child] =
         [is |-> how, options |-> [childOptions EXCEPT !.mode = Stricter(childOptions.mode, mode)]]]
  /\ UNCHANGED <<settings, runOptions, running, asks, asked, screen, agreed>>

(* A child's run ends, or its task does, in the middle of anything.        *)
ChildEnds(child) ==
  /\ children[child].is # "none"
  /\ children' = [children EXCEPT ![child] = NoChild]
  /\ asks' = [asks EXCEPT ![child] = NotCalling]
  /\ UNCHANGED <<settings, runOptions, running, asked, screen, agreed>>

(* A run is not driven once it is cancelled, nor a child that it waits for;*)
(* one in the background goes on, and after the end of the run as well.    *)
Driven(who) ==
  IF who = Main THEN running = "yes"
  ELSE children[who].is \in {"background", "ending"} \/ (children[who].is = "waited" /\ running = "yes")

(* -- a call ---------------------------------------------------------------*)

Goes(who, call, by) ==
  asks' = [asks EXCEPT ![who] = [at |-> "through", call |-> call, by |-> by, number |-> 0]]

Sends(who, call) ==
  /\ asked < MaxAsked
  /\ asked' = asked + 1
  /\ asks' = [asks EXCEPT ![who] =
                [at |-> "asking", call |-> call, by |-> "none", number |-> asked + 1]]
  /\ channel' = Append(channel, [who |-> who, call |-> call, number |-> asked + 1])

(* admit, for a call that does more than read, and the chat's approver:    *)
(* the run's rules, then its mode, then the rules of the chat as they are  *)
(* now, and then a person.                                                 *)
Admits(who, call) ==
  /\ Driven(who) /\ asks[who].at = "none"
  /\ who = Main => \A child \in Children : children[child].is # "waited"
  /\ LET permits == PermitsOf(who)
         ruled == decide(permits.rules, call)
         granted == \/ ruled = "allowed"
                    \/ ruled = "undecided" /\ permits.mode = "auto"
                    \/ ruled = "undecided" /\ permits.mode = "ask"
                       /\ decide(live, call) = "allowed"
         asking == /\ ruled = "undecided" /\ permits.mode = "ask"
                   /\ decide(live, call) # "allowed"
     IN  \/ /\ granted
            /\ Goes(who, call,
                    IF ruled = "allowed" THEN "rules"
                    ELSE IF permits.mode = "auto" THEN "mode" ELSE "live")
            /\ UNCHANGED <<asked, channel>>
         \/ ~granted /\ ~asking /\ UNCHANGED <<asks, asked, channel>>
         \/ asking /\ Sends(who, call)
  /\ UNCHANGED <<settings, runOptions, running, children, shown, waiting, agreed>>

(* The pre_tool hooks of a call that was let through refuse it, in their   *)
(* answer or by not giving one in time, or it runs and returns.            *)
CallEnds(who) ==
  /\ Driven(who) /\ asks[who].at = "through"
  /\ asks' = [asks EXCEPT ![who] = NotCalling]
  /\ UNCHANGED <<settings, runOptions, running, children, asked, screen, agreed>>

(* -- the screen's loop ----------------------------------------------------*)

TakesApproval ==
  /\ channel # <<>>
  /\ channel' = Tail(channel)
  /\ IF shown = NobodyAsks
     THEN shown' = Head(channel) /\ UNCHANGED waiting
     ELSE waiting' = Append(waiting, Head(channel)) /\ UNCHANGED shown
  /\ UNCHANGED <<settings, runOptions, running, children, asks, asked, agreed>>

(* Mutant: the reply goes to whatever its asker asks by now.               *)
Hears_Whatever(approval, yes) ==
  LET who == approval.who
  IN asks' = IF asks[who].at = "asking"
             THEN [asks EXCEPT ![who] =
                     IF yes THEN [@ EXCEPT !.at = "through", !.by = "person"] ELSE NotCalling]
             ELSE asks

(* The reply goes to whoever still waits for this very approval.           *)
Hears(approval, yes) ==
  LET who == approval.who
  IN asks' = IF asks[who].at = "asking" /\ asks[who].number = approval.number
             THEN [asks EXCEPT ![who] =
                     IF yes THEN [@ EXCEPT !.at = "through", !.by = "person"] ELSE NotCalling]
             ELSE asks

(* Mutant: the prompts that wait are not shown after an answer.            *)
ShowsNext_LeavesWaiting == shown' = NobodyAsks /\ UNCHANGED waiting
ShowsNext ==
  IF waiting = <<>>
  THEN shown' = NobodyAsks /\ UNCHANGED waiting
  ELSE shown' = Head(waiting) /\ waiting' = Tail(waiting)

Keys == {"y", "a", "n"}

Allowing(rules, rule) == [rules EXCEPT !.allow = @ \cup {rule}]

AnswersWith(key) ==
  /\ shown # NobodyAsks
  /\ Hears(shown, key # "n")
  /\ agreed' = IF key # "n" THEN agreed \union {shown} ELSE agreed
  /\ IF key = "a"
     THEN /\ live' = Allowing(live, rule_for(shown.call))
          /\ configured' =
               [configured EXCEPT !.rules = Allowing(@, rule_for(shown.call))]
     ELSE UNCHANGED <<live, configured>>
  /\ ShowsNext
  /\ UNCHANGED <<options, childOptions, runOptions, running, children, asked, channel>>

(* Every approval the loop has, in the order it will be answered.          *)
Unanswered ==
  (IF shown = NobodyAsks THEN <<>> ELSE <<shown>>) \o waiting \o channel

(* A prompt that is dropped is a no to the call that still waits for it.   *)
Unheard(prompts) ==
  [who \in Askers |->
     IF asks[who].at = "asking"
        /\ \E i \in DOMAIN prompts : prompts[i].who = who /\ prompts[i].number = asks[who].number
     THEN NotCalling ELSE asks[who]]

(* The interrupt key while a prompt is on the screen: the run, if there is *)
(* one, is told to stop, the prompt is answered no and those behind it are *)
(* dropped.                                                                *)
Interrupts ==
  /\ shown # NobodyAsks
  /\ running' = IF running = "yes" THEN "cancelled" ELSE running
  /\ asks' = Unheard(<<shown>> \o waiting)
  /\ shown' = NobodyAsks /\ waiting' = <<>>
  /\ UNCHANGED <<settings, runOptions, children, asked, channel, agreed>>

(* Escape with no prompt on the screen.                                    *)
CancelsRun ==
  /\ running = "yes" /\ shown = NobodyAsks
  /\ running' = "cancelled"
  /\ UNCHANGED <<settings, runOptions, children, asks, asked, screen, agreed>>

(* The run ends: by itself, by its cancel, or its task does in a panic or  *)
(* an abort, and its agent with it; in the middle of anything.  The child  *)
(* it waits for is dropped with it, one in the background is not.          *)
RunStops ==
  /\ running \in {"yes", "cancelled"}
  /\ \E lost \in BOOLEAN :
       /\ running' = IF lost THEN "lost" ELSE "returned"
       /\ children' = [child \in Children |->
            IF children[child].is = "waited" THEN NoChild
            ELSE IF lost THEN Orphaned[child] ELSE children[child]]
  /\ asks' = [who \in Askers |->
       IF who = Main \/ (who \in Children /\ children[who].is = "waited") THEN NotCalling ELSE asks[who]]
  /\ UNCHANGED <<settings, runOptions, asked, screen, agreed>>

(* Wake::Finished: what is in the channel is applied first, and finish_run *)
(* drops every prompt, those of children in the background unshown.  After *)
(* a run that was lost the agent is built anew from the config, or not.    *)
(* (What a child sends while the session is saved between the two comes as *)
(* if it were sent after this step: nothing reads the channel until then.) *)
Finished ==
  /\ running \in {"returned", "lost"}
  /\ running' = "no"
  /\ asks' = Unheard(Unanswered)
  /\ channel' = <<>> /\ shown' = NobodyAsks /\ waiting' = <<>>
  /\ \/ UNCHANGED <<options, childOptions>>
     \/ running = "lost" /\ options' = configured /\ childOptions' = configured
  /\ UNCHANGED <<configured, live, runOptions, children, asked, agreed>>

ApprovalsNext ==
  \/ SetPermissions \/ CyclesPermissions \/ ClearRules \/ BeginsRun
  \/ \E child \in Children : Delegates(child) \/ ChildEnds(child)
  \/ \E who \in Askers, call \in CallsMade : Admits(who, call)
  \/ \E who \in Askers : CallEnds(who)
  \/ TakesApproval
  \/ \E key \in Keys : AnswersWith(key)
  \/ Interrupts \/ CancelsRun \/ RunStops \/ Finished

ApprovalsSpec == ApprovalsInit /\ [][ApprovalsNext]_approvalsVars

ApprovalsTypeOK ==
  /\ {configured, options, childOptions, runOptions} \subseteq Permits
  /\ live \in RuleSets
  /\ running \in {"no", "yes", "cancelled", "returned", "lost"}
  /\ children \in [Children -> [is : {"none", "waited", "background", "ending"}, options : Permits]]
  /\ asks \in [Askers -> [at : {"none", "asking", "through"}, call : Calls,
                          by : {"none", "rules", "mode", "live", "person"},
                          number : 0 .. MaxAsked]]
  /\ asked \in 0 .. MaxAsked
  /\ shown \in Approval
  /\ waiting \in Seq(Approval) /\ channel \in Seq(Approval)
  /\ agreed \subseteq Approval

Question(who) == [who |-> who, call |-> asks[who].call, number |-> asks[who].number]

(* A call that waits for a person is on the screen, behind the one that    *)
(* is, or on its way there, with what it asks for: no end of a run, of a   *)
(* child or of an agent leaves one waiting for a prompt that is gone.      *)
AskIsHeld ==
  \A who \in Askers :
    asks[who].at = "asking" => \E i \in DOMAIN Unanswered : Unanswered[i] = Question(who)

(* Approvals are answered in the order they were asked for, and none waits *)
(* behind an empty screen.                                                 *)
AnsweredInTurn ==
  /\ \A i, j \in DOMAIN Unanswered :
       i < j => Unanswered[i].number < Unanswered[j].number
  /\ shown = NobodyAsks => waiting = <<>>

(* A call that asked runs only when a person said yes to that very call of *)
(* that very run; what lets a call through unasked is a rule that allows   *)
(* it or the mode "auto" of its run, never against a rule that denies it,  *)
(* and never a prefix of a compound command.                               *)
LetThrough ==
  \A who \in Askers :
    asks[who].at = "through" =>
      LET by == asks[who].by
          permits == PermitsOf(who)
      IN /\ by # "none"
         /\ by = "person" => Question(who) \in agreed
         /\ ~\E rule \in permits.rules.deny : Fits(rule, asks[who].call)
         /\ by = "rules" /\ asks[who].call = "compound" => "shell" \in permits.rules.allow
         /\ by = "live" => permits.mode = "ask"
         /\ by = "mode" => permits.mode = "auto"

(* Every approval is heard: the way a call's question takes to the person  *)
(* and the answer takes back, chat.rs and agent/tool.rs.                   *)
ApprovalsHeard == AskIsHeld /\ AnsweredInTurn /\ LetThrough

(* docs/permissions.md:69: /rules clear "forgets all of them, so every     *)
(* call asks again": no call is let through by a rule that the chat no     *)
(* longer has.  The options the next run is begun with keep the rules.     *)
ClearedRulesAsk ==
  \A who \in Askers :
    asks[who].at = "through" /\ asks[who].by = "rules" =>
      decide(configured.rules, asks[who].call) = "allowed"
==============================================================================
