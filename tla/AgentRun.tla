------------------------------ MODULE AgentRun ------------------------------
(***************************************************************************)
(* One run of the agent: run_message and run_turn, the step machine that   *)
(* decides what comes next, the batches of tool calls, the steering queue  *)
(* of RunControl, and the cancel that may drop the run at any await.       *)
(*                                                                         *)
(* "pc" is where the execution future stands.  A step goes from one await  *)
(* (or one point another thread can tell apart) to the next.  Providers,   *)
(* tools, approvals and hooks are the environment: each answers in its own *)
(* time, in any of the ways the code tells apart.                          *)
(*                                                                         *)
(* A call is known by its place in the reply that made it; the reply by    *)
(* the number of the step that asked for it.  Call ids are taken to be     *)
(* distinct within a reply.                                                *)
(***************************************************************************)
EXTENDS RunControl, FiniteSets

CONSTANTS
  MaxSteps,     \* RunOptions.max_steps
  MaxCalls      \* bound of the model: tool calls in one reply

ASSUME MaxStepsAssumption == MaxSteps \in Nat \ {0}
ASSUME MaxCallsAssumption == MaxCalls \in Nat \ {0}

VARIABLES
  pc,           \* where the execution stands
  effect,       \* what the driver does next: Effect of step.rs
  steps,        \* Turn.steps
  settled,      \* Turn.settled
  calls,        \* the last reply's calls, by what they are to a batch
  next,         \* RunState.pending is calls[next] .. calls[Len(calls)]
  batch,        \* how many of the pending calls the current batch holds
  admitted,     \* how many of the batch have been through admit
  running,      \* the calls of the batch that are executing
  finished,     \* RunState.finished, by place of the call
  told,         \* what each call's ToolEnd events said (history)
  log,          \* the messages this run appends to the session
  spent,        \* the reported cost has reached budget_usd
  sent,         \* requests for a reply sent to the provider (history)
  result,       \* what the run returns
  hooked        \* what the session_end hooks were told (history)

turn == <<effect, steps, settled>>
tools == <<calls, next, batch, admitted, running, finished, told>>
ending == <<result, hooked>>
vars == <<control, pc, turn, tools, log, spent, sent, ending>>

Place == 1 .. MaxCalls

(* A call "reads" when Tool::concurrent says it may run beside others; any *)
(* other call, one of an unknown tool included, runs "alone".              *)
Kinds == {"reads", "alone"}
Texts == {"ran", "refused", "cancelled"}
Roles == {"user", "system", "assistant", "tool"}

(* A message of the session: "at" of "of" is how many of the calls of      *)
(* reply "ref" have their result once this message is in place.  Steering  *)
(* is a user message whose "ref" is its number in the queue; the prompt's  *)
(* is 0.                                                                   *)
Message == [role : Roles, ref : Nat, at : 0 .. MaxCalls, of : 0 .. MaxCalls,
            text : Texts \cup {"none"}]

Said(role, ref) == [role |-> role, ref |-> ref, at |-> 0, of |-> 0, text |-> "none"]
Reply(n) == [role |-> "assistant", ref |-> steps, at |-> 0, of |-> n, text |-> "none"]
ToolResult(k, text) ==
  [role |-> "tool", ref |-> steps, at |-> k, of |-> Len(calls), text |-> text]

PC == {"session_start", "prompt", "driver", "compacting", "asking", "batching",
       "admission", "admitting", "running", "recording", "closing",
       "session_end", "returned", "done"}
Effects == {"ask", "run_tools", "drain", "finish", "pause"}
Results == {"none", "finished", "paused", "failed", "cancelled"}

NoResults == [k \in Place |-> "none"]
NothingTold == [k \in Place |-> <<>>]

Init ==
  /\ ControlInit
  /\ pc \in {"session_start", "prompt"}
  /\ effect = "ask" /\ steps = 0 /\ settled = FALSE
  /\ calls = <<>> /\ next = 1 /\ batch = 0 /\ admitted = 0 /\ running = {}
  /\ finished = NoResults /\ told = NothingTold
  /\ log = <<>>
  /\ spent = FALSE /\ sent = 0
  /\ result = "none" /\ hooked = "none"

-----------------------------------------------------------------------------
(* The step machine.  Ask of step.rs: what the driver is told when the     *)
(* model is to be asked again.                                             *)
Ask ==
  IF steps >= MaxSteps
  THEN effect' = "pause" /\ UNCHANGED <<steps, settled>>
  ELSE effect' = "ask" /\ steps' = steps + 1 /\ UNCHANGED settled

(* Mutant of StepReplied: steering is taken before the calls are run.      *)
StepReplied_DrainFirst(n) ==
  /\ settled' = (n = 0)
  /\ effect' = "drain"
  /\ UNCHANGED steps

StepReplied(n) ==
  /\ settled' = (n = 0)
  /\ effect' = IF n = 0 THEN "drain" ELSE "run_tools"
  /\ UNCHANGED steps

StepSteered(n) ==
  IF n = 0 /\ settled
  THEN effect' = "finish" /\ UNCHANGED <<steps, settled>>
  ELSE Ask

(* Leaving run_turn, by its value or by the ? operator.                    *)
Leave(what) ==
  /\ pc' = "closing"
  /\ result' = what

-----------------------------------------------------------------------------
(* session_start hooks ran, failed or timed out: they only report.         *)
SessionStarted ==
  /\ pc = "session_start"
  /\ pc' = "prompt"
  /\ UNCHANGED <<control, turn, tools, log, spent, sent, ending>>

(* The checkpoint before run_turn, then the prompt and Action::Begin.      *)
Prompt ==
  /\ pc = "prompt"
  /\ \/ /\ cancelled
        /\ pc' = "returned"
        /\ result' = "failed"
        /\ UNCHANGED <<turn, log>>
     \/ /\ ~cancelled
        /\ pc' = "driver"
        /\ log' = Append(log, Said("user", 0))
        /\ Ask
        /\ UNCHANGED result
  /\ UNCHANGED <<control, tools, spent, sent, hooked>>

(* The top of the driver's loop: a checkpoint and the budget stop the run  *)
(* whatever comes next.                                                    *)
DriverStops ==
  /\ pc = "driver"
  /\ cancelled \/ spent
  /\ Leave("failed")
  /\ UNCHANGED <<control, turn, tools, log, spent, sent, hooked>>

(* Mutant of MayDrive: the budget is looked at only before a request.      *)
MayDrive_BudgetOnAsk(what) ==
  /\ pc = "driver"
  /\ effect = what
  /\ ~cancelled
  /\ what = "ask" => ~spent

MayDrive(what) ==
  /\ pc = "driver"
  /\ effect = what
  /\ ~cancelled /\ ~spent

(* Effect::Ask with room in the context: the request goes out.             *)
SendRequest ==
  /\ MayDrive("ask")
  /\ pc' = "asking"
  /\ sent' = sent + 1
  /\ UNCHANGED <<control, turn, tools, log, spent, ending>>

(* Effect::Ask with a context above the limit that compaction cannot help. *)
ContextTooLarge ==
  /\ MayDrive("ask")
  /\ Leave("failed")
  /\ UNCHANGED <<control, turn, tools, log, spent, sent, hooked>>

(* Effect::Ask with a full context: a summary is asked for first.          *)
StartCompaction ==
  /\ MayDrive("ask")
  /\ pc' = "compacting"
  /\ UNCHANGED <<control, turn, tools, log, spent, sent, ending>>

(* The summary arrived: its usage counts, it is recorded, the memory nudge *)
(* may follow it, and ask goes on to its own size check and checkpoint.    *)
Compacted ==
  /\ pc = "compacting"
  /\ spent' \in {spent, TRUE}
  /\ \E nudge \in BOOLEAN :
       log' = IF nudge THEN Append(log, Said("system", 0)) ELSE log
  /\ \/ ~cancelled /\ pc' = "asking" /\ sent' = sent + 1 /\ UNCHANGED result
     \/ Leave("failed") /\ UNCHANGED sent
  /\ UNCHANGED <<control, turn, tools, hooked>>

(* The summary could not be had, or was empty.                             *)
CompactionFailed ==
  /\ pc = "compacting"
  /\ spent' \in {spent, TRUE}
  /\ Leave("failed")
  /\ UNCHANGED <<control, turn, tools, log, sent, hooked>>

(* The reply arrived: its calls become the pending ones.                   *)
Replied(made) ==
  /\ pc = "asking"
  /\ pc' = "driver"
  /\ spent' \in {spent, TRUE}
  /\ calls' = made /\ next' = 1
  /\ told' = NothingTold
  /\ log' = Append(log, Reply(Len(made)))
  /\ StepReplied(Len(made))
  /\ UNCHANGED <<control, batch, admitted, running, finished, sent, ending>>

(* The provider failed or panicked.                                        *)
ProviderFailed ==
  /\ pc = "asking"
  /\ Leave("failed")
  /\ UNCHANGED <<control, turn, tools, log, spent, sent, hooked>>

(* Effect::Drain: everything that queued up becomes user messages.         *)
TakeSteering ==
  /\ MayDrive("drain")
  /\ Drain(settled)
  /\ log' = log \o [i \in 1 .. Len(queue) |-> Said("user", queue[i])]
  /\ StepSteered(Len(queue))
  /\ UNCHANGED <<pc, tools, spent, sent, ending>>

(* Effect::Finish and Effect::Pause: run_turn returns the last text.       *)
Finish ==
  /\ MayDrive("finish")
  /\ Leave("finished")
  /\ UNCHANGED <<control, turn, tools, log, spent, sent, hooked>>

Pause ==
  /\ MayDrive("pause")
  /\ Leave("paused")
  /\ UNCHANGED <<control, turn, tools, log, spent, sent, hooked>>

-----------------------------------------------------------------------------
(* Mutant of IsBatch: the call that must run alone joins those before it.  *)
IsBatch_OneMore(n) ==
  \A k \in next .. next + n - 2 : calls[k] = "reads"

(* The tool runner.  n of the pending calls, from the front, may run at    *)
(* once: the longest stretch of calls that only read, or one call alone.   *)
IsBatch(n) ==
  /\ n = 1 \/ \A k \in next .. next + n - 1 : calls[k] = "reads"
  /\ next + n <= Len(calls) => calls[next] = "alone" \/ calls[next + n] = "alone"

RunTools ==
  /\ MayDrive("run_tools")
  /\ pc' = "batching"
  /\ UNCHANGED <<control, turn, tools, log, spent, sent, ending>>

(* Mutant of NextBatch: without the minimum of one call.                   *)
NextBatch_NoMinimum ==
  /\ pc = "batching"
  /\ next <= Len(calls)
  /\ \E n \in 0 .. Len(calls) - next + 1 :
       /\ \A k \in next .. next + n - 1 : calls[k] = "reads"
       /\ next + n <= Len(calls) => calls[next + n] = "alone"
       /\ batch' = n
  /\ admitted' = 0
  /\ pc' = "admission"
  /\ UNCHANGED <<control, turn, calls, next, running, finished, told, log,
                 spent, sent, ending>>

NextBatch ==
  /\ pc = "batching"
  /\ next <= Len(calls)
  /\ \E n \in 1 .. Len(calls) - next + 1 : IsBatch(n) /\ batch' = n
  /\ admitted' = 0
  /\ pc' = "admission"
  /\ UNCHANGED <<control, turn, calls, next, running, finished, told, log,
                 spent, sent, ending>>

ToolsDone ==
  /\ pc = "batching"
  /\ next > Len(calls)
  /\ pc' = "driver"
  /\ effect' = "drain"
  /\ UNCHANGED <<control, steps, settled, tools, log, spent, sent, ending>>

(* The call whose admission is next, or under way.                         *)
Candidate == next + admitted

(* The checkpoint before a call, and its ToolStart.                        *)
StartCall ==
  /\ pc = "admission"
  /\ admitted < batch
  /\ \/ cancelled /\ Leave("failed") /\ running' = {}
     \/ ~cancelled /\ pc' = "admitting" /\ UNCHANGED <<result, running>>
  /\ UNCHANGED <<control, turn, calls, next, batch, admitted, finished, told,
                 log, spent, sent, hooked>>

(* admit said yes: the call will execute with the rest of its batch.       *)
Admit ==
  /\ pc = "admitting"
  /\ pc' = "admission"
  /\ admitted' = admitted + 1
  /\ running' = running \cup {Candidate}
  /\ UNCHANGED <<control, turn, calls, next, batch, finished, told, log, spent,
                 sent, ending>>

(* finish: the event, and the result kept where a cancel can find it.      *)
FinishCall(k, text) ==
  /\ told' = [told EXCEPT ![k] = Append(@, text)]
  /\ finished' = [finished EXCEPT ![k] = text]

(* admit said no: unknown tool, bad arguments, a rule, the mode, the       *)
(* person, or a pre_tool hook.                                             *)
Refuse ==
  /\ pc = "admitting"
  /\ pc' = "admission"
  /\ admitted' = admitted + 1
  /\ FinishCall(Candidate, "refused")
  /\ UNCHANGED <<control, turn, calls, next, batch, running, log, spent, sent,
                 ending>>

(* Everything in the batch has been decided: what may run starts.          *)
StartBatch ==
  /\ pc = "admission"
  /\ admitted = batch
  /\ pc' = "running"
  /\ UNCHANGED <<control, turn, tools, log, spent, sent, ending>>

(* A tool returned, failed or panicked; in a batch, in any order.          *)
ToolReturned(k) ==
  /\ pc = "running"
  /\ k \in running
  /\ running' = running \ {k}
  /\ FinishCall(k, "ran")
  /\ UNCHANGED <<control, pc, turn, calls, next, batch, admitted, log, spent,
                 sent, ending>>

BatchReturned ==
  /\ pc = "running"
  /\ running = {}
  /\ pc' = "recording"
  /\ UNCHANGED <<control, turn, tools, log, spent, sent, ending>>

(* The post_tool hooks of an executed call ran; its result moves from      *)
(* finished to the session and the call leaves the queue.  The code passes *)
(* over a call without a result; with distinct ids there is none, and the  *)
(* runs would report the deadlock here.                                    *)
RecordResult ==
  /\ pc = "recording"
  /\ batch > 0
  /\ finished[next] # "none"
  /\ log' = Append(log, ToolResult(next, finished[next]))
  /\ finished' = [finished EXCEPT ![next] = "none"]
  /\ next' = next + 1
  /\ batch' = batch - 1
  /\ UNCHANGED <<control, pc, turn, calls, admitted, running, told, spent,
                 sent, ending>>

(* The checkpoint after a batch.                                           *)
BatchRecorded ==
  /\ pc = "recording"
  /\ batch = 0
  /\ \/ cancelled /\ Leave("failed")
     \/ ~cancelled /\ pc' = "batching" /\ UNCHANGED result
  /\ UNCHANGED <<control, turn, tools, log, spent, sent, hooked>>

-----------------------------------------------------------------------------
(* What the session_end hooks hear of the turn's result.                   *)
HookOutcome_AlwaysSuccess == "success"
HookOutcome == IF result = "failed" THEN "error" ELSE "success"

(* After run_turn: the queue closes, and the end hooks run unless the run  *)
(* was cancelled meanwhile.                                                *)
CloseInbox ==
  /\ pc = "closing"
  /\ Close
  /\ \/ cancelled /\ pc' = "returned" /\ result' = "failed" /\ UNCHANGED hooked
     \/ /\ ~cancelled
        /\ pc' = "session_end"
        /\ hooked' = HookOutcome
        /\ UNCHANGED result
  /\ UNCHANGED <<turn, tools, log, spent, sent>>

SessionEnded ==
  /\ pc = "session_end"
  /\ pc' = "returned"
  /\ UNCHANGED <<control, turn, tools, log, spent, sent, ending>>

(* Mutant of Awaiting: an approval or a pre_tool hook holds off a cancel.  *)
Awaiting_NotApprovals ==
  \/ pc \in {"session_start", "compacting", "asking", "running", "session_end"}
  \/ pc = "recording" /\ batch > 0 /\ finished[next] = "ran"

(* Where the execution future can be dropped: it is waiting for something  *)
(* outside.  A call that never executed has no post_tool hooks to wait for. *)
Awaiting ==
  \/ pc \in {"session_start", "compacting", "asking", "admitting", "running",
             "session_end"}
  \/ pc = "recording" /\ batch > 0 /\ finished[next] = "ran"

(* The biased select sees the cancel: the future is dropped, and with it   *)
(* whatever was running.                                                   *)
Interrupt ==
  /\ cancelled
  /\ Awaiting
  /\ pc' = "returned"
  /\ result' = "cancelled"
  /\ running' = {}
  /\ UNCHANGED <<control, turn, calls, next, batch, admitted, finished, told,
                 log, spent, sent, hooked>>

(* What a pending call is answered with once the execution is gone; the    *)
(* mutant forgets the calls that did finish.                               *)
Salvaged_Nothing(k) == "cancelled"
Salvaged(k) == IF finished[k] # "none" THEN finished[k] ELSE "cancelled"

(* The results appended for the calls still pending; the mutant leaves out *)
(* those that never ran.                                                   *)
Owed_OnlyFinished ==
  [i \in 1 .. Cardinality({k \in next .. Len(calls) : finished[k] # "none"}) |->
     ToolResult(next + i - 1, Salvaged(next + i - 1))]
Owed == [i \in 1 .. Len(calls) - next + 1 |->
           ToolResult(next + i - 1, Salvaged(next + i - 1))]

(* A cancel counts even when the execution had already come to its end;    *)
(* the mutant only counts one that dropped it.                             *)
Returned_AsExecuted == result
Returned == IF cancelled THEN "cancelled" ELSE result

(* The end of run_message: the inbox closes, a late cancel still counts,   *)
(* and every call still pending gets its own result or a cancelled one.    *)
Return ==
  /\ pc = "returned"
  /\ Close
  /\ pc' = "done"
  /\ result' = Returned
  /\ log' = log \o Owed
  /\ told' = [k \in Place |->
                IF k \in next .. Len(calls) /\ finished[k] = "none"
                THEN Append(told[k], "cancelled") ELSE told[k]]
  /\ finished' = NoResults
  /\ next' = Len(calls) + 1
  /\ UNCHANGED <<turn, calls, batch, admitted, running, spent, sent, hooked>>

(* The run is over and its control pair with it.                           *)
Over == pc = "done" /\ UNCHANGED vars

-----------------------------------------------------------------------------
Made == UNION {[1 .. n -> Kinds] : n \in 0 .. MaxCalls}

(* What the run does without waiting for anything outside.                 *)
Proceed ==
  \/ Prompt \/ DriverStops
  \/ SendRequest \/ ContextTooLarge \/ StartCompaction
  \/ TakeSteering \/ Finish \/ Pause \/ RunTools
  \/ NextBatch \/ ToolsDone \/ StartCall \/ StartBatch
  \/ BatchReturned \/ BatchRecorded
  \/ (RecordResult /\ ~Awaiting)
  \/ CloseInbox \/ Interrupt \/ Return

(* What providers, tools, people and hooks answer.                         *)
Answer ==
  \/ SessionStarted \/ SessionEnded
  \/ Compacted \/ CompactionFailed
  \/ (\E made \in Made : Replied(made)) \/ ProviderFailed
  \/ Admit \/ Refuse
  \/ (\E k \in Place : ToolReturned(k))
  \/ (RecordResult /\ Awaiting)

(* What the holders of the controller do.                                  *)
Control ==
  /\ pc # "done"
  /\ Steering \/ Cancel
  /\ UNCHANGED <<pc, turn, tools, log, spent, sent, ending>>

Next == Proceed \/ Answer \/ Control \/ Over

Spec == Init /\ [][Next]_vars

(* The runtime keeps polling a run that can go on by itself; nothing says  *)
(* that a provider, a tool or a hook ever answers.                         *)
FairSpec == Spec /\ WF_vars(Proceed)
-----------------------------------------------------------------------------
(* Type correctness of the whole run, RunControl's queue included.         *)
FlagsOK ==
  open \in BOOLEAN /\ cancelled \in BOOLEAN /\ settled \in BOOLEAN /\ spent \in BOOLEAN

TurnTypeOK ==
  /\ pc \in PC /\ effect \in Effects
  /\ steps \in 0 .. MaxSteps
  /\ sent \in Nat
  /\ result \in Results /\ hooked \in {"none", "success", "error"}

ToolsTypeOK ==
  /\ calls \in Seq(Kinds) /\ Len(calls) <= MaxCalls
  /\ next \in 1 .. Len(calls) + 1
  /\ batch \in 0 .. MaxCalls /\ admitted \in 0 .. MaxCalls
  /\ running \in SUBSET Place
  /\ finished \in [Place -> Texts \cup {"none"}]
  /\ told \in [Place -> Seq(Texts)]

LogTypeOK == log \in Seq(Message)

TypeOK == FlagsOK /\ ControlTypeOK /\ TurnTypeOK /\ ToolsTypeOK /\ LogTypeOK

(* No call of the message is still owed its result.                        *)
Closed(m) == m.at = m.of

(* b may come right after a: a tool result answers the next call of the    *)
(* reply, in the order the model made them; anything else waits until the  *)
(* reply before it has all its results.                                    *)
Follows(a, b) ==
  IF b.role = "tool"
  THEN /\ a.role \in {"assistant", "tool"}
       /\ a.ref = b.ref /\ a.of = b.of /\ b.at = a.at + 1
  ELSE Closed(a)

(* The conversation a run writes is one a provider accepts at every        *)
(* moment: results follow their reply, one per call, in order, and a run   *)
(* that has ended, however it ended, owes none ("so the transcript can be  *)
(* resumed", docs/embedding.md).                                           *)
Transcript ==
  /\ \A i \in 1 .. Len(log) - 1 : Follows(log[i], log[i + 1])
  /\ log # <<>> => log[1].role = "user"
  /\ pc = "done" /\ log # <<>> => Closed(log[Len(log)])

(* A request never goes out while a call is unanswered, and a new reply    *)
(* never overwrites pending calls.                                         *)
RequestIsWhole ==
  pc \in {"asking", "compacting"} =>
    /\ next = Len(calls) + 1
    /\ log # <<>> /\ Closed(log[Len(log)])

(* What the person is told about a call is what the model reads: each      *)
(* recorded call had exactly one ToolEnd, with the recorded result, so a   *)
(* call that did run is never written down as cancelled, and nobody hears  *)
(* two outcomes of one call.                                               *)
ToldWhatIsRecorded ==
  /\ \A k \in Place : Len(told[k]) <= 1
  /\ \A i \in 1 .. Len(log) :
       log[i].role = "tool" /\ log[i].ref = steps =>
         told[log[i].at] = <<log[i].text>>

(* A call that is not read-only runs with nothing beside it.               *)
WritesRunAlone ==
  pc = "running" =>
    \A k \in running : calls[k] = "alone" => running = {k}

(* Steering reaches the conversation in the order it was accepted, each    *)
(* message once, and while the queue is open what waits in it is exactly   *)
(* the rest.                                                               *)
IsSteering(m) == m.role = "user" /\ m.ref > 0

SteeringInOrder ==
  /\ \A i, j \in 1 .. Len(log) :
       i < j /\ IsSteering(log[i]) /\ IsSteering(log[j]) => log[i].ref < log[j].ref
  /\ {log[i].ref : i \in {j \in 1 .. Len(log) : IsSteering(log[j])}} = 1 .. taken
  /\ open => queue = [i \in 1 .. accepted - taken |-> taken + i]

(* A run that ended on a final reply delivered everything it accepted:     *)
(* closing at the final reply is atomic with taking the last batch         *)
(* (docs/architecture.md, item 5).                                         *)
FinishedDelivers == result = "finished" => taken = accepted

(* What item 5 of docs/architecture.md says of every run that returns a    *)
(* reply: an accepted message cannot fall between the last turn and the    *)
(* end hooks.                                                              *)
NothingFallsBetween ==
  pc = "session_end" /\ result \in {"finished", "paused"} => taken = accepted

(* Once the reported cost has reached the budget no tool is admitted or    *)
(* run, those of the reply that spent it included.                         *)
SpentStartsNoTool == spent => pc \notin {"batching", "admission", "admitting",
                                        "running", "recording"}

(* A run whose cancellation was requested before it returned says it was   *)
(* cancelled, whatever the execution had come to; and no other run does.   *)
CancelWins == pc = "done" => (result = "cancelled" <=> cancelled)

(* The end hooks are told how the run ended, before it is reported ended:  *)
(* every run that was not cancelled ran them, with its own outcome.        *)
EndHooksToldTheOutcome ==
  pc = "done" /\ result # "cancelled" =>
    hooked = (IF result = "failed" THEN "error" ELSE "success")

(* Cancellation does not wait for a provider, a tool, an approval or a     *)
(* hook: under FairSpec, where none of them need ever answer.              *)
CancelEndsTheRun == cancelled ~> pc = "done"

(* A run whose providers, tools, approvals and hooks answer in the end     *)
(* ends.                                                                   *)
RunEnds == WF_vars(Answer) => <>(pc = "done")

(* The run keeps the promise about steering made by SteeringPromise.       *)
Promise == INSTANCE SteeringPromise WITH
  delivered <- taken,
  phase <- IF open THEN "open"
           ELSE IF taken = accepted THEN "settled" ELSE "abandoned",
  outcome <- IF pc # "done" THEN "none"
             ELSE IF result = "finished" THEN "finished" ELSE "unfinished"
SteeringPromiseKept == Promise!Spec
=============================================================================
