--------------------------- MODULE AgentRunProofs ---------------------------
(***************************************************************************)
(* Proofs about AgentRun, for every number of senders, every capacity and  *)
(* every bound on steps and calls.                                         *)
(*                                                                         *)
(* The invariants are stacked: each is proved with the ones before it as   *)
(* already established facts.                                              *)
(***************************************************************************)
EXTENDS AgentRun, SequenceTheorems, TLAPS

InBatch == {"admission", "admitting", "running", "recording"}

(* Where a batch stands: it is a stretch of pending calls, admission goes  *)
(* through it from the front, and only the calls admitted so far run or    *)
(* have results.                                                           *)
BatchInv ==
  /\ pc \in InBatch => next + batch <= Len(calls) + 1
  /\ pc = "admission" => admitted <= batch /\ next <= Len(calls)
  /\ pc = "admitting" => admitted < batch
  /\ pc \in {"admission", "admitting", "running"} =>
       running \subseteq next .. next + admitted - 1
  /\ pc = "running" => admitted = batch
  /\ pc \notin {"admission", "admitting", "running"} => running = {}

TypeInv == TypeOK /\ BatchInv

-----------------------------------------------------------------------------
(* Helpers.                                                                *)

(* A function over 1..n with values in S is a sequence of length n.        *)
LEMMA TableIsSeq ==
  ASSUME NEW S, NEW n \in Nat, NEW f \in [1 .. n -> S]
  PROVE  f \in Seq(S) /\ Len(f) = n
<1>1. f \in Seq(S)
  BY SeqDef
<1>2. QED
  BY <1>1, LenProperties

(* The messages the run appends are messages.                              *)
LEMMA MessagesAreTyped ==
  ASSUME TypeOK
  PROVE  /\ \A n \in Nat : Said("user", n) \in Message /\ Said("system", n) \in Message
         /\ \A n \in 0 .. MaxCalls : Reply(n) \in Message
         /\ \A k \in Place, t \in Texts : ToolResult(k, t) \in Message
BY MaxCallsAssumption, MaxStepsAssumption
   DEF TypeOK, TurnTypeOK, ToolsTypeOK, Message, Said, Reply, ToolResult, Roles,
       Texts, Place

-----------------------------------------------------------------------------
LEMMA EmptySeqTyped == \A S : <<>> \in Seq(S) /\ Len(<<>>) = 0
OBVIOUS

LEMMA TypeInvInit == Init => TypeInv
<1> SUFFICES ASSUME Init PROVE TypeInv
  OBVIOUS
<1>1. ControlTypeOK
  BY EmptySeqTyped, CapacityAssumption DEF Init, ControlInit, ControlTypeOK
<1>2. FlagsOK
  BY DEF Init, ControlInit, FlagsOK
<1>3. TurnTypeOK
  BY MaxStepsAssumption DEF Init, TurnTypeOK, PC, Effects, Results
<1>4. ToolsTypeOK
  <2>1. calls \in Seq(Kinds) /\ Len(calls) = 0 /\ told \in [Place -> Seq(Texts)]
    BY EmptySeqTyped DEF Init, NothingTold
  <2> QED
    BY <2>1, MaxCallsAssumption DEF Init, ToolsTypeOK, NoResults
<1>5. LogTypeOK
  BY EmptySeqTyped DEF Init, LogTypeOK
<1>6. BatchInv
  BY DEF Init, BatchInv, InBatch
<1> QED
  BY <1>1, <1>2, <1>3, <1>4, <1>5, <1>6 DEF TypeInv, TypeOK

-----------------------------------------------------------------------------
(* Frames: which actions touch which part of the state.                    *)
LEMMA FrameControl ==
  ASSUME [Next]_vars
  PROVE  UNCHANGED control \/ TakeSteering \/ CloseInbox \/ Return \/ Control
BY DEF Next, Proceed, Answer, Over, vars, Prompt, DriverStops, SendRequest,
       ContextTooLarge, StartCompaction, Finish, Pause, RunTools, NextBatch,
       ToolsDone, StartCall, StartBatch, BatchReturned, BatchRecorded,
       RecordResult, Interrupt, SessionStarted, SessionEnded, Compacted,
       CompactionFailed, Replied, ProviderFailed, Admit, Refuse, ToolReturned

LEMMA FrameTools ==
  ASSUME [Next]_vars
  PROVE  \/ UNCHANGED tools
         \/ (\E made \in Made : Replied(made)) \/ NextBatch \/ StartCall
         \/ Admit \/ Refuse \/ (\E k \in Place : ToolReturned(k))
         \/ RecordResult \/ Interrupt \/ Return
BY DEF Next, Proceed, Answer, Over, vars, Prompt, DriverStops, SendRequest,
       ContextTooLarge, StartCompaction, Finish, Pause, RunTools, ToolsDone,
       StartBatch, TakeSteering, CloseInbox, Control, BatchReturned,
       BatchRecorded, SessionStarted, SessionEnded, Compacted,
       CompactionFailed, ProviderFailed

LEMMA FrameLog ==
  ASSUME [Next]_vars
  PROVE  \/ UNCHANGED log
         \/ Prompt \/ Compacted \/ (\E made \in Made : Replied(made))
         \/ TakeSteering \/ RecordResult \/ Return
BY DEF Next, Proceed, Answer, Over, vars, DriverStops, SendRequest,
       ContextTooLarge, StartCompaction, Finish, Pause, RunTools, NextBatch,
       ToolsDone, StartCall, StartBatch, BatchReturned, BatchRecorded,
       CloseInbox, Interrupt, SessionStarted, SessionEnded, CompactionFailed,
       ProviderFailed, Admit, Refuse, ToolReturned, Control

(* The prompt of a reply's calls is a sequence within the bound.           *)
LEMMA MadeTyped ==
  ASSUME NEW made \in Made
  PROVE  made \in Seq(Kinds) /\ Len(made) \in 0 .. MaxCalls
<1>1. PICK n \in 0 .. MaxCalls : made \in [1 .. n -> Kinds]
  BY DEF Made
<1>2. n \in Nat
  BY MaxCallsAssumption
<1> QED
  BY <1>1, <1>2, TableIsSeq

-----------------------------------------------------------------------------
(* One step preserves each part of the types.                              *)
LEMMA FlagsStep ==
  ASSUME FlagsOK, [Next]_vars
  PROVE  FlagsOK'
<1>1. open' \in BOOLEAN /\ cancelled' \in BOOLEAN
  <2>1. CASE UNCHANGED control
    BY <2>1 DEF control, FlagsOK
  <2>2. CASE TakeSteering
    BY <2>2 DEF TakeSteering, Drain, FlagsOK
  <2>3. CASE CloseInbox \/ Return
    BY <2>3 DEF CloseInbox, Return, Close, FlagsOK
  <2>4. CASE Control
    BY <2>4 DEF Control, Steering, CheckCancel, Accept, Reject, Cancel, FlagsOK
  <2> QED
    BY <2>1, <2>2, <2>3, <2>4, FrameControl
<1>2. settled' \in BOOLEAN
  BY DEF FlagsOK, Next, Proceed, Answer, Over, vars, turn, Prompt, DriverStops,
       SendRequest, ContextTooLarge, StartCompaction, Finish, Pause, RunTools,
       NextBatch, ToolsDone, StartCall, StartBatch, BatchReturned, BatchRecorded,
       RecordResult, Interrupt, SessionStarted, SessionEnded, Compacted,
       CompactionFailed, Replied, ProviderFailed, Admit, Refuse, ToolReturned,
       TakeSteering, CloseInbox, Return, Control, Ask, StepReplied, StepSteered
<1>3. spent' \in BOOLEAN
  BY DEF FlagsOK, Next, Proceed, Answer, Over, vars, Prompt, DriverStops,
       SendRequest, ContextTooLarge, StartCompaction, Finish, Pause, RunTools,
       NextBatch, ToolsDone, StartCall, StartBatch, BatchReturned, BatchRecorded,
       RecordResult, Interrupt, SessionStarted, SessionEnded, Compacted,
       CompactionFailed, Replied, ProviderFailed, Admit, Refuse, ToolReturned,
       TakeSteering, CloseInbox, Return, Control
<1> QED
  BY <1>1, <1>2, <1>3 DEF FlagsOK

LEMMA ControlTypeStep ==
  ASSUME ControlTypeOK, [Next]_vars
  PROVE  ControlTypeOK'
<1>1. CASE UNCHANGED control
  BY <1>1 DEF control, ControlTypeOK
<1>2. CASE TakeSteering
  BY <1>2, EmptySeqTyped, CapacityAssumption DEF TakeSteering, Drain, ControlTypeOK
<1>3. CASE CloseInbox \/ Return
  <2>1. queue' = <<>> /\ UNCHANGED <<sender, accepted, taken>>
    BY <1>3 DEF CloseInbox, Return, Close
  <2> QED
    BY <2>1, EmptySeqTyped, CapacityAssumption DEF ControlTypeOK
<1>4. CASE Control
  <2>1. CASE Cancel \/ \E s \in Senders : CheckCancel(s) \/ Reject(s)
    BY <2>1 DEF CheckCancel, Reject, Cancel, ControlTypeOK
  <2>2. ASSUME NEW s \in Senders, Accept(s) PROVE ControlTypeOK'
    <3>1. queue' \in Seq(Nat) /\ Len(queue') = Len(queue) + 1
      BY <2>2, AppendProperties DEF Accept, ControlTypeOK
    <3>2. Len(queue') <= Capacity
      BY <2>2, <3>1, CapacityAssumption DEF Accept, ControlTypeOK
    <3> QED
      BY <2>2, <3>1, <3>2 DEF Accept, ControlTypeOK
  <2> QED
    BY <1>4, <2>1, <2>2 DEF Control, Steering
<1> QED
  BY <1>1, <1>2, <1>3, <1>4, FrameControl

LEMMA TurnTypeStep ==
  ASSUME TurnTypeOK, [Next]_vars
  PROVE  TurnTypeOK'
<1>1. pc' \in PC
  BY DEF TurnTypeOK, PC, Leave, Next, Proceed, Answer, Over, vars, Prompt,
       DriverStops, SendRequest, ContextTooLarge, StartCompaction, Finish, Pause,
       RunTools, NextBatch, ToolsDone, StartCall, StartBatch, BatchReturned,
       BatchRecorded, RecordResult, Interrupt, SessionStarted, SessionEnded,
       Compacted, CompactionFailed, Replied, ProviderFailed, Admit, Refuse,
       ToolReturned, TakeSteering, CloseInbox, Return, Control
<1>2. effect' \in Effects /\ steps' \in 0 .. MaxSteps
  <2>1. CASE UNCHANGED turn
    BY <2>1 DEF turn, TurnTypeOK
  <2>2. CASE Ask
    BY <2>2, MaxStepsAssumption DEF Ask, TurnTypeOK, Effects
  <2>3. CASE UNCHANGED steps /\ effect' \in Effects
    BY <2>3 DEF TurnTypeOK
  <2>4. UNCHANGED turn \/ Ask \/ (UNCHANGED steps /\ effect' \in Effects)
    BY DEF Effects, turn, Next, Proceed, Answer, Over, vars, Prompt, DriverStops,
       SendRequest, ContextTooLarge, StartCompaction, Finish, Pause, RunTools,
       NextBatch, ToolsDone, StartCall, StartBatch, BatchReturned, BatchRecorded,
       RecordResult, Interrupt, SessionStarted, SessionEnded, Compacted,
       CompactionFailed, Replied, ProviderFailed, Admit, Refuse, ToolReturned,
       TakeSteering, CloseInbox, Return, Control, StepReplied, StepSteered
  <2> QED
    BY <2>1, <2>2, <2>3, <2>4
<1>3. sent' \in Nat
  <2>1. sent' = sent \/ sent' = sent + 1
    BY DEF Next, Proceed, Answer, Over, vars, Prompt,
       DriverStops, SendRequest, ContextTooLarge, StartCompaction, Finish, Pause,
       RunTools, NextBatch, ToolsDone, StartCall, StartBatch, BatchReturned,
       BatchRecorded, RecordResult, Interrupt, SessionStarted, SessionEnded,
       Compacted, CompactionFailed, Replied, ProviderFailed, Admit, Refuse,
       ToolReturned, TakeSteering, CloseInbox, Return, Control
  <2> QED
    BY <2>1 DEF TurnTypeOK
<1>4. result' \in Results /\ hooked' \in {"none", "success", "error"}
  BY DEF TurnTypeOK, Results, Leave, ending, Next, Proceed, Answer, Over, vars,
       Prompt, DriverStops, SendRequest, ContextTooLarge, StartCompaction, Finish,
       Pause, RunTools, NextBatch, ToolsDone, StartCall, StartBatch, BatchReturned,
       BatchRecorded, RecordResult, Interrupt, SessionStarted, SessionEnded,
       Compacted, CompactionFailed, Replied, ProviderFailed, Admit, Refuse,
       ToolReturned, TakeSteering, CloseInbox, HookOutcome, Return, Returned, Control
<1> QED
  BY <1>1, <1>2, <1>3, <1>4 DEF TurnTypeOK

(* finish keeps the tables of results and events typed.                    *)
LEMMA FinishCallTyped ==
  ASSUME ToolsTypeOK, NEW k \in Place, NEW text \in Texts, FinishCall(k, text)
  PROVE  /\ finished' \in [Place -> Texts \cup {"none"}]
         /\ told' \in [Place -> Seq(Texts)]
<1>1. Append(told[k], text) \in Seq(Texts)
  BY AppendProperties DEF ToolsTypeOK
<1> QED
  BY <1>1 DEF FinishCall, ToolsTypeOK

LEMMA ToolsTypeStep ==
  ASSUME TypeInv, [Next]_vars
  PROVE  ToolsTypeOK'
<1>0. ToolsTypeOK /\ BatchInv
  BY DEF TypeInv, TypeOK
<1>a. Len(calls) \in 0 .. MaxCalls /\ next \in Nat /\ MaxCalls \in Nat
  BY <1>0, MaxCallsAssumption DEF ToolsTypeOK
<1>1. CASE UNCHANGED tools
  BY <1>0, <1>1 DEF tools, ToolsTypeOK
<1>2. ASSUME NEW made \in Made, Replied(made) PROVE ToolsTypeOK'
  <2>1. calls' \in Seq(Kinds) /\ Len(calls') \in 0 .. MaxCalls /\ next' = 1
    BY <1>2, MadeTyped DEF Replied
  <2>2. told' \in [Place -> Seq(Texts)]
    BY <1>2, EmptySeqTyped DEF Replied, NothingTold
  <2>3. UNCHANGED <<batch, admitted, running, finished>>
    BY <1>2 DEF Replied
  <2> QED
    BY <1>0, <2>1, <2>2, <2>3, MaxCallsAssumption DEF ToolsTypeOK
<1>3. CASE NextBatch
  BY <1>0, <1>a, <1>3 DEF NextBatch, ToolsTypeOK
<1>4. CASE StartCall \/ Interrupt
  BY <1>0, <1>4 DEF StartCall, Interrupt, ToolsTypeOK
<1>5. pc = "admitting" => Candidate \in Place /\ admitted + 1 \in 0 .. MaxCalls
  BY <1>0, <1>a DEF Candidate, Place, BatchInv, InBatch, ToolsTypeOK
<1>6. CASE Admit
  BY <1>0, <1>5, <1>6 DEF Admit, ToolsTypeOK
<1>7. CASE Refuse
  <2>1. /\ finished' \in [Place -> Texts \cup {"none"}]
        /\ told' \in [Place -> Seq(Texts)]
    BY <1>0, <1>5, <1>7, FinishCallTyped DEF Refuse, Texts
  <2> QED
    BY <1>0, <1>5, <1>7, <2>1 DEF Refuse, ToolsTypeOK
<1>8. ASSUME NEW k \in Place, ToolReturned(k) PROVE ToolsTypeOK'
  <2>1. /\ finished' \in [Place -> Texts \cup {"none"}]
        /\ told' \in [Place -> Seq(Texts)]
    BY <1>0, <1>8, FinishCallTyped DEF ToolReturned, Texts
  <2> QED
    BY <1>0, <1>8, <2>1 DEF ToolReturned, ToolsTypeOK
<1>9. CASE RecordResult
  <2>1. next' \in 1 .. Len(calls) + 1
    BY <1>0, <1>a, <1>9 DEF RecordResult, BatchInv, InBatch, ToolsTypeOK
  <2>2. batch' \in 0 .. MaxCalls
    BY <1>0, <1>a, <1>9 DEF RecordResult, ToolsTypeOK
  <2>3. finished' \in [Place -> Texts \cup {"none"}]
    BY <1>0, <1>9 DEF RecordResult, ToolsTypeOK
  <2> QED
    BY <1>0, <1>9, <2>1, <2>2, <2>3 DEF RecordResult, ToolsTypeOK
<1>10. CASE Return
  <2>1. told' \in [Place -> Seq(Texts)]
    <3>1. \A k \in Place : Append(told[k], "cancelled") \in Seq(Texts) /\ told[k] \in Seq(Texts)
      BY <1>0, AppendProperties DEF ToolsTypeOK, Texts
    <3> QED
      BY <1>10, <3>1 DEF Return
  <2>2. finished' \in [Place -> Texts \cup {"none"}] /\ next' \in 1 .. Len(calls) + 1
    BY <1>10, <1>a DEF Return, NoResults
  <2> QED
    BY <1>0, <1>10, <2>1, <2>2 DEF Return, ToolsTypeOK
<1> QED
  BY <1>1, <1>2, <1>3, <1>4, <1>6, <1>7, <1>8, <1>9, <1>10, FrameTools
(* Prefixing and adding messages keeps the log a sequence of messages.     *)
LEMMA LogTypeStep ==
  ASSUME TypeInv, [Next]_vars
  PROVE  LogTypeOK'
<1>0. TypeOK /\ log \in Seq(Message)
  BY DEF TypeInv, TypeOK, LogTypeOK
<1>1. CASE UNCHANGED log
  BY <1>0, <1>1 DEF LogTypeOK
<1>2. CASE Prompt \/ Compacted
  <2>1. \/ UNCHANGED log
        \/ log' = Append(log, Said("user", 0))
        \/ log' = Append(log, Said("system", 0))
    BY <1>2 DEF Prompt, Compacted
  <2>2. Said("user", 0) \in Message /\ Said("system", 0) \in Message
    BY <1>0, MessagesAreTyped
  <2> QED
    BY <1>0, <2>1, <2>2, AppendProperties DEF LogTypeOK
<1>3. ASSUME NEW made \in Made, Replied(made) PROVE LogTypeOK'
  <2>1. Reply(Len(made)) \in Message
    BY <1>0, MessagesAreTyped, MadeTyped
  <2> QED
    BY <1>0, <1>3, <2>1, AppendProperties DEF Replied, LogTypeOK
<1>4. CASE TakeSteering
  <2> DEFINE new == [i \in 1 .. Len(queue) |-> Said("user", queue[i])]
  <2>1. queue \in Seq(Nat) /\ Len(queue) \in Nat
    BY <1>0, LenProperties DEF TypeOK, ControlTypeOK
  <2>2. \A i \in 1 .. Len(queue) : Said("user", queue[i]) \in Message
    BY <1>0, <2>1, MessagesAreTyped, ElementOfSeq
  <2>3. new \in Seq(Message)
    BY <2>1, <2>2, TableIsSeq
  <2> QED
    BY <1>0, <1>4, <2>3, ConcatProperties DEF TakeSteering, LogTypeOK
<1>5. CASE RecordResult
  <2>1. next \in Place /\ finished[next] \in Texts
    BY <1>0, <1>5, MaxCallsAssumption, SMTT(30)
       DEF TypeInv, TypeOK, ToolsTypeOK, BatchInv, InBatch, RecordResult, Place
  <2>2. ToolResult(next, finished[next]) \in Message
    BY <1>0, <2>1, MessagesAreTyped
  <2> QED
    BY <1>0, <1>5, <2>2, AppendProperties DEF RecordResult, LogTypeOK
<1>6. CASE Return
  <2>1. Len(calls) \in 0 .. MaxCalls /\ next \in 1 .. Len(calls) + 1 /\ MaxCalls \in Nat
    BY <1>0, MaxCallsAssumption DEF TypeOK, ToolsTypeOK
  <2>2. \A k \in Place : Salvaged(k) \in Texts
    BY <1>0 DEF TypeOK, ToolsTypeOK, Salvaged, Texts
  <2>3. \A i \in 1 .. Len(calls) - next + 1 : next + i - 1 \in Place
    BY <2>1 DEF Place
  <2>4. \A i \in 1 .. Len(calls) - next + 1 :
          ToolResult(next + i - 1, Salvaged(next + i - 1)) \in Message
    BY <1>0, <2>2, <2>3, MessagesAreTyped
  <2>5. Owed \in Seq(Message)
    BY <2>1, <2>4, TableIsSeq DEF Owed
  <2> QED
    BY <1>0, <1>6, <2>5, ConcatProperties DEF Return, LogTypeOK
<1> QED
  BY <1>1, <1>2, <1>3, <1>4, <1>5, <1>6, FrameLog

LEMMA BatchInvStep ==
  ASSUME TypeInv, [Next]_vars
  PROVE  BatchInv'
<1>0. /\ TypeOK /\ BatchInv
      /\ Len(calls) \in Nat /\ next \in Nat /\ batch \in Nat /\ admitted \in Nat
  BY MaxCallsAssumption DEF TypeInv, TypeOK, ToolsTypeOK
<1>1. CASE UNCHANGED tools /\ (pc' = pc \/ pc' \notin InBatch) /\ running = {}
  BY <1>0, <1>1 DEF tools, BatchInv, InBatch
<1>2. CASE UNCHANGED <<tools, pc>>
  BY <1>0, <1>2 DEF tools, BatchInv, InBatch
<1>3. CASE NextBatch
  BY <1>0, <1>3 DEF NextBatch, BatchInv, InBatch
<1>4. CASE StartCall
  BY <1>0, <1>4 DEF StartCall, Leave, BatchInv, InBatch
<1>5. CASE Admit
  BY <1>0, <1>5 DEF Admit, Candidate, BatchInv, InBatch
<1>6. CASE Refuse
  BY <1>0, <1>6 DEF Refuse, BatchInv, InBatch
<1>7. CASE StartBatch
  BY <1>0, <1>7 DEF StartBatch, tools, BatchInv, InBatch
<1>8. CASE \E k \in Place : ToolReturned(k)
  BY <1>0, <1>8 DEF ToolReturned, BatchInv, InBatch
<1>9. CASE BatchReturned
  BY <1>0, <1>9 DEF BatchReturned, tools, BatchInv, InBatch
<1>10. CASE RecordResult
  BY <1>0, <1>10 DEF RecordResult, BatchInv, InBatch
<1>11. CASE BatchRecorded
  BY <1>0, <1>11 DEF BatchRecorded, Leave, tools, BatchInv, InBatch
<1>12. CASE Interrupt
  BY <1>0, <1>12 DEF Interrupt, BatchInv, InBatch
<1>13. CASE Return
  BY <1>0, <1>13 DEF Return, BatchInv, InBatch
<1>14. CASE \E made \in Made : Replied(made)
  BY <1>0, <1>14 DEF Replied, BatchInv, InBatch
<1>15. CASE \/ SessionStarted \/ Prompt \/ DriverStops \/ SendRequest
            \/ ContextTooLarge \/ StartCompaction \/ Compacted \/ CompactionFailed
            \/ ProviderFailed \/ TakeSteering \/ Finish \/ Pause \/ RunTools
            \/ ToolsDone \/ CloseInbox \/ SessionEnded
  <2>1. UNCHANGED tools /\ pc \notin {"admission", "admitting", "running"}
    BY <1>15 DEF tools, SessionStarted, Prompt, DriverStops, SendRequest,
       ContextTooLarge, StartCompaction, Compacted, CompactionFailed,
       ProviderFailed, TakeSteering, Finish, Pause, MayDrive, RunTools, ToolsDone,
       CloseInbox, SessionEnded
  <2>2. pc' = pc \/ pc' \notin InBatch
    BY <1>15 DEF InBatch, Leave, SessionStarted, Prompt, DriverStops, SendRequest,
       ContextTooLarge, StartCompaction, Compacted, CompactionFailed,
       ProviderFailed, TakeSteering, Finish, Pause, RunTools, ToolsDone,
       CloseInbox, SessionEnded
  <2> QED
    BY <1>0, <1>1, <2>1, <2>2 DEF BatchInv
<1>16. CASE Control \/ Over \/ UNCHANGED vars
  BY <1>2, <1>16 DEF Control, Over, vars
<1> QED
  BY <1>3, <1>4, <1>5, <1>6, <1>7, <1>8, <1>9, <1>10, <1>11, <1>12, <1>13,
     <1>14, <1>15, <1>16 DEF Next, Proceed, Answer

LEMMA TypeInvariant == Spec => []TypeInv
<1>1. Init => TypeInv
  BY TypeInvInit
<1>2. TypeInv /\ [Next]_vars => TypeInv'
  <2> SUFFICES ASSUME TypeInv, [Next]_vars PROVE TypeInv'
    OBVIOUS
  <2>1. FlagsOK' /\ ControlTypeOK' /\ TurnTypeOK'
    BY FlagsStep, ControlTypeStep, TurnTypeStep DEF TypeInv, TypeOK
  <2>2. ToolsTypeOK' /\ LogTypeOK' /\ BatchInv'
    BY ToolsTypeStep, LogTypeStep, BatchInvStep
  <2> QED
    BY <2>1, <2>2 DEF TypeInv, TypeOK
<1> QED
  BY <1>1, <1>2, PTL DEF Spec
(* Every variable of a run has its type at every moment: the queue never   *)
(* holds more than its capacity, and a run never counts more steps than    *)
(* max_steps.                                                              *)
THEOREM TypeCorrect == Spec => []TypeOK
<1>1. TypeInv => TypeOK
  BY DEF TypeInv
<1> QED
  BY <1>1, TypeInvariant, PTL

-----------------------------------------------------------------------------
(* Steering.  While the queue is open what waits in it is exactly what was *)
(* accepted and not yet taken; it closes either at the drain that found    *)
(* nothing after a final reply, and then the driver only finishes, or when *)
(* the run has left the driver.                                            *)
LeftDriver == {"closing", "session_end", "returned", "done"}

SteeringInv ==
  /\ taken <= accepted
  /\ open => queue = [i \in 1 .. accepted - taken |-> taken + i]
  /\ ~open => pc \in LeftDriver \/ (pc = "driver" /\ effect = "finish")
  /\ pc = "driver" /\ effect = "finish" => ~open /\ taken = accepted
  /\ result = "finished" => ~open /\ taken = accepted

LEMMA SteeringInit == Init => SteeringInv
<1> SUFFICES ASSUME Init PROVE SteeringInv
  OBVIOUS
<1>1. accepted = 0 /\ taken = 0 /\ open = TRUE /\ queue = <<>>
  BY DEF Init, ControlInit
<1>2. <<>> = [i \in 1 .. accepted - taken |-> taken + i]
  <2>1. 1 .. accepted - taken = {}
    BY <1>1
  <2> QED
    BY <2>1
<1> QED
  BY <1>1, <1>2 DEF Init, SteeringInv

(* The queue's table grows at its end.                                     *)
LEMMA TableGrows ==
  ASSUME NEW a \in Nat, NEW t \in Nat, t <= a
  PROVE  Append([i \in 1 .. a - t |-> t + i], a + 1) = [i \in 1 .. a + 1 - t |-> t + i]
<1> DEFINE old == [i \in 1 .. a - t |-> t + i]
           new == [i \in 1 .. a + 1 - t |-> t + i]
<1>1. old \in Seq(Nat) /\ Len(old) = a - t
  BY TableIsSeq
<1>2. new \in Seq(Nat) /\ Len(new) = a + 1 - t
  BY TableIsSeq
<1>3. /\ Append(old, a + 1) \in Seq(Nat)
      /\ Len(Append(old, a + 1)) = a - t + 1
      /\ \A i \in 1 .. a - t : Append(old, a + 1)[i] = old[i]
      /\ Append(old, a + 1)[a - t + 1] = a + 1
  BY <1>1, AppendProperties
<1>4. \A i \in 1 .. a + 1 - t : Append(old, a + 1)[i] = new[i]
  BY <1>3
<1> HIDE DEF old, new
<1>5. Append(old, a + 1) = new
  BY <1>2, <1>3, <1>4, SeqEqual
<1> QED
  BY <1>5 DEF old, new

LEMMA SteeringStep ==
  ASSUME TypeInv, SteeringInv, [Next]_vars
  PROVE  SteeringInv'
<1>0. accepted \in Nat /\ taken \in Nat /\ queue \in Seq(Nat)
  BY DEF TypeInv, TypeOK, ControlTypeOK
<1>1. CASE TakeSteering
  <2>1. open /\ pc = "driver" /\ effect = "drain" /\ pc' = pc /\ result' = result
    BY <1>1 DEF TakeSteering, MayDrive, SteeringInv, LeftDriver, ending
  <2>2. /\ queue = [i \in 1 .. accepted - taken |-> taken + i]
        /\ taken <= accepted
    BY <2>1 DEF SteeringInv
  <2>3. Len(queue) = accepted - taken
    BY <1>0, <2>2, TableIsSeq
  <2>4. taken' = accepted /\ accepted' = accepted /\ queue' = <<>>
    BY <1>0, <1>1, <2>3 DEF TakeSteering, Drain
  <2>5. queue' = [i \in 1 .. accepted' - taken' |-> taken' + i]
    <3>1. 1 .. accepted' - taken' = {}
      BY <1>0, <2>4
    <3> QED
      BY <2>4, <3>1
  <2>6. result # "finished"
    BY <2>1 DEF SteeringInv
  <2>7. Len(queue) = 0 <=> queue = <<>>
    BY <1>0, EmptySeq
  <2>8. effect' = "finish" <=> ~open'
    BY <1>1, <2>1, <2>7 DEF TakeSteering, Drain, StepSteered, Ask
  <2> QED
    BY <1>0, <2>1, <2>4, <2>5, <2>6, <2>8 DEF SteeringInv
<1>2. CASE CloseInbox \/ Return
  <2>1. /\ ~open' /\ pc' \in LeftDriver /\ UNCHANGED <<accepted, taken>>
        /\ result' = "finished" => result = "finished"
    BY <1>2 DEF CloseInbox, Return, Returned, Close, LeftDriver
  <2>2. pc' # "driver"
    BY <2>1 DEF LeftDriver
  <2> QED
    BY <2>1, <2>2 DEF SteeringInv
<1>3. CASE Control
  <2>1. UNCHANGED <<pc, effect, result, open, taken>>
    BY <1>3 DEF Control, Steering, CheckCancel, Accept, Reject, Cancel, turn, ending
  <2>2. CASE UNCHANGED <<queue, accepted>>
    BY <2>1, <2>2 DEF SteeringInv
  <2>3. ASSUME NEW s \in Senders, Accept(s) PROVE SteeringInv'
    <3>1. open /\ queue' = Append(queue, accepted + 1) /\ accepted' = accepted + 1
      BY <2>3 DEF Accept
    <3>2. queue' = [i \in 1 .. accepted' - taken' |-> taken' + i]
      BY <1>0, <2>1, <3>1, TableGrows DEF SteeringInv
    <3>3. taken' <= accepted'
      BY <1>0, <2>1, <3>1 DEF SteeringInv
    <3> QED
      BY <2>1, <3>1, <3>2, <3>3 DEF SteeringInv
  <2> QED
    BY <1>3, <2>2, <2>3 DEF Control, Steering, CheckCancel, Reject, Cancel
<1>4. CASE UNCHANGED control
  <2>1. UNCHANGED <<open, queue, accepted, taken>>
    BY <1>4 DEF control
  <2>2. CASE UNCHANGED <<pc, effect, result>>
    BY <2>1, <2>2 DEF SteeringInv
  <2>3. CASE \/ SessionStarted \/ Prompt \/ SendRequest \/ StartCompaction
             \/ Compacted \/ (\E made \in Made : Replied(made)) \/ RunTools
             \/ NextBatch \/ ToolsDone \/ StartCall \/ Admit \/ Refuse
             \/ StartBatch \/ BatchReturned \/ BatchRecorded
             \/ (\E k \in Place : ToolReturned(k)) \/ RecordResult
    <3>1. /\ pc \notin LeftDriver
          /\ pc = "driver" => effect # "finish"
      BY <2>3 DEF LeftDriver, SessionStarted, Prompt, SendRequest, StartCompaction,
         Compacted, Replied, RunTools, MayDrive, NextBatch, ToolsDone, StartCall,
         Admit, Refuse, StartBatch, BatchReturned, BatchRecorded, ToolReturned,
         RecordResult
    <3>2. /\ result' = "finished" => result = "finished"
          /\ pc' = "driver" => effect' # "finish"
      BY <2>3, <3>1 DEF Leave, Ask, StepReplied, ending, turn,
         SessionStarted, Prompt, SendRequest, StartCompaction,
         Compacted, Replied, RunTools, NextBatch, ToolsDone, StartCall,
         Admit, Refuse, StartBatch, BatchReturned, BatchRecorded, ToolReturned,
         RecordResult
    <3> QED
      BY <2>1, <3>1, <3>2 DEF SteeringInv
  <2>4. CASE \/ DriverStops \/ ContextTooLarge \/ CompactionFailed \/ ProviderFailed
             \/ Pause \/ SessionEnded \/ Interrupt
    <3>1. /\ pc' \in LeftDriver
          /\ result' = "finished" => result = "finished"
      BY <2>4 DEF LeftDriver, Leave, DriverStops, ContextTooLarge, CompactionFailed,
         ProviderFailed, Pause, SessionEnded, Interrupt, ending
    <3> QED
      BY <2>1, <3>1 DEF SteeringInv, LeftDriver
  <2>5. CASE Finish
    BY <2>1, <2>5 DEF Finish, MayDrive, Leave, SteeringInv, LeftDriver
  <2>6. CASE TakeSteering \/ CloseInbox \/ Return \/ Control
    BY <1>1, <1>2, <1>3, <2>6
  <2>7. CASE Over \/ UNCHANGED vars
    BY <2>2, <2>7 DEF Over, vars, turn, ending
  <2> QED
    BY <2>2, <2>3, <2>4, <2>5, <2>6, <2>7 DEF Next, Proceed, Answer
<1> QED
  BY <1>1, <1>2, <1>3, <1>4, FrameControl

LEMMA SteeringInvariant == Spec => []SteeringInv
<1>1. Init => SteeringInv
  BY SteeringInit
<1>2. TypeInv /\ SteeringInv /\ [Next]_vars => SteeringInv'
  BY SteeringStep
<1> QED
  BY <1>1, <1>2, TypeInvariant, PTL DEF Spec

(* A run that ends on a final reply has put every steering message it      *)
(* acknowledged into the conversation: the drain that finds the queue      *)
(* empty closes it in the same critical section (RunInbox::drain).         *)
THEOREM FinishedRunDelivers == Spec => []FinishedDelivers
<1>1. SteeringInv => FinishedDelivers
  BY DEF SteeringInv, FinishedDelivers
<1> QED
  BY <1>1, SteeringInvariant, PTL
-----------------------------------------------------------------------------
(* The outcome.  Only a requested cancel makes a run cancelled, the end    *)
(* hooks hear of the result the run had when they started, and a run that  *)
(* skips them has been cancelled.                                          *)
OutcomeInv ==
  /\ result = "cancelled" => cancelled
  /\ pc = "done" /\ cancelled => result = "cancelled"
  /\ pc = "session_end" => hooked = HookOutcome
  /\ pc \in {"returned", "done"} /\ ~cancelled => hooked = HookOutcome

LEMMA OutcomeStep ==
  ASSUME TypeInv, OutcomeInv, [Next]_vars
  PROVE  OutcomeInv'
<1>1. CASE UNCHANGED <<pc, result, hooked>>
  <2>1. cancelled' = cancelled \/ (cancelled' = TRUE /\ pc # "done")
    BY DEF Next, Proceed, Answer, Over, vars, control, Control, Steering,
       CheckCancel, Accept, Reject, Cancel, Drain, Close, Prompt, DriverStops,
       SendRequest, ContextTooLarge, StartCompaction, Finish, Pause, RunTools,
       NextBatch, ToolsDone, StartCall, StartBatch, BatchReturned, BatchRecorded,
       RecordResult, Interrupt, SessionStarted, SessionEnded, Compacted,
       CompactionFailed, Replied, ProviderFailed, Admit, Refuse, ToolReturned,
       TakeSteering, CloseInbox, Return
  <2> QED
    BY <1>1, <2>1 DEF OutcomeInv, HookOutcome
<1>2. CASE CloseInbox
  BY <1>2 DEF CloseInbox, Close, OutcomeInv, HookOutcome
<1>3. CASE SessionEnded
  BY <1>3 DEF SessionEnded, control, ending, OutcomeInv, HookOutcome
<1>4. CASE Return
  BY <1>4 DEF Return, Returned, Close, OutcomeInv, HookOutcome
<1>5. CASE Interrupt
  BY <1>5 DEF Interrupt, control, OutcomeInv
<1>6. CASE Prompt
  BY <1>6 DEF Prompt, control, OutcomeInv
<1>7. CASE \/ SessionStarted \/ DriverStops \/ SendRequest \/ ContextTooLarge
           \/ StartCompaction \/ Compacted \/ CompactionFailed
           \/ (\E made \in Made : Replied(made)) \/ ProviderFailed \/ Finish
           \/ Pause \/ RunTools \/ NextBatch \/ ToolsDone \/ StartCall \/ Admit
           \/ Refuse \/ StartBatch \/ BatchReturned \/ BatchRecorded
  <2>1. cancelled' = cancelled
    BY <1>7 DEF control, SessionStarted, DriverStops, SendRequest, ContextTooLarge,
       StartCompaction, Compacted, CompactionFailed, Replied, ProviderFailed,
       Finish, Pause, RunTools, NextBatch, ToolsDone, StartCall, Admit, Refuse,
       StartBatch, BatchReturned, BatchRecorded
  <2>2. /\ pc' \notin {"session_end", "returned", "done"}
        /\ result' = result \/ result' # "cancelled"
    BY <1>7 DEF ending, Leave, SessionStarted, DriverStops, SendRequest,
       ContextTooLarge, StartCompaction, Compacted, CompactionFailed, Replied,
       ProviderFailed, Finish, Pause, RunTools, NextBatch, ToolsDone, StartCall,
       Admit, Refuse, StartBatch, BatchReturned, BatchRecorded
  <2> QED
    BY <2>1, <2>2 DEF OutcomeInv
<1>8. CASE \/ TakeSteering \/ (\E k \in Place : ToolReturned(k)) \/ RecordResult
           \/ Control \/ Over \/ UNCHANGED vars
  BY <1>1, <1>8 DEF TakeSteering, ToolReturned, RecordResult, Control, Over, vars, ending
<1> QED
  BY <1>2, <1>3, <1>4, <1>5, <1>6, <1>7, <1>8 DEF Next, Proceed, Answer

LEMMA OutcomeInvariant == Spec => []OutcomeInv
<1>1. Init => OutcomeInv
  BY DEF Init, OutcomeInv
<1>2. TypeInv /\ OutcomeInv /\ [Next]_vars => OutcomeInv'
  BY OutcomeStep
<1> QED
  BY <1>1, <1>2, TypeInvariant, PTL DEF Spec

(* A run that returns after a cancel was requested says it was cancelled,  *)
(* however far its execution had come, and no other run says so            *)
(* (run_message's last look at the flag).                                  *)
THEOREM CancellationWins == Spec => []CancelWins
<1>1. OutcomeInv => CancelWins
  BY DEF OutcomeInv, CancelWins
<1> QED
  BY <1>1, OutcomeInvariant, PTL

(* Every run that was not cancelled has told its session_end hooks how it  *)
(* ended before it returns (run_message, after run_turn).                  *)
THEOREM EndHooksHearTheOutcome == Spec => []EndHooksToldTheOutcome
<1>1. OutcomeInv => EndHooksToldTheOutcome
  BY DEF OutcomeInv, EndHooksToldTheOutcome, HookOutcome
<1> QED
  BY <1>1, OutcomeInvariant, PTL

-----------------------------------------------------------------------------
(* The budget.  Cost is only reported where no tool is under way, and the  *)
(* driver hands over to the tools only below the budget.                   *)
ToolSteps == {"batching", "admission", "admitting", "running", "recording"}

LEMMA SpentStep ==
  ASSUME SpentStartsNoTool, [Next]_vars
  PROVE  SpentStartsNoTool'
<1>1. CASE spent' = spent /\ (pc' \in ToolSteps => pc \in ToolSteps)
  BY <1>1 DEF SpentStartsNoTool, ToolSteps
<1>2. CASE Compacted \/ CompactionFailed \/ (\E made \in Made : Replied(made))
  BY <1>2 DEF Compacted, CompactionFailed, Replied, Leave, SpentStartsNoTool
<1>3. CASE RunTools
  BY <1>3 DEF RunTools, MayDrive, SpentStartsNoTool
<1>4. CASE \/ SessionStarted \/ Prompt \/ DriverStops \/ SendRequest
           \/ ContextTooLarge \/ StartCompaction \/ ProviderFailed \/ TakeSteering
           \/ Finish \/ Pause \/ NextBatch \/ ToolsDone \/ StartCall \/ Admit
           \/ Refuse \/ StartBatch \/ (\E k \in Place : ToolReturned(k))
           \/ BatchReturned \/ RecordResult \/ BatchRecorded
           \/ CloseInbox \/ SessionEnded \/ Interrupt \/ Return
           \/ Control \/ Over \/ UNCHANGED vars
  <2>1. spent' = spent
    BY <1>4 DEF SessionStarted, Prompt, DriverStops, SendRequest, ContextTooLarge,
       StartCompaction, ProviderFailed, TakeSteering, Finish, Pause, NextBatch,
       ToolsDone, StartCall, Admit, Refuse, StartBatch, ToolReturned, BatchReturned,
       RecordResult, BatchRecorded, CloseInbox, SessionEnded, Interrupt, Return,
       Control, Over, vars
  <2>2. pc' \in ToolSteps => pc \in ToolSteps
    BY <1>4 DEF ToolSteps, Leave, SessionStarted, Prompt, DriverStops, SendRequest,
       ContextTooLarge, StartCompaction, ProviderFailed, TakeSteering, Finish, Pause,
       NextBatch, ToolsDone, StartCall, Admit, Refuse, StartBatch, ToolReturned,
       BatchReturned, RecordResult, BatchRecorded, CloseInbox, SessionEnded,
       Interrupt, Return, Control, Over, vars
  <2> QED
    BY <1>1, <2>1, <2>2
<1> QED
  BY <1>2, <1>3, <1>4 DEF Next, Proceed, Answer

(* Once the reported cost has reached the budget no tool is admitted, run  *)
(* or recorded, those of the reply that spent it included (run_turn's look *)
(* at the budget before each effect).                                      *)
THEOREM NothingRunsOnceSpent == Spec => []SpentStartsNoTool
<1>1. Init => SpentStartsNoTool
  BY DEF Init, SpentStartsNoTool
<1>2. SpentStartsNoTool /\ [Next]_vars => SpentStartsNoTool'
  BY SpentStep
<1> QED
  BY <1>1, <1>2, PTL DEF Spec

-----------------------------------------------------------------------------
(* Batches.  A batch is one call, or calls that all only read; with what   *)
(* BatchInv says of running that leaves a call that writes by itself.      *)
BatchKinds ==
  pc \in {"admission", "admitting", "running"} =>
    batch = 1 \/ \A k \in next .. next + batch - 1 : calls[k] = "reads"

LEMMA BatchKindsStep ==
  ASSUME BatchKinds, [Next]_vars
  PROVE  BatchKinds'
<1> DEFINE Mid == {"admission", "admitting", "running"}
<1>1. CASE NextBatch
  <2>1. PICK n \in 1 .. Len(calls) - next + 1 : IsBatch(n) /\ batch' = n
    BY <1>1 DEF NextBatch
  <2>2. calls' = calls /\ next' = next
    BY <1>1 DEF NextBatch
  <2> QED
    BY <2>1, <2>2 DEF IsBatch, BatchKinds
<1>2. CASE pc' \notin Mid
  BY <1>2 DEF BatchKinds
<1>3. CASE UNCHANGED <<calls, next, batch>> /\ (pc' \in Mid => pc \in Mid)
  BY <1>3 DEF BatchKinds
<1>4. CASE StartCall \/ Admit \/ Refuse \/ StartBatch \/ (\E k \in Place : ToolReturned(k))
           \/ Control \/ Over \/ UNCHANGED vars
  <2>1. UNCHANGED <<calls, next, batch>> /\ (pc' \in Mid => pc \in Mid)
    BY <1>4 DEF StartCall, Admit, Refuse, StartBatch, ToolReturned, Control, Over, Leave, vars, tools
  <2> QED
    BY <1>3, <2>1
<1>5. CASE \/ SessionStarted \/ Prompt \/ DriverStops \/ SendRequest
           \/ ContextTooLarge \/ StartCompaction \/ Compacted \/ CompactionFailed
           \/ (\E made \in Made : Replied(made)) \/ ProviderFailed \/ TakeSteering
           \/ Finish \/ Pause \/ RunTools \/ ToolsDone
           \/ BatchReturned \/ RecordResult \/ BatchRecorded
           \/ CloseInbox \/ SessionEnded \/ Interrupt \/ Return
  <2>1. pc' \notin Mid
    BY <1>5 DEF Leave, MayDrive, SessionStarted, Prompt, DriverStops, SendRequest,
       ContextTooLarge, StartCompaction, Compacted, CompactionFailed, Replied,
       ProviderFailed, TakeSteering, Finish, Pause, RunTools, ToolsDone,
       BatchReturned, RecordResult, BatchRecorded, CloseInbox, SessionEnded,
       Interrupt, Return
  <2> QED
    BY <1>2, <2>1
<1> QED
  BY <1>1, <1>4, <1>5 DEF Next, Proceed, Answer

(* A call that may not run beside others runs with nothing beside it, for  *)
(* any reply and any order in which calls return (run_tools' batches).     *)
THEOREM WritersRunAlone == Spec => []WritesRunAlone
<1>1. Init => BatchKinds
  BY DEF Init, BatchKinds
<1>2. BatchKinds /\ [Next]_vars => BatchKinds'
  BY BatchKindsStep
<1>3. TypeInv /\ BatchKinds => WritesRunAlone
  <2> SUFFICES ASSUME TypeInv, BatchKinds, pc = "running", NEW k \in running,
                      calls[k] = "alone"
               PROVE  running = {k}
    BY DEF WritesRunAlone
  <2>1. running \subseteq next .. next + batch - 1
    BY DEF TypeInv, BatchInv
  <2>2. batch = 1
    BY <2>1 DEF BatchKinds
  <2>3. next \in Nat
    BY DEF TypeInv, TypeOK, ToolsTypeOK
  <2>4. next .. next + batch - 1 = {next}
    BY <2>2, <2>3
  <2> QED
    BY <2>1, <2>4
<1> QED
  BY <1>1, <1>2, <1>3, TypeInvariant, PTL DEF Spec

-----------------------------------------------------------------------------
(* The promise about steering.                                             *)
LEMMA PromiseInit == Init => Promise!Init
BY DEF Init, ControlInit, Promise!Init

(* What a step does to the abstract state: nothing, or one abstract step.  *)
LEMMA PromiseStep ==
  ASSUME TypeInv, SteeringInv, TypeInv', SteeringInv', [Next]_vars
  PROVE  [Promise!Next]_Promise!vars
<1>0. /\ accepted \in Nat /\ taken \in Nat /\ queue \in Seq(Nat) /\ Capacity \in Nat
      /\ accepted' \in Nat /\ taken' \in Nat
  BY CapacityAssumption DEF TypeInv, TypeOK, ControlTypeOK
<1>1. CASE TakeSteering
  <2>1. open /\ pc = "driver" /\ pc' = pc
    BY <1>1 DEF TakeSteering, MayDrive, SteeringInv, LeftDriver
  <2>2. accepted' = accepted /\ taken' = accepted /\ taken <= accepted
    <3>1. queue = [i \in 1 .. accepted - taken |-> taken + i] /\ taken <= accepted
      BY <2>1 DEF SteeringInv
    <3>2. Len(queue) = accepted - taken
      BY <1>0, <3>1, TableIsSeq
    <3> QED
      BY <1>0, <1>1, <3>1, <3>2 DEF TakeSteering, Drain
  <2>3. queue # <<>> => taken < accepted
    <3>1. open => queue = [i \in 1 .. accepted - taken |-> taken + i]
      BY DEF SteeringInv
    <3>2. Len(queue) = accepted - taken
      BY <1>0, <2>1, <2>2, <3>1, TableIsSeq
    <3> QED
      BY <1>0, <2>2, <3>2, EmptySeq
  <2>4. queue = <<>> => taken = accepted
    <3>1. open => queue = [i \in 1 .. accepted - taken |-> taken + i]
      BY DEF SteeringInv
    <3>2. Len(queue) = accepted - taken
      BY <1>0, <2>1, <2>2, <3>1, TableIsSeq
    <3> QED
      BY <1>0, <2>2, <3>2, EmptySeqTyped
  <2>5. CASE open'
    BY <2>1, <2>2, <2>5, <1>0 DEF Promise!Next, Promise!Deliver, Promise!vars
  <2>6. CASE ~open'
    <3>1. queue = <<>>
      BY <1>1, <2>1, <2>6 DEF TakeSteering, Drain
    <3> QED
      BY <2>1, <2>2, <2>4, <2>6, <3>1 DEF Promise!Next, Promise!Settle
  <2> QED
    BY <2>5, <2>6
<1>2. CASE CloseInbox
  <2>1. pc = "closing" /\ pc' # "done" /\ ~open' /\ UNCHANGED <<accepted, taken>>
    BY <1>2 DEF CloseInbox, Close
  <2>2. CASE open /\ taken = accepted
    BY <2>1, <2>2 DEF Promise!Next, Promise!Settle
  <2>3. CASE open /\ taken # accepted
    BY <1>0, <2>1, <2>3 DEF Promise!Next, Promise!Abandon, SteeringInv
  <2>4. CASE ~open
    BY <2>1, <2>4 DEF Promise!vars
  <2> QED
    BY <2>2, <2>3, <2>4
<1>3. CASE Return
  <2>1. /\ pc = "returned" /\ pc' = "done" /\ ~open' /\ UNCHANGED <<accepted, taken>>
        /\ result' = "finished" => result = "finished"
    BY <1>3 DEF Return, Returned, Close
  <2>2. CASE open
    <3>1. result' # "finished"
      BY <2>1, <2>2 DEF SteeringInv
    <3>2. CASE taken = accepted
      BY <2>1, <2>2, <3>1, <3>2 DEF Promise!Next, Promise!Settle
    <3>3. CASE taken # accepted
      BY <1>0, <2>1, <2>2, <3>1, <3>3 DEF Promise!Next, Promise!Abandon, SteeringInv
    <3> QED
      BY <3>2, <3>3
  <2>3. CASE ~open
    BY <2>1, <2>3 DEF Promise!Next, Promise!Conclude, SteeringInv
  <2> QED
    BY <2>2, <2>3
<1>4. CASE Control
  <2>1. UNCHANGED <<pc, result, open, taken>>
    BY <1>4 DEF Control, Steering, CheckCancel, Accept, Reject, Cancel, ending
  <2>2. CASE accepted' = accepted
    BY <2>1, <2>2 DEF Promise!vars
  <2>3. ASSUME NEW s \in Senders, Accept(s) PROVE [Promise!Next]_Promise!vars
    <3>1. open /\ Len(queue) < Capacity /\ accepted' = accepted + 1
      BY <2>3 DEF Accept
    <3>2. accepted - taken < Capacity /\ pc # "done"
      <4>1. queue = [i \in 1 .. accepted - taken |-> taken + i] /\ taken <= accepted
        BY <3>1 DEF SteeringInv
      <4>2. Len(queue) = accepted - taken
        BY <1>0, <4>1, TableIsSeq
      <4> QED
        BY <1>0, <1>4, <3>1, <4>2 DEF Control
    <3> QED
      BY <2>1, <3>1, <3>2 DEF Promise!Next, Promise!Accept
  <2> QED
    BY <1>4, <2>2, <2>3 DEF Control, Steering, CheckCancel, Reject, Cancel
<1>5. CASE UNCHANGED control
  <2>1. UNCHANGED <<open, accepted, taken>>
    BY <1>5 DEF control
  <2>2. Return \/ Over \/ UNCHANGED vars \/ (pc' # "done" /\ pc # "done")
    BY DEF Next, Proceed, Answer, Leave, Awaiting, Prompt, DriverStops,
       SendRequest, ContextTooLarge, StartCompaction, Finish, Pause, RunTools,
       NextBatch, ToolsDone, StartCall, StartBatch, BatchReturned, BatchRecorded,
       RecordResult, Interrupt, SessionStarted, SessionEnded, Compacted, MayDrive,
       CompactionFailed, Replied, ProviderFailed, Admit, Refuse, ToolReturned,
       TakeSteering, CloseInbox, Control
  <2>3. CASE pc' # "done" /\ pc # "done"
    BY <2>1, <2>3 DEF Promise!vars
  <2>4. CASE Over \/ UNCHANGED vars
    BY <2>1, <2>4 DEF Over, vars, ending, Promise!vars
  <2> QED
    BY <1>3, <2>2, <2>3, <2>4
<1> QED
  BY <1>1, <1>2, <1>3, <1>4, <1>5, FrameControl

(* A run keeps the promise about steering: whatever the agent, its         *)
(* providers, its tools and a canceller do, what a sender can see is a     *)
(* behaviour of SteeringPromise.                                           *)
THEOREM RunKeepsThePromise == Spec => SteeringPromiseKept
<1>1. Init => Promise!Init
  BY PromiseInit
<1>2. TypeInv /\ SteeringInv /\ TypeInv' /\ SteeringInv' /\ [Next]_vars
        => [Promise!Next]_Promise!vars
  BY PromiseStep
<1> QED
  BY <1>1, <1>2, TypeInvariant, SteeringInvariant, PTL
     DEF Spec, SteeringPromiseKept, Promise!Spec
-----------------------------------------------------------------------------
(* The conversation the run writes.                                        *)
Chain(s) == \A i \in 1 .. Len(s) - 1 : Follows(s[i], s[i + 1])

(* The last message is a reply or one of its results, and the calls of     *)
(* that reply that are still pending are the ones it has no result for.    *)
LastIsPending ==
  /\ log # <<>>
  /\ log[Len(log)].role \in {"assistant", "tool"}
  /\ log[Len(log)].ref = steps
  /\ log[Len(log)].of = Len(calls)
  /\ log[Len(log)].at = next - 1

TranscriptInv ==
  /\ Chain(log)
  /\ log # <<>> => log[1].role = "user"
  /\ pc \in {"session_start", "prompt"} => log = <<>>
  /\ pc \notin {"session_start", "prompt", "returned", "done"} => log # <<>>
  /\ next <= Len(calls) => LastIsPending
  /\ next > Len(calls) /\ log # <<>> => Closed(log[Len(log)])
  /\ \/ pc \in {"session_start", "prompt", "compacting", "asking", "done"}
     \/ pc = "driver" /\ effect # "run_tools"
     => next > Len(calls)

-----------------------------------------------------------------------------
(* Adding at the end of a chain.                                           *)
LEMMA ChainAppend ==
  ASSUME NEW s \in Seq(Message), Chain(s), NEW m \in Message,
         s # <<>> => Follows(s[Len(s)], m)
  PROVE  /\ Chain(Append(s, m))
         /\ Append(s, m) \in Seq(Message) /\ Append(s, m) # <<>>
         /\ Append(s, m)[Len(Append(s, m))] = m
         /\ s # <<>> => Append(s, m)[1] = s[1]
<1> DEFINE t == Append(s, m)
<1>1. /\ t \in Seq(Message) /\ Len(t) = Len(s) + 1 /\ Len(s) \in Nat
      /\ \A i \in 1 .. Len(s) : t[i] = s[i]
      /\ t[Len(s) + 1] = m
  BY AppendProperties, LenProperties
<1>2. s # <<>> <=> Len(s) > 0
  BY <1>1, EmptySeq
<1>3. t # <<>>
  BY <1>1, EmptySeq
<1> HIDE DEF t
<1>4. ASSUME NEW i \in 1 .. Len(t) - 1 PROVE Follows(t[i], t[i + 1])
  <2>1. CASE i < Len(s)
    BY <1>1, <2>1 DEF Chain
  <2>2. CASE i = Len(s)
    BY <1>1, <1>2, <2>2
  <2> QED
    BY <1>1, <2>1, <2>2
<1>5. s # <<>> => t[1] = s[1]
  BY <1>1, <1>2
<1> QED
  BY <1>1, <1>3, <1>4, <1>5 DEF t, Chain

LEMMA ChainConcat ==
  ASSUME NEW s \in Seq(Message), Chain(s), NEW n \in Nat,
         NEW f \in [1 .. n -> Message], Chain(f),
         s # <<>> /\ n > 0 => Follows(s[Len(s)], f[1])
  PROVE  /\ Chain(s \o f)
         /\ s \o f \in Seq(Message)
         /\ n = 0 => s \o f = s
         /\ n > 0 => s \o f # <<>> /\ (s \o f)[Len(s \o f)] = f[n]
         /\ s # <<>> => s \o f # <<>> /\ (s \o f)[1] = s[1]
<1> DEFINE t == s \o f
<1>0. f \in Seq(Message) /\ Len(f) = n
  BY TableIsSeq
<1>1. /\ t \in Seq(Message) /\ Len(t) = Len(s) + n /\ Len(s) \in Nat
      /\ \A i \in 1 .. Len(t) : t[i] = IF i <= Len(s) THEN s[i] ELSE f[i - Len(s)]
  BY <1>0, ConcatProperties, LenProperties
<1>2. s # <<>> <=> Len(s) > 0
  BY <1>1, EmptySeq
<1>3. t # <<>> <=> Len(t) > 0
  BY <1>1, EmptySeq
<1> HIDE DEF t
<1>4. ASSUME NEW i \in 1 .. Len(t) - 1 PROVE Follows(t[i], t[i + 1])
  <2>1. CASE i < Len(s)
    BY <1>1, <2>1 DEF Chain
  <2>2. CASE i = Len(s)
    <3>1. t[i] = s[Len(s)] /\ t[i + 1] = f[1] /\ n > 0
      BY <1>1, <2>2
    <3> QED
      BY <1>1, <1>2, <2>2, <3>1
  <2>3. CASE i > Len(s)
    <3>1. t[i] = f[i - Len(s)] /\ t[i + 1] = f[(i - Len(s)) + 1]
      BY <1>1, <2>3, SMTT(30)
    <3>2. i - Len(s) \in 1 .. Len(f) - 1
      BY <1>0, <1>1, <2>3
    <3> QED
      BY <3>1, <3>2 DEF Chain
  <2> QED
    BY <1>1, <2>1, <2>2, <2>3
<1>5. n = 0 => t = s
  <2> SUFFICES ASSUME n = 0 PROVE t = s
    OBVIOUS
  <2>1. \A i \in 1 .. Len(s) : t[i] = s[i]
    BY <1>1
  <2> QED
    BY <1>1, <2>1, SeqEqual
<1>6. n > 0 => t # <<>> /\ t[Len(t)] = f[n]
  BY <1>1, <1>3
<1>7. s # <<>> => t # <<>> /\ t[1] = s[1]
  BY <1>1, <1>2, <1>3
<1> QED
  BY <1>1, <1>4, <1>5, <1>6, <1>7 DEF t, Chain
-----------------------------------------------------------------------------
LEMMA TranscriptInit == Init => TranscriptInv
<1> SUFFICES ASSUME Init PROVE TranscriptInv
  OBVIOUS
<1>1. log = <<>> /\ Len(log) = 0 /\ calls = <<>> /\ Len(calls) = 0 /\ next = 1
  BY EmptySeqTyped DEF Init
<1> QED
  BY <1>1 DEF Init, TranscriptInv, Chain

(* The actions that neither write to the log nor change what is pending.   *)
LEMMA TranscriptFrame ==
  ASSUME [Next]_vars
  PROVE  \/ UNCHANGED <<log, calls, next, steps>>
         \/ Prompt \/ Compacted \/ (\E made \in Made : Replied(made))
         \/ TakeSteering \/ RecordResult \/ Return
BY DEF Next, Proceed, Answer, Over, vars, turn, tools, DriverStops, SendRequest,
       ContextTooLarge, StartCompaction, Finish, Pause, RunTools, NextBatch,
       ToolsDone, StartCall, StartBatch, BatchReturned, BatchRecorded,
       CloseInbox, Interrupt, SessionStarted, SessionEnded, CompactionFailed,
       ProviderFailed, Admit, Refuse, ToolReturned, Control

LEMMA TranscriptStep ==
  ASSUME TypeInv, TranscriptInv, [Next]_vars
  PROVE  TranscriptInv'
<1>0. /\ TypeOK /\ log \in Seq(Message) /\ queue \in Seq(Nat)
      /\ Len(calls) \in 0 .. MaxCalls /\ next \in 1 .. Len(calls) + 1
      /\ MaxCalls \in Nat /\ Len(log) \in Nat
  BY MaxCallsAssumption, LenProperties
     DEF TypeInv, TypeOK, LogTypeOK, ControlTypeOK, ToolsTypeOK
<1>1. CASE UNCHANGED <<log, calls, next, steps>>
  <2>1. /\ Chain(log') /\ (log' # <<>> => log'[1].role = "user")
        /\ next' <= Len(calls') => LastIsPending'
        /\ next' > Len(calls') /\ log' # <<>> => Closed(log'[Len(log')])
    BY <1>1 DEF TranscriptInv, LastIsPending
  <2>2. pc' \in {"session_start", "prompt"} => pc \in {"session_start", "prompt"}
    BY <1>1 DEF Next, Proceed, Answer, Leave, Prompt, DriverStops, vars,
       SendRequest, ContextTooLarge, StartCompaction, Finish, Pause, RunTools,
       NextBatch, ToolsDone, StartCall, StartBatch, BatchReturned, BatchRecorded,
       RecordResult, Interrupt, SessionStarted, SessionEnded, Compacted, MayDrive,
       CompactionFailed, Replied, ProviderFailed, Admit, Refuse, ToolReturned,
       TakeSteering, CloseInbox, Return, Control, Over
  <2>3. pc' \notin {"session_start", "prompt", "returned", "done"} =>
          \/ pc \notin {"session_start", "prompt", "returned", "done"}
          \/ Prompt
    BY <1>1 DEF Next, Proceed, Answer, Leave, DriverStops, vars,
       SendRequest, ContextTooLarge, StartCompaction, Finish, Pause, RunTools,
       NextBatch, ToolsDone, StartCall, StartBatch, BatchReturned, BatchRecorded,
       RecordResult, Interrupt, SessionStarted, SessionEnded, Compacted, MayDrive,
       CompactionFailed, Replied, ProviderFailed, Admit, Refuse, ToolReturned,
       TakeSteering, CloseInbox, Return, Control, Over
  <2>4. \/ pc' \in {"session_start", "prompt", "compacting", "asking", "done"}
        \/ pc' = "driver" /\ effect' # "run_tools"
        => \/ pc \in {"session_start", "prompt", "compacting", "asking", "done"}
           \/ pc = "driver" /\ effect # "run_tools"
           \/ next > Len(calls)
           \/ Return \/ (\E made \in Made : Replied(made))
    BY <1>1 DEF Next, Proceed, Answer, Leave, Prompt, DriverStops, vars, turn,
       SendRequest, ContextTooLarge, StartCompaction, Finish, Pause, RunTools,
       NextBatch, ToolsDone, StartCall, StartBatch, BatchReturned, BatchRecorded,
       RecordResult, Interrupt, SessionStarted, SessionEnded, Compacted, MayDrive,
       CompactionFailed, ProviderFailed, Admit, Refuse, ToolReturned,
       TakeSteering, CloseInbox, Control, Over
  <2>5. CASE ~Prompt /\ ~Return /\ ~(\E made \in Made : Replied(made))
    BY <1>1, <2>1, <2>2, <2>3, <2>4, <2>5 DEF TranscriptInv
  <2>6. ~Prompt \/ pc' = "returned"
    <3>1. ASSUME Prompt, log' = Append(log, Said("user", 0)) PROVE FALSE
      BY <1>0, <1>1, <3>1, AppendProperties, MessagesAreTyped
    <3> QED
      BY <3>1 DEF Prompt
  <2>7. ~(\E made \in Made : Replied(made))
    <3>1. ASSUME NEW made \in Made, Replied(made) PROVE FALSE
      <4>1. Reply(Len(made)) \in Message
        BY <1>0, MadeTyped, MessagesAreTyped
      <4> QED
        BY <1>0, <1>1, <3>1, <4>1, AppendProperties DEF Replied
    <3> QED
      BY <3>1
  <2>8. Return => next > Len(calls)
    BY <1>0, <1>1 DEF Return
  <2>9. Return => pc' = "done"
    BY DEF Return
  <2> QED
    BY <1>1, <2>1, <2>2, <2>3, <2>4, <2>6, <2>7, <2>8, <2>9 DEF TranscriptInv
<1>2. CASE Prompt /\ log' # log
  <2>1. /\ log' = Append(log, Said("user", 0)) /\ pc' = "driver" /\ log = <<>>
        /\ UNCHANGED <<calls, next>> /\ next > Len(calls)
        /\ effect' # "run_tools"
    BY <1>2 DEF Prompt, TranscriptInv, tools, Ask
  <2>2. Said("user", 0) \in Message /\ Closed(Said("user", 0))
    BY <1>0, MessagesAreTyped DEF Said, Closed
  <2>3. /\ Chain(log') /\ log' # <<>> /\ log'[Len(log')] = Said("user", 0)
    BY <1>0, <2>1, <2>2, ChainAppend DEF TranscriptInv
  <2>4. log'[1].role = "user"
    BY <2>1, <2>2, AppendProperties, EmptySeqTyped DEF Said
  <2> QED
    BY <1>0, <2>1, <2>2, <2>3, <2>4 DEF TranscriptInv
<1>3. CASE Compacted /\ log' # log
  <2>1. /\ log' = Append(log, Said("system", 0)) /\ pc' \in {"asking", "closing"}
        /\ UNCHANGED <<calls, next>> /\ next > Len(calls) /\ log # <<>>
        /\ log[1].role = "user" /\ Closed(log[Len(log)])
    BY <1>3 DEF Compacted, TranscriptInv, tools, Leave
  <2>2. /\ Said("system", 0) \in Message /\ Closed(Said("system", 0))
        /\ Follows(log[Len(log)], Said("system", 0))
    BY <1>0, <2>1, MessagesAreTyped DEF Said, Closed, Follows
  <2>3. /\ Chain(log') /\ log' # <<>> /\ log'[Len(log')] = Said("system", 0)
        /\ log'[1] = log[1]
    BY <1>0, <2>1, <2>2, ChainAppend DEF TranscriptInv
  <2> QED
    BY <1>0, <2>1, <2>2, <2>3 DEF TranscriptInv
<1>4. ASSUME NEW made \in Made, Replied(made) PROVE TranscriptInv'
  <2> DEFINE r == Reply(Len(made))
  <2>1. /\ log' = Append(log, r) /\ pc = "asking" /\ pc' = "driver"
        /\ calls' = made /\ next' = 1 /\ steps' = steps
        /\ next > Len(calls) /\ log # <<>> /\ log[1].role = "user"
        /\ Closed(log[Len(log)])
    BY <1>4 DEF Replied, StepReplied, TranscriptInv
  <2>2. Len(made) \in 0 .. MaxCalls
    BY MadeTyped
  <2>3. r \in Message /\ Follows(log[Len(log)], r)
    BY <1>0, <2>1, <2>2, MessagesAreTyped DEF Reply, Follows
  <2>4. Chain(log') /\ log' # <<>> /\ log'[Len(log')] = r /\ log'[1] = log[1]
    BY <1>0, <2>1, <2>3, ChainAppend DEF TranscriptInv
  <2>5. Len(made) = 0 => Closed(r)
    BY DEF Reply, Closed
  <2>6. next' <= Len(calls') => LastIsPending'
    BY <2>1, <2>2, <2>4 DEF LastIsPending, Reply
  <2>7. effect' # "run_tools" => Len(made) = 0
    BY <1>4, <2>2 DEF Replied, StepReplied
  <2>8. next' > Len(calls') <=> Len(made) = 0
    BY <1>0, <2>1, <2>2
  <2> QED
    BY <2>1, <2>4, <2>5, <2>6, <2>7, <2>8 DEF TranscriptInv
<1>5. CASE TakeSteering
  <2> DEFINE f == [i \in 1 .. Len(queue) |-> Said("user", queue[i])]
  <2>1. /\ log' = log \o f /\ pc = "driver" /\ pc' = "driver"
        /\ UNCHANGED <<calls, next>> /\ effect = "drain" /\ effect' # "run_tools"
    BY <1>5 DEF TakeSteering, MayDrive, StepSteered, Ask, tools
  <2>2. /\ next > Len(calls) /\ log # <<>> /\ log[1].role = "user"
        /\ Closed(log[Len(log)])
    BY <2>1 DEF TranscriptInv
  <2>3. Len(queue) \in Nat /\ \A i \in 1 .. Len(queue) : queue[i] \in Nat
    BY <1>0, LenProperties, ElementOfSeq
  <2>4. f \in [1 .. Len(queue) -> Message]
    BY <1>0, <2>3, MessagesAreTyped
  <2>5. \A i \in 1 .. Len(queue) : f[i].role = "user" /\ Closed(f[i])
    BY DEF Said, Closed
  <2>6. Len(f) = Len(queue)
    BY <2>3, <2>4, TableIsSeq
  <2> HIDE DEF f
  <2>7. Chain(f)
    BY <2>3, <2>5, <2>6 DEF Chain, Follows
  <2>8. Len(queue) > 0 => Follows(log[Len(log)], f[1])
    BY <2>2, <2>3, <2>5 DEF Follows
  <2>9. /\ Chain(log') /\ log' # <<>> /\ log'[1] = log[1]
        /\ Len(queue) = 0 => log' = log
        /\ Len(queue) > 0 => log'[Len(log')] = f[Len(queue)]
    BY <1>0, <2>1, <2>2, <2>3, <2>4, <2>7, <2>8, ChainConcat DEF TranscriptInv
  <2>10. Closed(log'[Len(log')])
    BY <2>2, <2>3, <2>5, <2>9
  <2> QED
    BY <1>0, <2>1, <2>2, <2>9, <2>10 DEF TranscriptInv
<1>6. CASE RecordResult
  <2> DEFINE r == ToolResult(next, finished[next])
  <2>1. /\ log' = Append(log, r) /\ next' = next + 1 /\ pc' = pc /\ pc = "recording"
        /\ UNCHANGED <<calls, steps>> /\ next <= Len(calls) /\ finished[next] \in Texts
    BY <1>0, <1>6 DEF RecordResult, TypeInv, TypeOK, ToolsTypeOK, BatchInv, InBatch, turn, Place
  <2>2. LastIsPending /\ log[1].role = "user"
    BY <1>0, <2>1 DEF TranscriptInv, LastIsPending
  <2>3. next \in Place
    BY <1>0, <2>1 DEF Place
  <2>4. r \in Message /\ Follows(log[Len(log)], r)
    BY <1>0, <2>1, <2>2, <2>3, MessagesAreTyped DEF ToolResult, Follows, LastIsPending
  <2>5. Chain(log') /\ log' # <<>> /\ log'[Len(log')] = r /\ log'[1] = log[1]
    BY <1>0, <2>1, <2>2, <2>4, ChainAppend DEF TranscriptInv, LastIsPending
  <2>6. LastIsPending'
    <3>1. r.role = "tool" /\ r.ref = steps /\ r.of = Len(calls) /\ r.at = next
      BY DEF ToolResult
    <3>2. next' - 1 = next /\ steps' = steps /\ Len(calls') = Len(calls)
      BY <1>0, <2>1
    <3> HIDE DEF r
    <3> QED
      BY <2>5, <3>1, <3>2 DEF LastIsPending
  <2>7. next' > Len(calls') => Closed(r)
    BY <1>0, <2>1 DEF ToolResult, Closed
  <2> QED
    BY <2>1, <2>2, <2>5, <2>6, <2>7 DEF TranscriptInv
<1>7. CASE Return
  <2> DEFINE n == Len(calls) - next + 1
  <2>1. /\ log' = log \o Owed /\ next' = Len(calls) + 1 /\ calls' = calls
        /\ pc' = "done"
    BY <1>7 DEF Return
  <2>2. n \in Nat /\ \A i \in 1 .. n : next + i - 1 \in Place
    BY <1>0 DEF Place
  <2>3. \A k \in Place : Salvaged(k) \in Texts
    BY <1>0 DEF TypeOK, ToolsTypeOK, Salvaged, Texts
  <2>4. \A i \in 1 .. n : ToolResult(next + i - 1, Salvaged(next + i - 1)) \in Message
    BY <1>0, <2>2, <2>3, MessagesAreTyped
  <2>5. Owed \in [1 .. n -> Message]
    BY <2>4 DEF Owed
  <2>6. \A i \in 1 .. n : /\ Owed[i].role = "tool" /\ Owed[i].ref = steps
                          /\ Owed[i].at = next + i - 1 /\ Owed[i].of = Len(calls)
    BY DEF Owed, ToolResult
  <2>7. Len(Owed) = n
    BY <2>2, <2>5, TableIsSeq
  <2> HIDE DEF n
  <2>8. Chain(Owed)
    BY <1>0, <2>2, <2>6, <2>7, SMTT(30) DEF Chain, Follows
  <2>9. CASE n > 0
    <3>1. LastIsPending
      BY <1>0, <2>9 DEF TranscriptInv, n
    <3>2. Follows(log[Len(log)], Owed[1])
      BY <1>0, <2>2, <2>6, <2>9, <3>1 DEF Follows, LastIsPending
    <3>3. /\ Chain(log') /\ log' # <<>> /\ log'[Len(log')] = Owed[n] /\ log'[1] = log[1]
      BY <1>0, <2>1, <2>2, <2>5, <2>8, <2>9, <3>1, <3>2, ChainConcat
         DEF TranscriptInv, LastIsPending
    <3>4. Closed(log'[Len(log')])
      <4>1. n \in 1 .. n /\ next + n - 1 = Len(calls)
        BY <1>0, <2>2, <2>9 DEF n
      <4>2. Owed[n].at = Len(calls) /\ Owed[n].of = Len(calls)
        BY <2>6, <4>1
      <4> QED
        BY <3>3, <4>2 DEF Closed
    <3> QED
      BY <1>0, <2>1, <3>1, <3>3, <3>4 DEF TranscriptInv, LastIsPending
  <2>10. CASE n = 0
    <3>1. log' = log
      BY <1>0, <2>1, <2>2, <2>5, <2>8, <2>10, ChainConcat DEF TranscriptInv
    <3>2. next > Len(calls)
      BY <1>0, <2>10 DEF n
    <3> QED
      BY <1>0, <2>1, <3>1, <3>2 DEF TranscriptInv
  <2> QED
    BY <2>2, <2>9, <2>10
<1>8. CASE (Prompt \/ Compacted) /\ log' = log
  <2>1. \/ pc' = "returned" /\ UNCHANGED <<log, calls, next, steps>>
        \/ Compacted
    <3>1. ~(log' = Append(log, Said("user", 0)))
      BY <1>0, <1>8, AppendProperties, MessagesAreTyped
    <3> QED
      BY <1>8, <3>1 DEF Prompt, tools, turn
  <2> QED
    BY <1>1, <1>8, <2>1 DEF Compacted, tools, turn
<1> QED
  BY <1>1, <1>2, <1>3, <1>4, <1>5, <1>6, <1>7, <1>8, TranscriptFrame

LEMMA TranscriptInvariant == Spec => []TranscriptInv
<1>1. TypeInv /\ TranscriptInv /\ [Next]_vars => TranscriptInv'
  BY TranscriptStep
<1> QED
  BY <1>1, TranscriptInit, TypeInvariant, PTL DEF Spec

(* Whatever interrupts a run, the conversation it leaves is one a provider *)
(* accepts: every result directly follows its reply or the result before   *)
(* it, in the order the calls were made, and none is missing at the end.   *)
THEOREM TranscriptIsAccepted == Spec => []Transcript
<1>1. TranscriptInv => Transcript
  BY DEF TranscriptInv, Transcript, Chain
<1> QED
  BY <1>1, TranscriptInvariant, PTL

(* No request goes out while a call is unanswered.                         *)
THEOREM RequestsAreWhole == Spec => []RequestIsWhole
<1>1. TypeInv /\ TranscriptInv => RequestIsWhole
  <2> SUFFICES ASSUME TypeInv, TranscriptInv, pc \in {"asking", "compacting"}
               PROVE  next = Len(calls) + 1 /\ log # <<>> /\ Closed(log[Len(log)])
    BY DEF RequestIsWhole
  <2>1. next > Len(calls) /\ next \in 1 .. Len(calls) + 1 /\ Len(calls) \in Nat
    BY LenProperties DEF TranscriptInv, TypeInv, TypeOK, ToolsTypeOK
  <2> QED
    BY <2>1 DEF TranscriptInv
<1> QED
  BY <1>1, TypeInvariant, TranscriptInvariant, PTL
-----------------------------------------------------------------------------
(* Calls and their results.  A call that came to its end has one event,    *)
(* with the result that is kept for it; a pending one has none; and what a *)
(* reply's results in the log say is what the events of its calls said.    *)
(* No reply's results are in the log before the reply is.                  *)
Quiet == {"session_start", "prompt", "driver", "compacting", "asking", "batching"}
Unfinished(from) == \A k \in Place : k >= from => finished[k] = "none"

Ended == \A k \in Place : finished[k] # "none" =>
           k >= next /\ k <= Len(calls) /\ told[k] = <<finished[k]>>
Fresh == \A k \in Place : k >= next /\ finished[k] = "none" => told[k] = <<>>
ToldOnce == \A k \in Place : Len(told[k]) <= 1

KeptInv ==
  /\ Ended /\ Fresh /\ ToldOnce
  /\ pc \in Quiet => Unfinished(1)
  /\ pc \in {"admission", "admitting"} => Unfinished(next + admitted)
  /\ pc \in {"running", "recording"} => Unfinished(next + batch)
  /\ \A k \in running : finished[k] = "none"

(* What the event of a recorded call said is what its message says.        *)
SaysTheSame(m) == m.role = "tool" =>
  /\ m.at \in Place /\ m.ref <= steps
  /\ m.ref = steps => m.at < next /\ told[m.at] = <<m.text>>

RecordedInv ==
  /\ \A i \in 1 .. Len(log) : SaysTheSame(log[i])
  /\ pc \in {"compacting", "asking"} \/ (pc = "driver" /\ effect = "ask") =>
       \A i \in 1 .. Len(log) : log[i].role = "tool" => log[i].ref < steps

LEMMA SingletonText ==
  ASSUME NEW t \in Texts
  PROVE  Append(<<>>, t) = <<t>> /\ Len(<<t>>) = 1
OBVIOUS

LEMMA KeptStep ==
  ASSUME TypeInv, KeptInv, [Next]_vars
  PROVE  KeptInv'
<1>0. /\ Len(calls) \in 0 .. MaxCalls /\ next \in 1 .. Len(calls) + 1 /\ MaxCalls \in Nat
      /\ batch \in Nat /\ admitted \in Nat
      /\ finished \in [Place -> Texts \cup {"none"}] /\ told \in [Place -> Seq(Texts)]
      /\ BatchInv
  BY MaxCallsAssumption, LenProperties DEF TypeInv, TypeOK, ToolsTypeOK
<1>1. CASE \/ SessionStarted \/ Prompt \/ DriverStops \/ SendRequest
           \/ ContextTooLarge \/ StartCompaction \/ Compacted \/ CompactionFailed
           \/ ProviderFailed \/ TakeSteering \/ Finish \/ Pause \/ RunTools
           \/ ToolsDone \/ CloseInbox \/ SessionEnded
  <2>1. UNCHANGED <<calls, next, told, finished, running>>
    BY <1>1 DEF tools, SessionStarted, Prompt, DriverStops, SendRequest,
       ContextTooLarge, StartCompaction, Compacted, CompactionFailed,
       ProviderFailed, TakeSteering, Finish, Pause, RunTools, ToolsDone,
       CloseInbox, SessionEnded
  <2>2. /\ pc' \in Quiet => pc \in Quiet
        /\ pc' \notin {"admission", "admitting", "running", "recording"}
    BY <1>1 DEF Quiet, Leave, MayDrive, SessionStarted, Prompt, DriverStops, SendRequest,
       ContextTooLarge, StartCompaction, Compacted, CompactionFailed,
       ProviderFailed, TakeSteering, Finish, Pause, RunTools, ToolsDone,
       CloseInbox, SessionEnded
  <2> QED
    BY <2>1, <2>2 DEF KeptInv, Ended, Fresh, ToldOnce, Unfinished
<1>2. CASE \/ NextBatch \/ StartBatch \/ BatchReturned \/ BatchRecorded
           \/ Control \/ Over \/ UNCHANGED vars
  <2>1. UNCHANGED <<calls, next, told, finished, running>>
    BY <1>2 DEF tools, NextBatch, StartBatch, BatchReturned, BatchRecorded, Control,
       Over, vars
  <2>2. CASE NextBatch
    <3>1. /\ pc' = "admission" /\ admitted' = 0 /\ Unfinished(1)
          /\ UNCHANGED <<calls, next, told, finished, running>>
      BY <2>1, <2>2 DEF NextBatch, KeptInv, Quiet
    <3>2. Unfinished(next + admitted)'
      BY <1>0, <3>1 DEF Unfinished, Place
    <3>3. Ended' /\ Fresh' /\ ToldOnce' /\ \A k \in running' : finished'[k] = "none"
      BY <3>1 DEF KeptInv, Ended, Fresh, ToldOnce
    <3> QED
      BY <3>1, <3>2, <3>3 DEF KeptInv, Quiet
  <2>3. CASE StartBatch
    BY <1>0, <2>1, <2>3 DEF StartBatch, tools, KeptInv, Ended, Fresh, ToldOnce, Unfinished, Quiet
  <2>4. CASE BatchReturned
    BY <1>0, <2>1, <2>4 DEF BatchReturned, tools, KeptInv, Ended, Fresh, ToldOnce, Unfinished, Quiet
  <2>5. CASE BatchRecorded
    <3>1. \A k \in Place : k >= 1 => finished[k] = "none"
      BY <1>0, <2>5 DEF BatchRecorded, KeptInv, Ended, Fresh, ToldOnce, Unfinished, Place
    <3> QED
      BY <2>1, <2>5, <3>1 DEF BatchRecorded, Leave, tools, KeptInv, Ended, Fresh, ToldOnce, Unfinished, Quiet
  <2>6. CASE Control \/ Over \/ UNCHANGED vars
    <3>1. UNCHANGED <<pc, batch, admitted>>
      BY <2>6 DEF Control, Over, vars, tools
    <3> QED
      BY <2>1, <3>1 DEF KeptInv, Ended, Fresh, ToldOnce, Unfinished
  <2> QED
    BY <1>2, <2>2, <2>3, <2>4, <2>5, <2>6
<1>3. ASSUME NEW made \in Made, Replied(made) PROVE KeptInv'
  <2>1. \A k \in Place : finished[k] = "none"
    BY <1>0, <1>3 DEF Replied, KeptInv, Ended, Fresh, ToldOnce, Unfinished, Quiet, Place
  <2>2. /\ pc' = "driver" /\ finished' = finished /\ running' = running
        /\ \A k \in Place : told'[k] = <<>>
    BY <1>3 DEF Replied, NothingTold
  <2> QED
    BY <2>1, <2>2, EmptySeqTyped DEF KeptInv, Ended, Fresh, ToldOnce, Unfinished
<1>4. CASE StartCall \/ Interrupt
  <2>1. /\ UNCHANGED <<calls, next, told, finished, batch, admitted>>
        /\ running' \in {running, {}}
        /\ \/ pc' \notin Quiet \cup {"admission", "admitting", "running", "recording"}
           \/ pc = "admission" /\ pc' = "admitting"
    BY <1>4 DEF StartCall, Interrupt, Leave, Quiet
  <2> QED
    BY <2>1 DEF KeptInv, Ended, Fresh, ToldOnce, Unfinished, Quiet
<1>5. CASE Admit
  <2>1. Candidate \in Place => finished[Candidate] = "none"
    BY <1>0, <1>5 DEF Admit, Candidate, KeptInv, Ended, Fresh, ToldOnce, Unfinished
  <2>2. Candidate \in Place
    BY <1>0, <1>5 DEF Admit, Candidate, BatchInv, InBatch, Place
  <2>3. /\ UNCHANGED <<calls, next, told, finished, batch>>
        /\ running' = running \cup {Candidate} /\ pc' = "admission"
        /\ admitted' = admitted + 1 /\ Unfinished(next + admitted)
    BY <1>5 DEF Admit, KeptInv, Ended, Fresh, ToldOnce
  <2>4. Unfinished(next + admitted + 1)
    BY <1>0, <2>3 DEF Unfinished, Place
  <2> QED
    BY <1>0, <2>1, <2>2, <2>3, <2>4 DEF KeptInv, Ended, Fresh, ToldOnce, Quiet, Unfinished
<1>6. ASSUME NEW k \in Place, NEW text \in Texts, FinishCall(k, text),
             finished[k] = "none", k >= next, k <= Len(calls),
             UNCHANGED <<calls, next>>
      PROVE  /\ Ended' /\ Fresh' /\ ToldOnce'
             /\ \A c \in Place \ {k} : finished'[c] = finished[c]
  <2>1. told[k] = <<>>
    BY <1>6 DEF KeptInv, Ended, Fresh, ToldOnce
  <2>2. finished'[k] = text /\ told'[k] = <<text>> /\ Len(told'[k]) = 1 /\ text # "none"
    BY <1>0, <1>6, <2>1, SingletonText DEF FinishCall, Texts
  <2>3. \A c \in Place \ {k} : finished'[c] = finished[c] /\ told'[c] = told[c]
    BY <1>0, <1>6 DEF FinishCall
  <2>4. /\ finished'[k] # "none" => k >= next' /\ k <= Len(calls') /\ told'[k] = <<finished'[k]>>
        /\ k >= next' /\ finished'[k] = "none" => told'[k] = <<>>
        /\ Len(told'[k]) <= 1
    <3>1. k >= next' /\ k <= Len(calls') /\ finished'[k] # "none" /\ Len(told'[k]) <= 1
      BY <1>6, <2>2
    <3>2. told'[k] = <<finished'[k]>>
      BY <2>2
    <3> QED
      BY <3>1, <3>2
  <2>5. ASSUME NEW c \in Place \ {k}
        PROVE  /\ finished'[c] # "none" =>
                  c >= next' /\ c <= Len(calls') /\ told'[c] = <<finished'[c]>>
               /\ c >= next' /\ finished'[c] = "none" => told'[c] = <<>>
               /\ Len(told'[c]) <= 1
    <3>1. UNCHANGED <<calls, next>> /\ finished'[c] = finished[c] /\ told'[c] = told[c]
      BY <1>6, <2>3
    <3> QED
      BY <3>1 DEF KeptInv, Ended, Fresh, ToldOnce
  <2> QED
    BY <2>3, <2>4, <2>5, Zenon DEF Ended, Fresh, ToldOnce
<1>7. CASE Refuse
  <2>1. Candidate \in Place /\ Candidate >= next /\ Candidate <= Len(calls)
    BY <1>0, <1>7 DEF Refuse, Candidate, BatchInv, InBatch, Place
  <2>2. /\ FinishCall(Candidate, "refused") /\ finished[Candidate] = "none"
        /\ UNCHANGED <<calls, next, batch, running>> /\ pc' = "admission"
        /\ admitted' = admitted + 1 /\ Unfinished(next + admitted)
    BY <1>0, <1>7, <2>1 DEF Refuse, Candidate, KeptInv, Ended, Fresh, ToldOnce, Unfinished
  <2>a. /\ Ended' /\ Fresh' /\ ToldOnce'
        /\ \A c \in Place \ {Candidate} : finished'[c] = finished[c]
    BY <1>6, <2>1, <2>2 DEF Texts
  <2>3. Unfinished(next + admitted)'
    BY <1>0, <2>a, <2>1, <2>2 DEF Unfinished, Candidate, Place
  <2>4. running \subseteq Place \ {Candidate}
    BY <1>0, <1>7, <2>1 DEF Refuse, Candidate, BatchInv, Place
  <2>5. \A c \in running' : finished'[c] = "none"
    BY <2>a, <2>2, <2>4 DEF KeptInv
  <2> QED
    BY <2>a, <2>2, <2>3, <2>5 DEF KeptInv, Quiet
<1>8. ASSUME NEW k \in Place, ToolReturned(k) PROVE KeptInv'
  <2>1. k \in running /\ k >= next /\ k <= Len(calls) /\ finished[k] = "none"
        /\ k <= next + batch - 1
    BY <1>0, <1>8 DEF ToolReturned, BatchInv, InBatch, KeptInv, Ended, Fresh, ToldOnce
  <2>2. /\ FinishCall(k, "ran") /\ running' = running \ {k}
        /\ UNCHANGED <<calls, next, batch, pc>> /\ pc = "running" /\ Unfinished(next + batch)
    BY <1>8 DEF ToolReturned, KeptInv, Ended, Fresh, ToldOnce
  <2>a. /\ Ended' /\ Fresh' /\ ToldOnce'
        /\ \A c \in Place \ {k} : finished'[c] = finished[c]
    BY <1>6, <2>1, <2>2 DEF Texts
  <2>3. Unfinished(next + batch)'
    BY <1>0, <2>a, <2>1, <2>2 DEF Unfinished, Place
  <2>4. running \subseteq Place
    BY <1>0, <2>2 DEF BatchInv, TypeInv, TypeOK, ToolsTypeOK
  <2>5. \A c \in running' : finished'[c] = "none"
    BY <2>a, <2>2, <2>4 DEF KeptInv
  <2> QED
    BY <2>a, <2>2, <2>3, <2>5 DEF KeptInv, Quiet
<1>9. CASE RecordResult
  <2>1. /\ UNCHANGED <<calls, told, running, pc>> /\ pc = "recording"
        /\ next' = next + 1 /\ batch' = batch - 1 /\ batch > 0
        /\ finished' = [finished EXCEPT ![next] = "none"]
    BY <1>9 DEF RecordResult
  <2>2. next' + batch' = next + batch
    BY <1>0, <2>1
  <2>3. \A k \in Place : k # next => finished'[k] = finished[k]
    BY <1>0, <2>1
  <2>4. \A k \in Place : k = next => finished'[k] = "none"
    BY <1>0, <2>1
  <2> QED
    BY <1>0, <2>1, <2>2, <2>3, <2>4 DEF KeptInv, Ended, Fresh, ToldOnce, Quiet, Unfinished, Place
<1>10. CASE Return
  <2>1. /\ pc' = "done" /\ \A k \in Place : finished'[k] = "none"
        /\ next' = Len(calls) + 1 /\ UNCHANGED <<calls, running>>
        /\ \A k \in Place : told'[k] =
             IF k \in next .. Len(calls) /\ finished[k] = "none"
             THEN Append(told[k], "cancelled") ELSE told[k]
    BY <1>10 DEF Return, NoResults
  <2>2. \A k \in Place : k >= next' => finished[k] = "none" /\ told'[k] = told[k] /\ told[k] = <<>>
    BY <1>0, <2>1, SMTT(30) DEF KeptInv, Ended, Fresh, ToldOnce, Place
  <2>3. ASSUME NEW k \in Place PROVE Len(told'[k]) <= 1
    <3>1. CASE k \in next .. Len(calls) /\ finished[k] = "none"
      <4>1. told[k] = <<>>
        BY <1>0, <3>1 DEF KeptInv, Ended, Fresh, ToldOnce
      <4>2. told'[k] = <<"cancelled">>
        BY <2>1, <3>1, <4>1, SingletonText DEF Texts
      <4>3. Len(<<"cancelled">>) = 1
        OBVIOUS
      <4> QED
        BY <4>2, <4>3
    <3>2. CASE ~(k \in next .. Len(calls) /\ finished[k] = "none")
      BY <2>1, <3>2 DEF KeptInv, Ended, Fresh, ToldOnce
    <3> QED
      BY <3>1, <3>2
  <2>4. Ended' /\ Fresh' /\ ToldOnce'
    BY <2>1, <2>2, <2>3 DEF Ended, Fresh, ToldOnce
  <2>5. \A k \in running' : finished'[k] = "none"
    BY <2>1 DEF TypeInv, TypeOK, ToolsTypeOK
  <2> QED
    BY <2>1, <2>4, <2>5 DEF KeptInv, Quiet
<1> QED
  BY <1>1, <1>2, <1>3, <1>4, <1>5, <1>7, <1>8, <1>9, <1>10 DEF Next, Proceed, Answer

LEMMA KeptInvariant == Spec => []KeptInv
<1>1. Init => KeptInv
  <2> SUFFICES ASSUME Init PROVE KeptInv
    OBVIOUS
  <2>1. /\ \A k \in Place : finished[k] = "none" /\ told[k] = <<>>
        /\ pc \in {"session_start", "prompt"} /\ running = {}
    BY DEF Init, NoResults, NothingTold
  <2>2. Ended /\ Fresh /\ ToldOnce
    BY <2>1, EmptySeqTyped DEF Ended, Fresh, ToldOnce
  <2> QED
    BY <2>1, <2>2 DEF KeptInv, Unfinished
<1>2. TypeInv /\ KeptInv /\ [Next]_vars => KeptInv'
  BY KeptStep
<1> QED
  BY <1>1, <1>2, TypeInvariant, PTL DEF Spec

(* Only the prompt and steering lead to another step, and neither touches  *)
(* the calls of the last reply.                                            *)
LEMMA FrameSteps ==
  ASSUME [Next]_vars
  PROVE  \/ UNCHANGED steps
         \/ (Prompt \/ TakeSteering) /\ steps' = steps + 1 /\ UNCHANGED tools
BY DEF Next, Proceed, Answer, Over, vars, turn, Prompt, DriverStops, SendRequest,
       ContextTooLarge, StartCompaction, Finish, Pause, RunTools, NextBatch,
       ToolsDone, StartCall, StartBatch, BatchReturned, BatchRecorded,
       RecordResult, CloseInbox, Interrupt, Return, SessionStarted, SessionEnded,
       Compacted, CompactionFailed, Replied, StepReplied, ProviderFailed, Admit,
       Refuse, ToolReturned, Control, TakeSteering, StepSteered, Ask

(* What a result in the log says is not gone back on.                      *)
LEMMA SaidStays ==
  ASSUME TypeInv, KeptInv, [Next]_vars,
         NEW m \in Message, m.role = "tool", SaysTheSame(m),
         (\E made \in Made : Replied(made)) => m.ref < steps
  PROVE  /\ m.at \in Place /\ m.ref <= steps'
         /\ m.ref = steps' => m.at < next' /\ told'[m.at] = <<m.text>>
<1>0. /\ Len(calls) \in 0 .. MaxCalls /\ next \in 1 .. Len(calls) + 1 /\ MaxCalls \in Nat
      /\ batch \in Nat /\ admitted \in Nat /\ steps \in Nat /\ m.ref \in Nat
      /\ told \in [Place -> Seq(Texts)] /\ BatchInv
  BY MaxCallsAssumption, MaxStepsAssumption, LenProperties
     DEF TypeInv, TypeOK, ToolsTypeOK, TurnTypeOK, Message
<1>1. m.at \in Place /\ m.ref <= steps /\ (m.ref = steps => m.at < next /\ told[m.at] = <<m.text>>)
  BY DEF SaysTheSame
<1>2. CASE UNCHANGED tools
  BY <1>0, <1>1, <1>2, FrameSteps DEF tools
<1>3. CASE UNCHANGED steps /\ (NextBatch \/ StartCall \/ Admit \/ Interrupt)
  BY <1>1, <1>3 DEF NextBatch, StartCall, Admit, Interrupt
<1>4. CASE UNCHANGED steps /\ (\E made \in Made : Replied(made))
  BY <1>0, <1>1, <1>4
<1>5. CASE UNCHANGED steps /\ Refuse
  <2>1. next' = next /\ \A k \in Place : k < next => told'[k] = told[k]
    BY <1>0, <1>5 DEF Refuse, FinishCall, Candidate
  <2> QED
    BY <1>1, <1>5, <2>1
<1>6. ASSUME UNCHANGED steps, NEW k \in Place, ToolReturned(k)
      PROVE  /\ m.ref <= steps'
             /\ m.ref = steps' => m.at < next' /\ told'[m.at] = <<m.text>>
  <2>1. next' = next /\ \A c \in Place : c < next => told'[c] = told[c]
    BY <1>0, <1>6 DEF ToolReturned, FinishCall, BatchInv
  <2> QED
    BY <1>1, <1>6, <2>1
<1>7. CASE UNCHANGED steps /\ RecordResult
  BY <1>0, <1>1, <1>7 DEF RecordResult, Place
<1>8. CASE UNCHANGED steps /\ Return
  <2>1. next' >= next /\ \A c \in Place : c < next => told'[c] = told[c]
    BY <1>0, <1>8 DEF Return, Place
  <2>2. next' \in Nat
    BY <1>0, <1>8 DEF Return
  <2> QED
    BY <1>0, <1>1, <1>8, <2>1, <2>2 DEF Place
<1> QED
  BY <1>1, <1>2, <1>3, <1>4, <1>5, <1>6, <1>7, <1>8, FrameTools, FrameSteps

(* The results a step adds say what the events of their calls said.        *)
LEMMA ResultsAreSaid ==
  ASSUME TypeInv, KeptInv
  PROVE  /\ RecordResult => told'[next] = <<finished[next]>>
         /\ Return => \A i \in 1 .. Len(calls) - next + 1 :
                        told'[next + i - 1] = <<Salvaged(next + i - 1)>>
<1>0. /\ Len(calls) \in 0 .. MaxCalls /\ next \in 1 .. Len(calls) + 1 /\ MaxCalls \in Nat
      /\ batch \in Nat /\ BatchInv
  BY MaxCallsAssumption, LenProperties DEF TypeInv, TypeOK, ToolsTypeOK
<1>1. ASSUME RecordResult PROVE told'[next] = <<finished[next]>>
  <2>1. told' = told /\ finished[next] # "none" /\ next \in Place
    BY <1>0, <1>1 DEF RecordResult, BatchInv, InBatch, Place
  <2> QED
    BY <2>1 DEF KeptInv, Ended
<1>2. ASSUME Return, NEW k \in Place, k \in next .. Len(calls)
      PROVE  told'[k] = <<Salvaged(k)>>
  <2>1. CASE finished[k] = "none"
    <3>1. told[k] = <<>>
      BY <1>0, <1>2, <2>1 DEF KeptInv, Fresh
    <3>2. told'[k] = Append(<<>>, "cancelled") /\ Salvaged(k) = "cancelled"
      BY <1>2, <2>1, <3>1 DEF Return, Salvaged
    <3> QED
      BY <3>2, SingletonText DEF Texts
  <2>2. CASE finished[k] # "none"
    BY <1>2, <2>2 DEF Return, Salvaged, KeptInv, Ended
  <2> QED
    BY <2>1, <2>2
<1>3. ASSUME NEW i \in 1 .. Len(calls) - next + 1
      PROVE  next + i - 1 \in Place /\ next + i - 1 \in next .. Len(calls)
  BY <1>0 DEF Place
<1> QED
  BY <1>1, <1>2, <1>3
-----------------------------------------------------------------------------
(* The messages of a step: those there were, what is said by the prompt,   *)
(* the memory nudge, the model or the person, and results of calls.        *)
LEMMA WhatIsLogged ==
  ASSUME TypeInv, [Next]_vars
  PROVE  /\ Len(log) \in Nat /\ Len(log') \in Nat /\ Len(log) <= Len(log')
         /\ \A i \in 1 .. Len(log) : log'[i] = log[i]
         /\ \A i \in Len(log) + 1 .. Len(log') :
              \/ /\ ~RecordResult /\ ~Return /\ log'[i].role # "tool"
                 /\ IsSteering(log'[i]) => TakeSteering
              \/ RecordResult /\ log'[i] = ToolResult(next, finished[next])
              \/ Return /\ \E k \in 1 .. Len(calls) - next + 1 :
                             log'[i] = ToolResult(next + k - 1, Salvaged(next + k - 1))
<1> DEFINE Grown == /\ Len(log') \in Nat /\ Len(log) <= Len(log')
                    /\ \A i \in 1 .. Len(log) : log'[i] = log[i]
           New(i) == \/ /\ ~RecordResult /\ ~Return /\ log'[i].role # "tool"
                        /\ IsSteering(log'[i]) => TakeSteering
                     \/ RecordResult /\ log'[i] = ToolResult(next, finished[next])
                     \/ Return /\ \E k \in 1 .. Len(calls) - next + 1 :
                          log'[i] = ToolResult(next + k - 1, Salvaged(next + k - 1))
           Right == Grown /\ \A i \in Len(log) + 1 .. Len(log') : New(i)
<1>0. /\ TypeOK /\ log \in Seq(Message) /\ queue \in Seq(Nat) /\ Len(queue) \in Nat
      /\ Len(calls) \in 0 .. MaxCalls /\ next \in 1 .. Len(calls) + 1
      /\ MaxCalls \in Nat /\ Len(log) \in Nat
  BY MaxCallsAssumption, LenProperties
     DEF TypeInv, TypeOK, LogTypeOK, ControlTypeOK, ToolsTypeOK
<1>1. ASSUME NEW m \in Message, log' = Append(log, m)
      PROVE  Grown /\ \A i \in Len(log) + 1 .. Len(log') : log'[i] = m
  <2>1. Len(log') = Len(log) + 1
    BY <1>0, <1>1, AppendProperties
  <2> QED
    BY <1>0, <1>1, <2>1, AppendProperties
<1>2. ASSUME NEW n \in Nat, NEW f \in [1 .. n -> Message], log' = log \o f
      PROVE  Grown /\ \A i \in Len(log) + 1 .. Len(log') : \E k \in 1 .. n : log'[i] = f[k]
  <2>1. f \in Seq(Message) /\ Len(f) = n
    BY TableIsSeq
  <2>2. Len(log') = Len(log) + n
    BY <1>0, <1>2, <2>1, ConcatProperties
  <2>3. \A i \in 1 .. Len(log') : log'[i] = IF i <= Len(log) THEN log[i] ELSE f[i - Len(log)]
    BY <1>0, <1>2, <2>1, <2>2, ConcatProperties
  <2> QED
    BY <1>0, <2>2, <2>3
<1> SUFFICES Right
  BY <1>0
<1> HIDE DEF Grown
<1>3. CASE UNCHANGED log
  BY <1>0, <1>3 DEF Grown
<1>4. CASE Prompt \/ Compacted
  <2>1. \/ UNCHANGED log
        \/ log' = Append(log, Said("user", 0))
        \/ log' = Append(log, Said("system", 0))
    BY <1>4 DEF Prompt, Compacted
  <2>2. /\ Said("user", 0) \in Message /\ Said("system", 0) \in Message
        /\ Said("user", 0).role # "tool" /\ Said("system", 0).role # "tool"
        /\ ~IsSteering(Said("user", 0)) /\ ~IsSteering(Said("system", 0))
    BY <1>0, MessagesAreTyped DEF Said, IsSteering
  <2>3. pc # "recording" /\ pc # "returned"
    BY <1>4 DEF Prompt, Compacted
  <2>4. ~RecordResult /\ ~Return
    BY <2>3 DEF RecordResult, Return
  <2> QED
    BY <1>1, <1>3, <2>1, <2>2, <2>4
<1>5. ASSUME NEW made \in Made, Replied(made) PROVE Right
  <2>1. /\ Reply(Len(made)) \in Message /\ Reply(Len(made)).role # "tool"
        /\ ~IsSteering(Reply(Len(made)))
    BY <1>0, MadeTyped, MessagesAreTyped DEF Reply, IsSteering
  <2>2. log' = Append(log, Reply(Len(made))) /\ ~RecordResult /\ ~Return
    BY <1>5 DEF Replied, RecordResult, Return
  <2> QED
    BY <1>1, <2>1, <2>2
<1>6. CASE TakeSteering
  <2> DEFINE f == [k \in 1 .. Len(queue) |-> Said("user", queue[k])]
  <2>1. \A k \in 1 .. Len(queue) : queue[k] \in Nat
    BY <1>0, ElementOfSeq
  <2>2. f \in [1 .. Len(queue) -> Message] /\ \A k \in 1 .. Len(queue) : f[k].role # "tool"
    BY <1>0, <2>1, MessagesAreTyped DEF Said
  <2>3. log' = log \o f /\ ~RecordResult /\ ~Return
    BY <1>6 DEF TakeSteering, MayDrive, RecordResult, Return
  <2> HIDE DEF f
  <2>4. Grown /\ \A i \in Len(log) + 1 .. Len(log') :
                   \E k \in 1 .. Len(queue) : log'[i] = f[k]
    BY <1>0, <1>2, <2>2, <2>3
  <2> QED
    BY <1>6, <2>2, <2>3, <2>4
<1>7. CASE RecordResult
  <2>1. next \in Place /\ finished[next] \in Texts
    BY <1>0, <1>7 DEF TypeInv, TypeOK, ToolsTypeOK, BatchInv, InBatch, RecordResult, Place
  <2>2. ToolResult(next, finished[next]) \in Message
    BY <1>0, <2>1, MessagesAreTyped
  <2> QED
    BY <1>1, <1>7, <2>2 DEF RecordResult
<1>8. CASE Return
  <2> DEFINE n == Len(calls) - next + 1
  <2>1. n \in Nat /\ \A k \in 1 .. n : next + k - 1 \in Place
    BY <1>0 DEF Place
  <2>2. \A k \in Place : Salvaged(k) \in Texts
    BY <1>0 DEF TypeOK, ToolsTypeOK, Salvaged, Texts
  <2>3. \A k \in 1 .. n : ToolResult(next + k - 1, Salvaged(next + k - 1)) \in Message
    BY <1>0, <2>1, <2>2, MessagesAreTyped
  <2>4. /\ Owed \in [1 .. n -> Message]
        /\ \A k \in 1 .. n : Owed[k] = ToolResult(next + k - 1, Salvaged(next + k - 1))
    BY <2>3 DEF Owed
  <2>5. log' = log \o Owed
    BY <1>8 DEF Return
  <2>6. Grown /\ \A i \in Len(log) + 1 .. Len(log') : \E k \in 1 .. n : log'[i] = Owed[k]
    BY <1>2, <2>1, <2>4, <2>5
  <2> QED
    BY <1>8, <2>4, <2>6
<1> HIDE DEF Right
<1> QED
  BY <1>3, <1>4, <1>5, <1>6, <1>7, <1>8, FrameLog

LEMMA RecordedStep ==
  ASSUME TypeInv, KeptInv, RecordedInv, [Next]_vars
  PROVE  RecordedInv'
<1>0. /\ log \in Seq(Message) /\ Len(log) \in Nat /\ steps \in Nat
      /\ Len(calls) \in 0 .. MaxCalls /\ next \in 1 .. Len(calls) + 1 /\ MaxCalls \in Nat
      /\ batch \in Nat /\ BatchInv
  BY MaxCallsAssumption, MaxStepsAssumption, LenProperties
     DEF TypeInv, TypeOK, LogTypeOK, TurnTypeOK, ToolsTypeOK
<1> DEFINE Agrees(m) == /\ m.at \in Place /\ m.ref <= steps'
                        /\ m.ref = steps' => m.at < next' /\ told'[m.at] = <<m.text>>
<1>1. ASSUME NEW i \in 1 .. Len(log), log[i].role = "tool" PROVE Agrees(log[i])
  <2>1. log[i] \in Message /\ SaysTheSame(log[i])
    BY <1>0, ElementOfSeq DEF RecordedInv
  <2>2. (\E made \in Made : Replied(made)) => log[i].ref < steps
    BY <1>1 DEF Replied, RecordedInv
  <2> QED
    BY <1>1, <2>1, <2>2, SaidStays
<1>2. RecordResult => Agrees(ToolResult(next, finished[next]))
  <2> SUFFICES ASSUME RecordResult PROVE Agrees(ToolResult(next, finished[next]))
    OBVIOUS
  <2>1. next \in Place /\ next < next' /\ steps' = steps
    BY <1>0 DEF RecordResult, BatchInv, InBatch, Place, turn
  <2>2. told'[next] = <<finished[next]>>
    BY ResultsAreSaid
  <2> QED
    BY <1>0, <2>1, <2>2 DEF ToolResult
<1>3. ASSUME Return, NEW k \in 1 .. Len(calls) - next + 1
      PROVE  Agrees(ToolResult(next + k - 1, Salvaged(next + k - 1)))
  <2>1. next + k - 1 \in Place /\ next + k - 1 < next' /\ steps' = steps
    BY <1>0, <1>3 DEF Return, Place, turn
  <2>2. told'[next + k - 1] = <<Salvaged(next + k - 1)>>
    BY <1>3, ResultsAreSaid
  <2> QED
    BY <1>0, <2>1, <2>2 DEF ToolResult
<1>4. ASSUME NEW i \in 1 .. Len(log'), log'[i].role = "tool" PROVE Agrees(log'[i])
  <2> HIDE DEF Agrees
  <2>1. i \in 1 .. Len(log) \/ i \in Len(log) + 1 .. Len(log')
    BY <1>0, WhatIsLogged
  <2> QED
    BY <1>1, <1>2, <1>3, <1>4, <2>1, WhatIsLogged
<1>5. ASSUME pc' \in {"compacting", "asking"} \/ (pc' = "driver" /\ effect' = "ask"),
             NEW i \in 1 .. Len(log'), log'[i].role = "tool"
      PROVE  log'[i].ref < steps'
  <2>1. \/ steps' = steps + 1
        \/ /\ steps' = steps
           /\ pc \in {"compacting", "asking"} \/ (pc = "driver" /\ effect = "ask")
    BY <1>5 DEF Next, Proceed, Answer, Leave, MayDrive, vars, turn, Prompt, DriverStops,
       SendRequest, ContextTooLarge, StartCompaction, Finish, Pause, RunTools,
       NextBatch, ToolsDone, StartCall, StartBatch, BatchReturned, BatchRecorded,
       RecordResult, CloseInbox, Interrupt, Return, SessionStarted, SessionEnded,
       Compacted, CompactionFailed, Replied, StepReplied, ProviderFailed, Admit,
       Refuse, ToolReturned, Control, TakeSteering, StepSteered, Ask, Over
  <2>2. ~RecordResult /\ ~Return
    BY <1>5 DEF RecordResult, Return
  <2>3. i \in 1 .. Len(log) /\ log'[i] = log[i]
    <3>1. i \in 1 .. Len(log) \/ i \in Len(log) + 1 .. Len(log')
      BY <1>0, WhatIsLogged
    <3> QED
      BY <1>5, <2>2, <3>1, WhatIsLogged
  <2>4. log[i] \in Message /\ log[i].ref <= steps
    BY <1>0, <1>5, <2>3, ElementOfSeq DEF RecordedInv, SaysTheSame
  <2>6. log[i].ref \in Nat
    BY <2>4 DEF Message
  <2>5. steps' = steps => log[i].ref < steps
    BY <1>0, <1>5, <2>1, <2>3 DEF RecordedInv
  <2> QED
    BY <1>0, <2>1, <2>3, <2>4, <2>5, <2>6
<1> QED
  BY <1>4, <1>5 DEF RecordedInv, SaysTheSame

(* What is written down about a call is what its one event said.           *)
THEOREM EventsMatchTheLog == Spec => []ToldWhatIsRecorded
<1>1. Init => RecordedInv
  <2> SUFFICES ASSUME Init PROVE RecordedInv
    OBVIOUS
  <2>1. log = <<>> /\ Len(log) = 0
    BY EmptySeqTyped DEF Init
  <2> QED
    BY <2>1 DEF RecordedInv
<1>2. TypeInv /\ KeptInv /\ RecordedInv /\ [Next]_vars => RecordedInv'
  BY RecordedStep
<1>3. KeptInv /\ RecordedInv => ToldWhatIsRecorded
  BY DEF KeptInv, ToldOnce, RecordedInv, SaysTheSame, ToldWhatIsRecorded
<1> QED
  BY <1>1, <1>2, <1>3, TypeInvariant, KeptInvariant, PTL DEF Spec
-----------------------------------------------------------------------------
(* The numbers of the steering messages in the log go up, and they are     *)
(* those of the messages taken so far.                                     *)
OrderInv ==
  /\ \A i, j \in 1 .. Len(log) :
       i < j /\ IsSteering(log[i]) /\ IsSteering(log[j]) => log[i].ref < log[j].ref
  /\ \A i \in 1 .. Len(log) : IsSteering(log[i]) => log[i].ref \in 1 .. taken
  /\ \A n \in 1 .. taken : \E i \in 1 .. Len(log) : IsSteering(log[i]) /\ log[i].ref = n

(* A step that adds no steering leaves it as it is.                        *)
LEMMA OrderKept ==
  ASSUME TypeInv, OrderInv, [Next]_vars, ~TakeSteering
  PROVE  OrderInv'
<1>1. UNCHANGED taken
  BY FrameControl DEF control, CloseInbox, Return, Close, Control, Steering,
     CheckCancel, Accept, Reject, Cancel
<1>2. /\ Len(log) \in Nat /\ Len(log') \in Nat /\ Len(log) <= Len(log')
      /\ \A i \in 1 .. Len(log) : log'[i] = log[i]
  BY WhatIsLogged
<1>3. ASSUME NEW i \in Len(log) + 1 .. Len(log') PROVE ~IsSteering(log'[i])
  <2>1. \A m : m.role = "tool" => ~IsSteering(m)
    BY DEF IsSteering
  <2>2. \A k, t : ToolResult(k, t).role = "tool"
    BY DEF ToolResult
  <2> QED
    BY <1>3, <2>1, <2>2, WhatIsLogged
<1>4. \A i \in 1 .. Len(log') : IsSteering(log'[i]) => i \in 1 .. Len(log)
  BY <1>2, <1>3
<1>5. ASSUME NEW i \in 1 .. Len(log'), NEW j \in 1 .. Len(log'), i < j,
             IsSteering(log'[i]), IsSteering(log'[j])
      PROVE  log'[i].ref < log'[j].ref
  <2>1. /\ i \in 1 .. Len(log) /\ j \in 1 .. Len(log)
        /\ log'[i] = log[i] /\ log'[j] = log[j]
    BY <1>2, <1>4, <1>5
  <2>2. IsSteering(log[i]) /\ IsSteering(log[j])
    BY <1>5, <2>1
  <2> QED
    BY <1>5, <2>1, <2>2 DEF OrderInv
<1>6. ASSUME NEW i \in 1 .. Len(log'), IsSteering(log'[i]) PROVE log'[i].ref \in 1 .. taken'
  BY <1>1, <1>2, <1>4, <1>6 DEF OrderInv
<1>7. ASSUME NEW n \in 1 .. taken'
      PROVE  \E i \in 1 .. Len(log') : IsSteering(log'[i]) /\ log'[i].ref = n
  <2>1. PICK i \in 1 .. Len(log) : IsSteering(log[i]) /\ log[i].ref = n
    BY <1>1 DEF OrderInv
  <2>2. i \in 1 .. Len(log') /\ log'[i] = log[i]
    BY <1>2
  <2> QED
    BY <2>1, <2>2
<1> QED
  BY <1>5, <1>6, <1>7 DEF OrderInv, IsSteering

LEMMA OrderExtended ==
  ASSUME TypeInv, SteeringInv, OrderInv, TakeSteering
  PROVE  OrderInv'
<1>0. /\ TypeOK /\ log \in Seq(Message) /\ queue \in Seq(Nat) /\ Len(queue) \in Nat
      /\ Len(log) \in Nat /\ taken \in Nat /\ accepted \in Nat
  BY LenProperties DEF TypeInv, TypeOK, LogTypeOK, ControlTypeOK
<1> DEFINE q == Len(queue)
           f == [k \in 1 .. q |-> Said("user", queue[k])]
<1>1. open
  BY DEF TakeSteering, MayDrive, SteeringInv, LeftDriver
<1>2. q = accepted - taken /\ \A k \in 1 .. q : queue[k] = taken + k
  <2>1. queue = [i \in 1 .. accepted - taken |-> taken + i] /\ accepted - taken \in Nat
    BY <1>0, <1>1 DEF SteeringInv
  <2>2. Len(queue) = accepted - taken
    BY <1>0, <2>1, TableIsSeq
  <2> QED
    BY <2>1, <2>2
<1>3. taken' = taken + q /\ log' = log \o f
  BY DEF TakeSteering, Drain
<1>4. f \in Seq(Message) /\ Len(f) = q
  <2>1. f \in [1 .. q -> Message]
    BY <1>0, <1>2, MessagesAreTyped
  <2>2. q \in Nat
    BY <1>0
  <2> HIDE DEF f, q
  <2> QED
    BY <2>1, <2>2, TableIsSeq
<1>5. \A k \in 1 .. q : IsSteering(f[k]) /\ f[k].ref = taken + k
  BY <1>0, <1>2 DEF Said, IsSteering
<1> HIDE DEF f, q
<1>6. /\ Len(log') = Len(log) + q
      /\ \A i \in 1 .. Len(log') : log'[i] = IF i <= Len(log) THEN log[i] ELSE f[i - Len(log)]
  <2>1. Len(log') = Len(log) + q
    BY <1>0, <1>3, <1>4, ConcatProperties
  <2> QED
    BY <1>0, <1>3, <1>4, <2>1, ConcatProperties
<1>q. q \in Nat
  BY <1>0 DEF q
<1>7. /\ \A i \in 1 .. Len(log) : i \in 1 .. Len(log') /\ log'[i] = log[i]
      /\ \A i \in 1 .. Len(log') : i > Len(log) => log'[i].ref = taken + (i - Len(log))
  <2>1. ASSUME NEW i \in 1 .. Len(log'), i > Len(log)
        PROVE  log'[i].ref = taken + (i - Len(log))
    <3>1. i - Len(log) \in 1 .. q /\ log'[i] = f[i - Len(log)]
      BY <1>0, <1>q, <1>6, <2>1
    <3> QED
      BY <1>5, <3>1
  <2> QED
    BY <1>0, <1>q, <1>6, <2>1
<1>8. \A i \in 1 .. Len(log) : IsSteering(log[i]) => log[i].ref \in 1 .. taken
  BY DEF OrderInv
<1>9. ASSUME NEW i \in 1 .. Len(log'), NEW j \in 1 .. Len(log'), i < j,
             IsSteering(log'[i]), IsSteering(log'[j])
      PROVE  log'[i].ref < log'[j].ref
  <2>1. CASE j \in 1 .. Len(log)
    <3>1. i \in 1 .. Len(log) /\ log'[i] = log[i] /\ log'[j] = log[j]
      BY <1>0, <1>7, <1>9, <2>1
    <3>2. IsSteering(log[i]) /\ IsSteering(log[j])
      BY <1>9, <3>1
    <3> QED
      BY <1>9, <2>1, <3>1, <3>2 DEF OrderInv
  <2>2. CASE j > Len(log) /\ i \in 1 .. Len(log)
    <3>1. log'[i].ref \in 1 .. taken
      BY <1>0, <1>7, <1>8, <1>9, <2>2
    <3>2. log'[j].ref = taken + (j - Len(log))
      BY <1>0, <1>7, <2>2
    <3> QED
      BY <1>0, <2>2, <3>1, <3>2
  <2>3. CASE j > Len(log) /\ i > Len(log)
    <3>1. log'[i].ref = taken + (i - Len(log)) /\ log'[j].ref = taken + (j - Len(log))
      BY <1>0, <1>7, <2>3
    <3> QED
      BY <1>0, <1>9, <3>1
  <2> QED
    BY <1>0, <1>6, <1>q, <2>1, <2>2, <2>3
<1>10. ASSUME NEW i \in 1 .. Len(log'), IsSteering(log'[i])
       PROVE  log'[i].ref \in 1 .. taken'
  <2>1. CASE i \in 1 .. Len(log)
    <3>1. log'[i].ref \in 1 .. taken
      BY <1>0, <1>7, <1>8, <1>10, <2>1
    <3> QED
      BY <1>0, <1>3, <1>q, <3>1
  <2>2. CASE i > Len(log)
    <3>1. log'[i].ref = taken + (i - Len(log))
      BY <1>0, <1>7, <2>2
    <3> QED
      BY <1>0, <1>3, <1>6, <1>q, <2>2, <3>1
  <2> QED
    BY <1>0, <1>6, <1>q, <2>1, <2>2
<1>11. ASSUME NEW n \in 1 .. taken'
       PROVE  \E i \in 1 .. Len(log') : IsSteering(log'[i]) /\ log'[i].ref = n
  <2>1. CASE n <= taken
    <3>1. PICK i \in 1 .. Len(log) : IsSteering(log[i]) /\ log[i].ref = n
      BY <1>0, <2>1 DEF OrderInv
    <3>2. i \in 1 .. Len(log') /\ log'[i] = log[i]
      BY <1>0, <1>6, <1>q
    <3> QED
      BY <3>1, <3>2
  <2>2. CASE n > taken
    <3> DEFINE i == Len(log) + (n - taken)
    <3>1. i \in 1 .. Len(log') /\ i > Len(log) /\ n - taken \in 1 .. q /\ i - Len(log) = n - taken
      BY <1>0, <1>3, <1>6, <1>q, <2>2
    <3>2. log'[i] = f[n - taken]
      BY <1>0, <1>6, <3>1
    <3>3. IsSteering(log'[i]) /\ log'[i].ref = taken + (n - taken)
      BY <1>5, <3>1, <3>2
    <3> QED
      BY <1>0, <3>1, <3>3
  <2>3. n <= taken \/ n > taken
    BY <1>0, <1>3, <1>q
  <2> QED
    BY <2>1, <2>2, <2>3
<1> QED
  BY <1>9, <1>10, <1>11 DEF OrderInv, IsSteering

(* Steering reaches the conversation in the order it was accepted, once.   *)
THEOREM SteeringArrivesInOrder == Spec => []SteeringInOrder
<1>1. Init => OrderInv
  <2> SUFFICES ASSUME Init PROVE OrderInv
    OBVIOUS
  <2>1. Len(log) = 0 /\ taken = 0
    BY EmptySeqTyped DEF Init, ControlInit
  <2> QED
    BY <2>1 DEF OrderInv
<1>2. TypeInv /\ SteeringInv /\ OrderInv /\ [Next]_vars => OrderInv'
  BY OrderKept, OrderExtended
<1>3. TypeInv /\ SteeringInv /\ OrderInv => SteeringInOrder
  <2> SUFFICES ASSUME TypeInv, SteeringInv, OrderInv PROVE SteeringInOrder
    OBVIOUS
  <2>1. {log[i].ref : i \in {j \in 1 .. Len(log) : IsSteering(log[j])}} = 1 .. taken
    BY DEF OrderInv
  <2> QED
    BY <2>1 DEF OrderInv, SteeringInv, SteeringInOrder
<1> QED
  BY <1>1, <1>2, <1>3, TypeInvariant, SteeringInvariant, PTL DEF Spec
=============================================================================
