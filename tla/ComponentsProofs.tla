-------------------------- MODULE ComponentsProofs --------------------------
(***************************************************************************)
(* Proofs about the components that work beside a run, jobs and automatic  *)
(* attempts, and about all of the components of Components together.       *)
(***************************************************************************)
EXTENDS Components, KeptProofs, ConversationProofs

(* Jobs.                                                                   *)
JobTypes ==
  [runner : {"none", "waits", "wrote", "moved", "gone"}, command : {"none", "runs", "ended"},
   record : BOOLEAN, exit : BOOLEAN, stopped : BOOLEAN, signalled : BOOLEAN, reused : BOOLEAN,
   struck : BOOLEAN]
AnswerTypes ==
  [job : JobIds \union {"none"}, state : {"none", "stopped", "exited", "running", "lost"},
   past : BOOLEAN, gone : BOOLEAN]
CallTypes ==
  [step : {"idle", "save", "marker", "exit", "process", "kill", "mark"},
   job : JobIds \union {"none"}, todo : SUBSET JobIds, past : BOOLEAN, gone : BOOLEAN,
   answer : AnswerTypes]

Launched(table, j) == table[j].runner # "none"

(* A job whose table says so is over, and stays so.                        *)
EndSeen(job) == job.stopped \/ job.exit \/ job.runner = "gone"

GoodJob(job) ==
  /\ job.runner = "none" => ~job.record
  /\ job.runner \in {"wrote", "moved"} \/ job.exit => job.command = "ended"
  /\ job.stopped => job.signalled \/ job.struck
  /\ job.signalled => job.runner = "gone"
  /\ job.struck => job.reused
  /\ job.reused => job.runner = "gone"

(* A stop of the job has signalled a group.                                *)
Hit(job) == job.runner = "gone" /\ (job.signalled \/ (job.struck /\ job.reused))

AnswerFits(table, a) ==
  a.job # "none" =>
    /\ a.job \in JobIds /\ Launched(table, a.job)
    /\ a.state = "stopped" => Hit(table[a.job])
    /\ a.state = "exited" => table[a.job].exit
    /\ a.state = "lost" => table[a.job].runner = "gone" /\ ~(a.gone /\ table[a.job].exit)
    /\ a.past => JobOver(a.state)

(* What a status call has passed over it will not find again.              *)
CallFits(table, call) ==
  /\ AnswerFits(table, call.answer)
  /\ \A j \in call.todo : Launched(table, j)
  /\ call.step # "idle" => call.job \in JobIds /\ Launched(table, call.job)
  /\ call.step = "mark" => Hit(table[call.job])
  /\ call.step \in {"marker", "exit", "process"} /\ call.gone => table[call.job].runner = "gone"
  /\ call.step = "marker" /\ call.past => EndSeen(table[call.job])
  /\ call.step = "exit" /\ call.past => table[call.job].exit \/ table[call.job].runner = "gone"
  /\ call.step = "process" /\ call.past => table[call.job].runner = "gone"
  /\ call.step = "process" /\ call.gone => ~table[call.job].exit

JobsInv ==
  /\ jobs \in [JobIds -> JobTypes]
  /\ jobCalls \in [JobCallers -> CallTypes]
  /\ jobTold \subseteq JobIds
  /\ \A j \in JobIds : GoodJob(jobs[j])
  /\ \A c \in JobCallers : CallFits(jobs, jobCalls[c])
  /\ \A j \in jobTold : Launched(jobs, j) /\ EndSeen(jobs[j])

(* What happens to a job that was begun.                                   *)
GoesOn(before, after) ==
  before.runner # "none" =>
    /\ after.runner # "none"
    /\ before.stopped => after.stopped
    /\ before.exit => after.exit
    /\ before.signalled => after.signalled
    /\ before.struck => after.struck
    /\ before.reused => after.reused
    /\ before.runner = "gone" => after.runner = "gone" /\ after.exit = before.exit

LEMMA FitsOn ==
  ASSUME NEW before, NEW after, \A j \in JobIds : GoesOn(before[j], after[j]),
         NEW call \in CallTypes, CallFits(before, call)
  PROVE  CallFits(after, call)
<1>1. AnswerFits(after, call.answer)
  BY DEF CallFits, AnswerFits, GoesOn, Launched, Hit
<1>2. call.todo \subseteq JobIds
  BY DEF CallTypes
<1>3. call.step = "idle" \/ call.job \in JobIds
  BY DEF CallFits
<1> QED
  BY <1>1, <1>2, <1>3 DEF CallFits, GoesOn, Launched, EndSeen, Hit

LEMMA IdleCallFits ==
  /\ IdleCall \in CallTypes /\ IdleCall.step = "idle" /\ IdleCall.todo = {}
  /\ IdleCall.answer = NoAnswer /\ NoAnswer.job = "none"
  /\ \A table : CallFits(table, IdleCall)
<1>1. /\ IdleCall \in CallTypes /\ IdleCall.step = "idle" /\ IdleCall.todo = {}
      /\ IdleCall.answer = NoAnswer /\ NoAnswer.job = "none"
  BY DEF IdleCall, NoAnswer, CallTypes, AnswerTypes
<1> QED
  BY <1>1 DEF CallFits, AnswerFits

(* One job changed as jobs do, and perhaps one call.                       *)
LEMMA JobMoves ==
  ASSUME JobsInv, NEW j \in JobIds, NEW job \in JobTypes, JobChanges(j, job), GoodJob(job),
         GoesOn(jobs[j], job), UNCHANGED jobTold
  PROVE  /\ jobs' \in [JobIds -> JobTypes] /\ \A i \in JobIds : GoodJob(jobs'[i])
         /\ jobs'[j] = job
         /\ \A i \in JobIds : GoesOn(jobs[i], jobs'[i])
         /\ \A i \in jobTold' : Launched(jobs', i) /\ EndSeen(jobs'[i])
         /\ \A c \in JobCallers : CallFits(jobs', jobCalls[c])
<1>1. /\ jobs' \in [JobIds -> JobTypes] /\ jobs'[j] = job
      /\ \A i \in JobIds : i # j => jobs'[i] = jobs[i]
  BY DEF JobChanges, JobsInv
<1>2. \A i \in JobIds : GoesOn(jobs[i], jobs'[i])
  BY <1>1 DEF GoesOn
<1>3. \A i \in JobIds : GoodJob(jobs'[i])
  BY <1>1 DEF JobsInv
<1>4. \A i \in jobTold' : Launched(jobs', i) /\ EndSeen(jobs'[i])
  BY <1>2 DEF JobsInv, GoesOn, Launched, EndSeen
<1>5. \A c \in JobCallers : CallFits(jobs', jobCalls[c])
  BY <1>2, FitsOn DEF JobsInv
<1> QED
  BY <1>1, <1>2, <1>3, <1>4, <1>5

LEMMA CallMoves ==
  ASSUME JobsInv, NEW c \in JobCallers, NEW call \in CallTypes, JobCallBecomes(c, call),
         CallFits(jobs', call), \A d \in JobCallers : CallFits(jobs', jobCalls[d])
  PROVE  /\ jobCalls' \in [JobCallers -> CallTypes]
         /\ \A d \in JobCallers : CallFits(jobs', jobCalls'[d])
BY DEF JobCallBecomes, JobsInv

(* A status call turns to a job that was begun.                            *)
LEMMA AskingFits ==
  ASSUME JobsInv, NEW call \in CallTypes, NEW todo \in SUBSET JobIds, NEW j \in todo,
         NEW table, AnswerFits(table, call.answer), \A i \in todo : Launched(table, i),
         ~RunnerAlive(j) => table[j].runner = "gone",
         j \in jobTold => EndSeen(table[j])
  PROVE  Asking(call, j, todo) \in CallTypes /\ CallFits(table, Asking(call, j, todo))
<1> DEFINE a == Asking(call, j, todo)
<1>0. /\ (j \in jobTold) \in BOOLEAN /\ (~RunnerAlive(j)) \in BOOLEAN
      /\ todo \ {j} \in SUBSET JobIds /\ j \in JobIds
  OBVIOUS
<1>1. /\ a \in CallTypes /\ a.step = "marker" /\ a.job = j /\ a.todo = todo \ {j}
      /\ a.past = (j \in jobTold) /\ a.gone = ~RunnerAlive(j) /\ a.answer = call.answer
  BY <1>0 DEF Asking, CallTypes
<1> HIDE DEF a
<1> QED
  BY <1>1 DEF CallFits, a

LEMMA TellsFits ==
  ASSUME JobsInv, NEW c \in JobCallers, NEW state \in {"stopped", "exited", "running", "lost"},
         jobCalls[c].step # "idle", JobTells(c, state),
         LET j == jobCalls[c].job
         IN  /\ state = "stopped" => Hit(jobs[j]) /\ jobs[j].stopped
             /\ state = "exited" => jobs[j].exit
             /\ state = "lost" => jobs[j].runner = "gone" /\ ~(jobCalls[c].gone /\ jobs[j].exit)
             /\ jobCalls[c].past => JobOver(state)
  PROVE  JobsInv'
<1> DEFINE call == jobCalls[c]
           a == [job |-> call.job, state |-> state, past |-> call.past, gone |-> call.gone]
           heard == [call EXCEPT !.answer = a]
           over == [heard EXCEPT !.step = "idle", !.job = "none", !.past = FALSE, !.gone = FALSE]
<1>1. /\ call \in CallTypes /\ CallFits(jobs, call) /\ call.job \in JobIds
      /\ Launched(jobs, call.job) /\ UNCHANGED jobs
      /\ \A d \in JobCallers : CallFits(jobs', jobCalls[d])
  BY DEF JobsInv, CallFits, JobTells
<1>2. a \in AnswerTypes /\ AnswerFits(jobs, a)
  BY <1>1 DEF AnswerTypes, CallTypes, AnswerFits
<1>3. /\ heard \in CallTypes /\ heard.answer = a /\ heard.todo = call.todo
      /\ over \in CallTypes /\ over.answer = a /\ over.todo = call.todo /\ over.step = "idle"
  BY <1>1, <1>2 DEF CallTypes
<1>4. \/ call.todo = {} /\ JobCallBecomes(c, over)
      \/ \E j \in call.todo : JobCallBecomes(c, Asking(heard, j, call.todo))
  BY DEF JobTells
<1> HIDE DEF a, heard, over
<1>5. /\ jobCalls' \in [JobCallers -> CallTypes]
      /\ \A d \in JobCallers : CallFits(jobs', jobCalls'[d])
  <2>1. CASE call.todo = {} /\ JobCallBecomes(c, over)
    <3>1. CallFits(jobs, over)
      BY <1>2, <1>3, <2>1 DEF CallFits
    <3> QED
      BY <1>1, <1>3, <2>1, <3>1, CallMoves
  <2>2. CASE \E j \in call.todo : JobCallBecomes(c, Asking(heard, j, call.todo))
    <3>1. PICK j \in call.todo : JobCallBecomes(c, Asking(heard, j, call.todo))
      BY <2>2
    <3>2. call.todo \in SUBSET JobIds /\ \A i \in call.todo : Launched(jobs, i)
      BY <1>1 DEF CallTypes, CallFits
    <3>3. j \in jobTold => EndSeen(jobs[j])
      BY DEF JobsInv
    <3>4. AnswerFits(jobs, heard.answer)
      BY <1>2, <1>3
    <3>5. ~RunnerAlive(j) => jobs[j].runner = "gone"
      BY <3>2 DEF RunnerAlive, Launched
    <3>6. Asking(heard, j, call.todo) \in CallTypes /\ CallFits(jobs, Asking(heard, j, call.todo))
      BY <1>3, <3>2, <3>3, <3>4, <3>5, AskingFits
    <3> QED
      BY <1>1, <3>1, <3>6, CallMoves
  <2> QED
    BY <1>4, <2>1, <2>2
<1>6. jobTold' = IF JobOver(state) THEN jobTold \union {call.job} ELSE jobTold
  BY DEF JobTells
<1>7. JobOver(state) => EndSeen(jobs[call.job])
  BY DEF JobOver, EndSeen
<1>8. jobTold' \subseteq JobIds /\ \A j \in jobTold' : Launched(jobs', j) /\ EndSeen(jobs'[j])
  BY <1>1, <1>6, <1>7 DEF JobsInv
<1> QED
  BY <1>1, <1>5, <1>8 DEF JobsInv

(* Reading the files and the process of a job.                             *)
LEMMA JobReads ==
  ASSUME JobsInv, NEW c \in JobCallers,
         JobReadMarker(c) \/ JobReadExit(c) \/ JobReadProcess(c)
  PROVE  JobsInv'
<1> DEFINE call == jobCalls[c]
<1>1. /\ call \in CallTypes /\ CallFits(jobs, call) /\ call.step # "idle"
      /\ call.job \in JobIds /\ Launched(jobs, call.job) /\ GoodJob(jobs[call.job])
      /\ jobs[call.job] \in JobTypes
  BY DEF JobsInv, CallFits, JobReadMarker, JobReadExit, JobReadProcess
<1>2. ASSUME NEW step \in {"exit", "process"}, UNCHANGED <<jobs, jobTold>>,
             JobCallBecomes(c, [call EXCEPT !.step = step]),
             CallFits(jobs, [call EXCEPT !.step = step])
      PROVE  JobsInv'
  <2>1. [call EXCEPT !.step = step] \in CallTypes
    BY <1>1 DEF CallTypes
  <2>2. \A d \in JobCallers : CallFits(jobs', jobCalls[d])
    BY <1>2 DEF JobsInv
  <2>3. /\ jobCalls' \in [JobCallers -> CallTypes]
        /\ \A d \in JobCallers : CallFits(jobs', jobCalls'[d])
    BY <1>2, <2>1, <2>2, CallMoves
  <2> QED
    BY <1>2, <2>3 DEF JobsInv
<1>3. ASSUME NEW step \in {"exit", "process"}
      PROVE  LET next == [call EXCEPT !.step = step]
             IN  /\ next.step = step /\ next.job = call.job /\ next.todo = call.todo
                 /\ next.past = call.past /\ next.gone = call.gone /\ next.answer = call.answer
  BY <1>1 DEF CallTypes
<1>4. CASE JobReadMarker(c)
  <2>1. CASE jobs[call.job].stopped
    BY <1>1, <1>4, <2>1, TellsFits DEF JobReadMarker, GoodJob, JobOver, Hit
  <2>2. CASE ~jobs[call.job].stopped
    <3>1. CallFits(jobs, [call EXCEPT !.step = "exit"])
      BY <1>1, <1>3, <1>4, <2>2 DEF JobReadMarker, CallFits, EndSeen
    <3> QED
      BY <1>2, <1>4, <2>2, <3>1 DEF JobReadMarker
  <2> QED
    BY <2>1, <2>2
<1>5. CASE JobReadExit(c)
  <2>1. CASE jobs[call.job].exit
    BY <1>1, <1>5, <2>1, TellsFits DEF JobReadExit, JobOver
  <2>2. CASE ~jobs[call.job].exit
    <3>1. CallFits(jobs, [call EXCEPT !.step = "process"])
      BY <1>1, <1>3, <1>5, <2>2 DEF JobReadExit, CallFits
    <3> QED
      BY <1>2, <1>5, <2>2, <3>1 DEF JobReadExit
  <2> QED
    BY <2>1, <2>2
<1>6. CASE JobReadProcess(c)
  <2>1. call.step = "process" /\ JobTells(c, IF RunnerAlive(call.job) THEN "running" ELSE "lost")
    BY <1>6 DEF JobReadProcess, owns_process
  <2>2. RunnerAlive(call.job) <=> jobs[call.job].runner # "gone"
    BY <1>1 DEF RunnerAlive, Launched
  <2>3. CASE RunnerAlive(call.job)
    BY <1>1, <2>1, <2>2, <2>3, TellsFits DEF CallFits
  <2>4. CASE ~RunnerAlive(call.job)
    BY <1>1, <2>1, <2>2, <2>4, TellsFits DEF CallFits, JobOver
  <2> QED
    BY <2>3, <2>4
<1> QED
  BY <1>4, <1>5, <1>6

(* The steps of a call that leave the jobs as they are.                    *)
LEMMA JobQuiet ==
  ASSUME JobsInv, NEW c \in JobCallers, NEW call \in CallTypes, JobCallBecomes(c, call),
         CallFits(jobs, call), UNCHANGED <<jobs, jobTold>>
  PROVE  JobsInv'
<1>1. \A d \in JobCallers : CallFits(jobs', jobCalls[d])
  BY DEF JobsInv
<1>2. /\ jobCalls' \in [JobCallers -> CallTypes]
      /\ \A d \in JobCallers : CallFits(jobs', jobCalls'[d])
  BY <1>1, CallMoves
<1> QED
  BY <1>2 DEF JobsInv

LEMMA JobBegins ==
  ASSUME JobsInv, NEW c \in JobCallers, JobStart(c) \/ JobSave(c)
  PROVE  JobsInv'
<1>1. CASE JobStart(c)
  <2> DEFINE job == [NewJob EXCEPT !.runner = "waits", !.command = "runs"]
  <2>1. PICK j \in JobIds :
          /\ jobs[j].runner = "none" /\ JobChanges(j, job)
          /\ JobCallBecomes(c, [IdleCall EXCEPT !.step = "save", !.job = j])
    BY <1>1 DEF JobStart
  <2> DEFINE call == [IdleCall EXCEPT !.step = "save", !.job = j]
  <2>2. job \in JobTypes /\ GoodJob(job) /\ GoesOn(jobs[j], job) /\ job.runner = "waits"
    BY <2>1 DEF NewJob, JobTypes, GoodJob, GoesOn
  <2>3. /\ call \in CallTypes /\ call.step = "save" /\ call.job = j /\ call.todo = {}
        /\ call.answer = NoAnswer
    BY IdleCallFits DEF CallTypes
  <2>4. JobCallBecomes(c, call) /\ JobChanges(j, job) /\ UNCHANGED jobTold
    BY <1>1, <2>1 DEF JobStart
  <2> HIDE DEF job, call
  <2>5. /\ jobs' \in [JobIds -> JobTypes] /\ jobs'[j] = job
        /\ \A i \in JobIds : GoodJob(jobs'[i])
        /\ \A i \in jobTold' : Launched(jobs', i) /\ EndSeen(jobs'[i])
        /\ \A d \in JobCallers : CallFits(jobs', jobCalls[d])
    BY <2>2, <2>4, JobMoves
  <2>6. CallFits(jobs', call)
    BY <2>2, <2>3, <2>5, IdleCallFits DEF CallFits, AnswerFits, Launched
  <2>7. /\ jobCalls' \in [JobCallers -> CallTypes]
        /\ \A d \in JobCallers : CallFits(jobs', jobCalls'[d])
    BY <2>3, <2>4, <2>5, <2>6, CallMoves
  <2> QED
    BY <2>4, <2>5, <2>7 DEF JobsInv
<1>2. CASE JobSave(c)
  <2> DEFINE j == jobCalls[c].job
             job == [jobs[j] EXCEPT !.record = TRUE]
             call == Asking(jobCalls[c], j, {j})
  <2>1. /\ jobCalls[c] \in CallTypes /\ CallFits(jobs, jobCalls[c])
        /\ j \in JobIds /\ Launched(jobs, j) /\ jobs[j] \in JobTypes /\ GoodJob(jobs[j])
    BY <1>2 DEF JobSave, JobsInv, CallFits
  <2>2. /\ job \in JobTypes /\ GoodJob(job) /\ GoesOn(jobs[j], job)
        /\ job.runner = jobs[j].runner /\ job.exit = jobs[j].exit /\ job.stopped = jobs[j].stopped
    BY <2>1 DEF JobTypes, GoodJob, GoesOn, Launched
  <2>3. JobChanges(j, job) /\ JobCallBecomes(c, call) /\ UNCHANGED jobTold
    BY <1>2 DEF JobSave
  <2> HIDE DEF job, j
  <2>4. /\ jobs' \in [JobIds -> JobTypes] /\ jobs'[j] = job
        /\ \A i \in JobIds : GoodJob(jobs'[i]) /\ GoesOn(jobs[i], jobs'[i])
        /\ \A i \in jobTold' : Launched(jobs', i) /\ EndSeen(jobs'[i])
        /\ \A d \in JobCallers : CallFits(jobs', jobCalls[d])
    BY <2>1, <2>2, <2>3, JobMoves
  <2>5. call \in CallTypes /\ CallFits(jobs', call)
    <3>1. AnswerFits(jobs', jobCalls[c].answer)
      BY <2>4 DEF CallFits
    <3>2. \A i \in {j} : Launched(jobs', i)
      BY <2>1, <2>2, <2>4 DEF Launched
    <3>3. jobs'[j].runner = jobs[j].runner
      BY <2>2, <2>4
    <3>4. ~RunnerAlive(j) => jobs'[j].runner = "gone"
      BY <2>1, <3>3 DEF RunnerAlive, Launched
    <3>5. j \in jobTold => EndSeen(jobs'[j])
      BY <2>3, <2>4
    <3>6. {j} \in SUBSET JobIds /\ j \in {j}
      BY <2>1
    <3> QED
      BY <2>1, <3>1, <3>2, <3>4, <3>5, <3>6, AskingFits
  <2> HIDE DEF call
  <2>6. /\ jobCalls' \in [JobCallers -> CallTypes]
        /\ \A d \in JobCallers : CallFits(jobs', jobCalls'[d])
    BY <2>3, <2>4, <2>5, CallMoves
  <2> QED
    BY <2>3, <2>4, <2>6 DEF JobsInv
<1> QED
  BY <1>1, <1>2

LEMMA JobAsked == ASSUME JobsInv, NEW c \in JobCallers, JobAsk(c) PROVE JobsInv'
<1>1. PICK todo \in SUBSET JobIds : \E j \in todo :
        /\ \A i \in todo : jobs[i].record
        /\ JobCallBecomes(c, Asking(IdleCall, j, todo))
  BY DEF JobAsk
<1>2. PICK j \in todo :
        /\ \A i \in todo : jobs[i].record
        /\ JobCallBecomes(c, Asking(IdleCall, j, todo))
  BY <1>1
<1>3. \A i \in todo : Launched(jobs, i)
  BY <1>2 DEF JobsInv, GoodJob, Launched
<1>4. AnswerFits(jobs, IdleCall.answer)
  BY IdleCallFits DEF CallFits
<1>5. j \in jobTold => EndSeen(jobs[j])
  BY DEF JobsInv
<1>6. ~RunnerAlive(j) => jobs[j].runner = "gone"
  BY <1>3 DEF RunnerAlive, Launched
<1>7. Asking(IdleCall, j, todo) \in CallTypes /\ CallFits(jobs, Asking(IdleCall, j, todo))
  BY <1>3, <1>4, <1>5, <1>6, IdleCallFits, AskingFits
<1> QED
  BY <1>2, <1>7, JobQuiet DEF JobAsk

LEMMA JobStops ==
  ASSUME JobsInv, NEW c \in JobCallers, JobStop(c) \/ JobKill(c) \/ JobMark(c) \/ JobCallLost(c)
  PROVE  JobsInv'
<1>1. CASE JobCallLost(c)
  BY <1>1, IdleCallFits, JobQuiet DEF JobCallLost
<1>2. CASE JobStop(c)
  <2>1. PICK j \in JobIds :
          /\ jobs[j].record /\ JobCallBecomes(c, [IdleCall EXCEPT !.step = "kill", !.job = j])
    BY <1>2 DEF JobStop
  <2> DEFINE call == [IdleCall EXCEPT !.step = "kill", !.job = j]
  <2>2. /\ call \in CallTypes /\ call.step = "kill" /\ call.job = j /\ call.todo = {}
        /\ call.answer = NoAnswer
    BY IdleCallFits DEF CallTypes
  <2>3. JobCallBecomes(c, call) /\ UNCHANGED <<jobs, jobTold>>
    BY <1>2, <2>1 DEF JobStop
  <2> HIDE DEF call
  <2>4. Launched(jobs, j)
    BY <2>1 DEF JobsInv, GoodJob, Launched
  <2>5. CallFits(jobs, call)
    BY <2>2, <2>4, IdleCallFits DEF CallFits, AnswerFits
  <2> QED
    BY <2>2, <2>3, <2>5, JobQuiet
<1> DEFINE j == jobCalls[c].job
<1>3. jobCalls[c].step # "idle" =>
        /\ jobCalls[c] \in CallTypes /\ CallFits(jobs, jobCalls[c])
        /\ j \in JobIds /\ Launched(jobs, j) /\ jobs[j] \in JobTypes /\ GoodJob(jobs[j])
  BY DEF JobsInv, CallFits
<1>4. CASE JobKill(c)
  <2>0. /\ jobCalls[c] \in CallTypes /\ CallFits(jobs, jobCalls[c]) /\ jobCalls[c].step = "kill"
        /\ j \in JobIds /\ Launched(jobs, j) /\ jobs[j] \in JobTypes /\ GoodJob(jobs[j])
        /\ UNCHANGED jobTold
    BY <1>3, <1>4 DEF JobKill
  <2> DEFINE call == [jobCalls[c] EXCEPT !.step = "mark"]
  <2>1. CASE JobCallBecomes(c, IdleCall) /\ UNCHANGED jobs
    BY <2>0, <2>1, IdleCallFits, JobQuiet
  <2>2. /\ call \in CallTypes /\ call.step = "mark" /\ call.job = j
        /\ call.todo = jobCalls[c].todo /\ call.answer = jobCalls[c].answer
    BY <2>0 DEF CallTypes
  <2>3. ASSUME NEW job \in JobTypes, JobChanges(j, job), JobCallBecomes(c, call), GoodJob(job),
               GoesOn(jobs[j], job), Hit(job)
        PROVE  JobsInv'
    <3> HIDE DEF call
    <3>1. /\ jobs' \in [JobIds -> JobTypes] /\ jobs'[j] = job
          /\ \A i \in JobIds : GoodJob(jobs'[i])
          /\ \A i \in jobTold' : Launched(jobs', i) /\ EndSeen(jobs'[i])
          /\ \A d \in JobCallers : CallFits(jobs', jobCalls[d])
      BY <2>0, <2>3, JobMoves
    <3>2. CallFits(jobs', call)
      <4>1. CallFits(jobs', jobCalls[c])
        BY <3>1
      <4> QED
        BY <2>0, <2>2, <2>3, <3>1, <4>1 DEF CallFits
    <3>3. /\ jobCalls' \in [JobCallers -> CallTypes]
          /\ \A d \in JobCallers : CallFits(jobs', jobCalls'[d])
      BY <2>2, <2>3, <3>1, <3>2, CallMoves
    <3> QED
      BY <2>0, <3>1, <3>3 DEF JobsInv
  <2>4. ASSUME NEW process \in {jobs[j].command, "ended"}, JobCallBecomes(c, call),
               JobChanges(j, [jobs[j] EXCEPT !.runner = "gone", !.command = process,
                                             !.signalled = TRUE])
        PROVE  JobsInv'
    <3> DEFINE job == [jobs[j] EXCEPT !.runner = "gone", !.command = process, !.signalled = TRUE]
    <3>1. job \in JobTypes /\ GoodJob(job) /\ GoesOn(jobs[j], job) /\ Hit(job)
      BY <2>0 DEF JobTypes, GoodJob, GoesOn, Launched, Hit
    <3> HIDE DEF job, call
    <3> QED
      BY <2>3, <2>4, <3>1 DEF job
  <2>5. CASE /\ jobs[j].reused /\ JobCallBecomes(c, call)
             /\ JobChanges(j, [jobs[j] EXCEPT !.struck = TRUE])
    <3> DEFINE job == [jobs[j] EXCEPT !.struck = TRUE]
    <3>1. job \in JobTypes /\ GoodJob(job) /\ GoesOn(jobs[j], job) /\ Hit(job)
      BY <2>0, <2>5 DEF JobTypes, GoodJob, GoesOn, Launched, Hit
    <3> HIDE DEF job, call
    <3> QED
      BY <2>3, <2>5, <3>1 DEF job
  <2> QED
    BY <1>4, <2>1, <2>4, <2>5 DEF JobKill
<1>5. CASE JobMark(c)
  <2> DEFINE job == [jobs[j] EXCEPT !.stopped = TRUE]
             call == Asking(jobCalls[c], j, {j})
  <2>1. /\ jobCalls[c] \in CallTypes /\ CallFits(jobs, jobCalls[c]) /\ jobCalls[c].step = "mark"
        /\ j \in JobIds /\ Launched(jobs, j) /\ jobs[j] \in JobTypes /\ GoodJob(jobs[j])
    BY <1>3, <1>5 DEF JobMark
  <2>2. /\ job \in JobTypes /\ GoodJob(job) /\ GoesOn(jobs[j], job)
        /\ job.runner = jobs[j].runner /\ job.exit = jobs[j].exit
    BY <2>1 DEF JobTypes, GoodJob, GoesOn, CallFits, Launched, Hit
  <2>3. JobChanges(j, job) /\ JobCallBecomes(c, call) /\ UNCHANGED jobTold
    BY <1>5 DEF JobMark
  <2> HIDE DEF job, j
  <2>4. /\ jobs' \in [JobIds -> JobTypes] /\ jobs'[j] = job
        /\ \A i \in JobIds : GoodJob(jobs'[i])
        /\ \A i \in jobTold' : Launched(jobs', i) /\ EndSeen(jobs'[i])
        /\ \A d \in JobCallers : CallFits(jobs', jobCalls[d])
    BY <2>1, <2>2, <2>3, JobMoves
  <2>5. call \in CallTypes /\ CallFits(jobs', call)
    <3>1. AnswerFits(jobs', jobCalls[c].answer)
      BY <2>4 DEF CallFits
    <3>2. \A i \in {j} : Launched(jobs', i)
      BY <2>1, <2>2, <2>4 DEF Launched
    <3>3. jobs'[j].runner = jobs[j].runner
      BY <2>2, <2>4
    <3>4. ~RunnerAlive(j) => jobs'[j].runner = "gone"
      BY <2>1, <3>3 DEF RunnerAlive, Launched
    <3>5. j \in jobTold => EndSeen(jobs'[j])
      BY <2>3, <2>4
    <3>6. {j} \in SUBSET JobIds /\ j \in {j}
      BY <2>1
    <3> QED
      BY <2>1, <3>1, <3>2, <3>4, <3>5, <3>6, AskingFits
  <2> HIDE DEF call
  <2>6. /\ jobCalls' \in [JobCallers -> CallTypes]
        /\ \A d \in JobCallers : CallFits(jobs', jobCalls'[d])
    BY <2>3, <2>4, <2>5, CallMoves
  <2> QED
    BY <2>3, <2>4, <2>6 DEF JobsInv
<1> QED
  BY <1>1, <1>2, <1>4, <1>5

LEMMA JobRuns ==
  ASSUME JobsInv, NEW j \in JobIds, JobRunner(j) \/ JobKilled(j) \/ JobCommandEnds(j) \/ JobPidReused(j)
  PROVE  JobsInv'
<1>1. jobs[j] \in JobTypes /\ GoodJob(jobs[j])
  BY DEF JobsInv
<1>2. ASSUME NEW job \in JobTypes, JobChanges(j, job), GoodJob(job), GoesOn(jobs[j], job),
             UNCHANGED <<jobCalls, jobTold>>
      PROVE  JobsInv'
  BY <1>2, JobMoves DEF JobsInv
<1>3. CASE JobRunner(j)
  <2>1. PICK from \in {"waits", "wrote", "moved"}, to \in {"wrote", "moved", "gone"} :
          /\ RunnerGoes(j, from, to)
          /\ <<from, to>> \in {<<"waits", "wrote">>, <<"wrote", "moved">>, <<"moved", "gone">>}
    BY <1>3 DEF JobRunner
  <2> DEFINE job == [jobs[j] EXCEPT !.runner = to, !.exit = @ \/ to = "moved",
                                    !.command = IF from = "waits" THEN "ended" ELSE @]
  <2>2. job \in JobTypes /\ GoodJob(job) /\ GoesOn(jobs[j], job)
    BY <1>1, <2>1 DEF RunnerGoes, JobTypes, GoodJob, GoesOn
  <2>3. JobChanges(j, job) /\ UNCHANGED <<jobCalls, jobTold>>
    BY <2>1 DEF RunnerGoes
  <2> HIDE DEF job
  <2> QED
    BY <1>2, <2>2, <2>3
<1>4. CASE JobKilled(j)
  <2>1. PICK process \in {jobs[j].command, "ended"} :
          JobChanges(j, [jobs[j] EXCEPT !.runner = "gone", !.command = process])
    BY <1>4 DEF JobKilled
  <2> DEFINE job == [jobs[j] EXCEPT !.runner = "gone", !.command = process]
  <2>2. job \in JobTypes /\ GoodJob(job) /\ GoesOn(jobs[j], job)
    BY <1>1, <1>4 DEF JobKilled, RunnerAlive, JobTypes, GoodJob, GoesOn
  <2>3. JobChanges(j, job) /\ UNCHANGED <<jobCalls, jobTold>>
    BY <1>4, <2>1 DEF JobKilled
  <2> HIDE DEF job
  <2> QED
    BY <1>2, <2>2, <2>3
<1>6. CASE JobCommandEnds(j)
  <2> DEFINE job == [jobs[j] EXCEPT !.command = "ended"]
  <2>1. job \in JobTypes /\ GoodJob(job) /\ GoesOn(jobs[j], job)
    BY <1>1, <1>6 DEF JobCommandEnds, JobTypes, GoodJob, GoesOn
  <2>2. JobChanges(j, job) /\ UNCHANGED <<jobCalls, jobTold>>
    BY <1>6 DEF JobCommandEnds
  <2> HIDE DEF job
  <2> QED
    BY <1>2, <2>1, <2>2
<1>5. CASE JobPidReused(j)
  <2> DEFINE job == [jobs[j] EXCEPT !.reused = TRUE]
  <2>1. job \in JobTypes /\ GoodJob(job) /\ GoesOn(jobs[j], job)
    BY <1>1, <1>5 DEF JobPidReused, JobTypes, GoodJob, GoesOn
  <2>2. JobChanges(j, job) /\ UNCHANGED <<jobCalls, jobTold>>
    BY <1>5 DEF JobPidReused
  <2> HIDE DEF job
  <2> QED
    BY <1>2, <2>1, <2>2
<1> QED
  BY <1>3, <1>4, <1>5, <1>6

LEMMA JobInitInv == JobInit => JobsInv
<1>1. NewJob \in JobTypes /\ GoodJob(NewJob)
  BY DEF NewJob, JobTypes, GoodJob
<1> QED
  BY <1>1, IdleCallFits DEF JobInit, JobsInv

LEMMA JobStep == JobsInv /\ [JobNext]_jobVars => JobsInv'
<1> SUFFICES ASSUME JobsInv, [JobNext]_jobVars PROVE JobsInv'
  OBVIOUS
<1>1. CASE JobNext
  BY <1>1, JobReads, JobBegins, JobAsked, JobStops, JobRuns DEF JobNext
<1>2. CASE UNCHANGED jobVars
  BY <1>2 DEF jobVars, JobsInv
<1> QED
  BY <1>1, <1>2

LEMMA JobsHold == JobsInv => JobTypeOK /\ JobVerdicts
<1> SUFFICES ASSUME JobsInv PROVE JobTypeOK /\ JobVerdicts
  OBVIOUS
<1>1. JobTypeOK
  <2>1. \A c \in JobCallers :
          /\ jobCalls[c].step \in {"idle", "save", "marker", "exit", "process", "kill", "mark"}
          /\ jobCalls[c].job \in JobIds \union {"none"} /\ jobCalls[c].todo \subseteq JobIds
    BY DEF JobsInv, CallTypes
  <2> QED
    BY <2>1 DEF JobsInv, JobTypes, JobTypeOK
<1>2. JobVerdicts
  BY DEF JobsInv, CallFits, AnswerFits, GoodJob, JobVerdicts, RunnerAlive, Hit
<1> QED
  BY <1>1, <1>2

-----------------------------------------------------------------------------

(* Automatic improvement.                                                  *)
ActiveTypes ==
  [id : 0 .. MaxAttempts, workspace : AutoWorkspaces \union {"none"}, pid : BOOLEAN,
   age : {"young", "late", "overdue"}]
ProjectTypes ==
  [runs : Nat, seen : Seq(AutoCursors), cooling : BOOLEAN, latest : 0 .. MaxAttempts,
   notified : 0 .. MaxAttempts]
StateTypes == [active : ActiveTypes, projects : [AutoWorkspaces -> ProjectTypes]]
HostTypes ==
  [step : {"idle", "notice", "note", "launch", "started"},
   workspace : AutoWorkspaces \union {"none"}, cursor : AutoCursors \union {"none"},
   job : 0 .. MaxAttempts]
WorkerTypes ==
  [step : {"none", "spawned", "current", "working", "gone"}, inTime : BOOLEAN, disowned : BOOLEAN]

AutoTyped ==
  /\ autoState \in StateTypes
  /\ autoHosts \in [AutoHosts -> HostTypes]
  /\ autoWorkers \in [Attempts -> WorkerTypes]
  /\ autoIds \in 0 .. MaxAttempts
  /\ autoTold \in [Attempts -> Nat]
  /\ autoCounted \in [AutoWorkspaces -> Seq(AutoCursors)]

(* A worker at work keeps the slot from expiring.                          *)
SlotHeld(state, workers) ==
  \A a \in Attempts :
    workers[a].step = "working" /\ workers[a].inTime /\ ~workers[a].disowned =>
      state.active.id = a /\ state.active.pid /\ state.active.age # "overdue"

(* An attempt becomes the latest of one workspace, when it leaves the slot,*)
(* and once; what is to be told has not been.                              *)
Outcomes(state, heard, handedOut) ==
  /\ state.active.id <= handedOut
  /\ \A w \in AutoWorkspaces : state.projects[w].latest <= handedOut
  /\ \A a \in Attempts : heard[a] <= 1 /\ (a > handedOut \/ a = state.active.id => heard[a] = 0)
  /\ \A w \in AutoWorkspaces :
       LET latest == state.projects[w].latest
       IN  latest # 0 =>
             /\ latest # state.active.id
             /\ state.projects[w].notified # latest => heard[latest] = 0
             /\ \A v \in AutoWorkspaces : state.projects[v].latest = latest => v = w

(* The runs remembered are the last ones counted.                          *)
CountedFits(seen, counted) ==
  /\ Len(seen) = IF Len(counted) < SeenLimit THEN Len(counted) ELSE SeenLimit
  /\ \A i \in 1 .. Len(seen) : seen[i] = counted[Len(counted) - Len(seen) + i]
  /\ \A i, j \in 1 .. Len(counted) : i < j /\ counted[i] = counted[j] => j - i > SeenLimit

RunsCounted(state, counted) ==
  \A w \in AutoWorkspaces : CountedFits(state.projects[w].seen, counted[w])

(* The process that launches an attempt is the only one that does.         *)
Launches(h) == HostAt(h, "launch") \/ HostAt(h, "started")
LaunchesApart ==
  /\ \A h \in AutoHosts :
       /\ ~HostAt(h, "idle") => autoHosts[h].workspace \in AutoWorkspaces
       /\ ~HostAt(h, "idle") => autoHosts[h].cursor \in AutoCursors
       /\ Launches(h) => autoHosts[h].job \in Attempts /\ autoHosts[h].job <= autoIds
       /\ HostAt(h, "launch") => autoWorkers[autoHosts[h].job].step = "none"
       /\ \A k \in AutoHosts : Launches(h) /\ Launches(k) /\ autoHosts[h].job = autoHosts[k].job => h = k
  /\ \A a \in Attempts : a > autoIds => autoWorkers[a].step = "none"

AutoInv ==
  /\ AutoTyped
  /\ SlotHeld(autoState, autoWorkers)
  /\ Outcomes(autoState, autoTold, autoIds)
  /\ RunsCounted(autoState, autoCounted)
  /\ LaunchesApart

LEMMA NoJobTyped ==
  NoJob \in ActiveTypes /\ NoJob.id = 0 /\ ~NoJob.pid /\ NoJob.age = "young" /\ 0 \notin Attempts
BY AttemptsAssumption DEF NoJob, ActiveTypes, Attempts

LEMMA StateParts ==
  ASSUME NEW state \in StateTypes
  PROVE  /\ state.active \in ActiveTypes /\ state.active.id \in 0 .. MaxAttempts
         /\ state.projects \in [AutoWorkspaces -> ProjectTypes]
         /\ \A w \in AutoWorkspaces :
              /\ state.projects[w] \in ProjectTypes /\ state.projects[w].latest \in 0 .. MaxAttempts
              /\ state.projects[w].notified \in 0 .. MaxAttempts
              /\ state.projects[w].seen \in Seq(AutoCursors)
BY DEF StateTypes, ActiveTypes, ProjectTypes

(* The state with another active attempt, and with another project.        *)
LEMMA WithActive ==
  ASSUME NEW state \in StateTypes, NEW job \in ActiveTypes
  PROVE  LET next == [state EXCEPT !.active = job]
         IN  next \in StateTypes /\ next.active = job /\ next.projects = state.projects
BY DEF StateTypes

LEMMA WithProject ==
  ASSUME NEW state \in StateTypes, NEW w \in AutoWorkspaces, NEW project \in ProjectTypes
  PROVE  LET next == [state EXCEPT !.projects[w] = project]
         IN  /\ next \in StateTypes /\ next.active = state.active
             /\ next.projects[w] = project
             /\ \A v \in AutoWorkspaces : v # w => next.projects[v] = state.projects[v]
BY DEF StateTypes

LEMMA StartedFits ==
  ASSUME NEW state \in StateTypes, NEW a \in Attempts
  PROVE  /\ started(state, a) \in StateTypes
         /\ started(state, a).projects = state.projects
         /\ started(state, a).active.id = state.active.id
         /\ started(state, a).active.age = state.active.age
         /\ state.active.pid => started(state, a).active.pid
         /\ state.active.id = a => started(state, a).active.pid
<1> DEFINE job == [state.active EXCEPT !.pid = TRUE]
<1>1. state.active \in ActiveTypes
  BY StateParts
<1>2. job \in ActiveTypes /\ job.id = state.active.id /\ job.age = state.active.age /\ job.pid
  BY <1>1 DEF ActiveTypes
<1>3. started(state, a) = IF state.active.id = a THEN [state EXCEPT !.active = job] ELSE state
  BY DEF started
<1> HIDE DEF job
<1> QED
  BY <1>2, <1>3, WithActive

LEMMA FinishedFits ==
  ASSUME NEW state \in StateTypes, NEW a \in Attempts, NEW w \in AutoWorkspaces,
         NEW heard \in [Attempts -> Nat], NEW handedOut \in 0 .. MaxAttempts, Outcomes(state, heard, handedOut)
  PROVE  /\ finished(state, a, w) \in StateTypes
         /\ Outcomes(finished(state, a, w), heard, handedOut)
         /\ \A v \in AutoWorkspaces : finished(state, a, w).projects[v].seen = state.projects[v].seen
         /\ state.active.id # a => finished(state, a, w).active = state.active
<1> DEFINE next == finished(state, a, w)
           freed == [state EXCEPT !.active = NoJob]
           project == [state.projects[w] EXCEPT !.latest = a]
<1>1. CASE state.active.id # a
  BY <1>1 DEF finished
<1>2. CASE state.active.id = a
  <2>1. freed \in StateTypes /\ freed.active = NoJob /\ freed.projects = state.projects
    BY NoJobTyped, WithActive
  <2>2. /\ project \in ProjectTypes /\ project.latest = a /\ project.seen = state.projects[w].seen
        /\ project.notified = state.projects[w].notified
    <3>1. state.projects[w] \in ProjectTypes /\ a \in 0 .. MaxAttempts
      BY StateParts, AttemptsAssumption DEF Attempts
    <3> QED
      BY <3>1 DEF ProjectTypes
  <2>3. next = [freed EXCEPT !.projects[w] = project]
    BY <1>2, <2>1 DEF finished
  <2> HIDE DEF freed, project, next
  <2>4. /\ next \in StateTypes /\ next.active = NoJob /\ next.projects[w] = project
        /\ \A v \in AutoWorkspaces : v # w => next.projects[v] = state.projects[v]
    BY <2>1, <2>2, <2>3, WithProject
  <2>5. Outcomes(next, heard, handedOut)
    <3>1. next.active.id <= handedOut /\ next.active.id = 0
      BY <2>4, NoJobTyped
    <3>2. \A v \in AutoWorkspaces : next.projects[v].latest <= handedOut
      BY <1>2, <2>2, <2>4 DEF Outcomes
    <3>3. \A b \in Attempts : heard[b] <= 1 /\ (b > handedOut \/ b = 0 => heard[b] = 0)
      BY NoJobTyped DEF Outcomes
    <3>4. \A v \in AutoWorkspaces : v # w => state.projects[v].latest # a
      BY <1>2, NoJobTyped DEF Outcomes
    <3>5. heard[a] = 0
      BY <1>2 DEF Outcomes
    <3>6. ASSUME NEW v \in AutoWorkspaces, next.projects[v].latest # 0
          PROVE  /\ next.projects[v].latest # 0
                 /\ next.projects[v].notified # next.projects[v].latest =>
                      heard[next.projects[v].latest] = 0
                 /\ \A u \in AutoWorkspaces :
                      next.projects[u].latest = next.projects[v].latest => u = v
      <4>1. CASE v = w
        BY <2>2, <2>4, <3>4, <3>5, <3>6, <4>1
      <4>2. CASE v # w
        BY <2>2, <2>4, <3>4, <3>6, <4>2 DEF Outcomes
      <4> QED
        BY <4>1, <4>2
    <3> QED
      BY <3>1, <3>2, <3>3, <3>6 DEF Outcomes
  <2> QED
    BY <1>2, <2>2, <2>4, <2>5 DEF next
<1> QED
  BY <1>1, <1>2

LEMMA AutoInitInv == AutoInit => AutoInv
<1> SUFFICES ASSUME AutoInit PROVE AutoInv
  OBVIOUS
<1>1. NewProject \in ProjectTypes /\ NewProject.seen = <<>> /\ NewProject.latest = 0
  BY AttemptsAssumption DEF NewProject, ProjectTypes
<1>2. /\ autoState \in StateTypes /\ autoState.active = NoJob
      /\ \A w \in AutoWorkspaces : autoState.projects[w] = NewProject
  BY <1>1, NoJobTyped DEF AutoInit, StateTypes
<1>3. IdleHost \in HostTypes /\ IdleHost.step = "idle"
  BY AttemptsAssumption DEF IdleHost, HostTypes
<1>4. AutoTyped
  BY <1>2, <1>3, AttemptsAssumption DEF AutoInit, AutoTyped, WorkerTypes
<1>5. SlotHeld(autoState, autoWorkers)
  BY DEF AutoInit, SlotHeld
<1>6. Outcomes(autoState, autoTold, autoIds)
  BY <1>1, <1>2, NoJobTyped DEF AutoInit, Outcomes
<1>7. RunsCounted(autoState, autoCounted)
  <2>1. \A w \in AutoWorkspaces : autoState.projects[w].seen = <<>> /\ autoCounted[w] = <<>>
    BY <1>1, <1>2 DEF AutoInit
  <2>2. CountedFits(<<>>, <<>>)
    BY SeenAssumption DEF CountedFits
  <2> QED
    BY <2>1, <2>2 DEF RunsCounted
<1>8. LaunchesApart
  BY <1>3 DEF AutoInit, LaunchesApart, HostAt, Launches
<1> QED
  BY <1>4, <1>5, <1>6, <1>7, <1>8 DEF AutoInv

(* A process goes on to another step of its own.                           *)
LEMMA HostMoves ==
  ASSUME AutoInv, NEW h \in AutoHosts, NEW host \in HostTypes, HostBecomes(h, host),
         host.step \in {"launch", "started"} =>
           autoHosts[h].step \in {"launch", "started"} /\ host.job = autoHosts[h].job,
         host.step # "idle" => host.workspace \in AutoWorkspaces /\ host.cursor \in AutoCursors,
         host.step # "launch", autoIds' = autoIds,
         \A a \in Attempts : autoWorkers[a].step = "none" =>
           autoWorkers'[a].step = "none" \/ (HostAt(h, "launch") /\ a = autoHosts[h].job)
  PROVE  autoHosts' \in [AutoHosts -> HostTypes] /\ LaunchesApart'
<1>1. /\ autoHosts' \in [AutoHosts -> HostTypes] /\ autoHosts'[h] = host
      /\ \A k \in AutoHosts : k # h => autoHosts'[k] = autoHosts[k]
  BY DEF HostBecomes, AutoInv, AutoTyped
<1>2. ASSUME NEW k \in AutoHosts
      PROVE  /\ autoHosts'[k].step # "idle" =>
                  autoHosts'[k].workspace \in AutoWorkspaces /\ autoHosts'[k].cursor \in AutoCursors
             /\ autoHosts'[k].step \in {"launch", "started"} =>
                  /\ autoHosts'[k].job \in Attempts /\ autoHosts'[k].job <= autoIds
                  /\ autoHosts[k].step \in {"launch", "started"}
                  /\ autoHosts[k].job = autoHosts'[k].job
             /\ autoHosts'[k].step = "launch" =>
                  k # h /\ autoHosts[k] = autoHosts'[k]
                  /\ autoWorkers[autoHosts[k].job].step = "none"
  BY <1>1 DEF AutoInv, LaunchesApart, Launches, HostAt
<1>3. ASSUME NEW k \in AutoHosts, autoHosts'[k].step = "launch"
      PROVE  autoWorkers'[autoHosts'[k].job].step = "none"
  <2>1. /\ k # h /\ autoHosts[k] = autoHosts'[k] /\ autoHosts[k].job \in Attempts
        /\ autoWorkers[autoHosts[k].job].step = "none"
    BY <1>2, <1>3
  <2>2. HostAt(h, "launch") => autoHosts[h].job # autoHosts[k].job
    BY <1>3, <2>1 DEF AutoInv, LaunchesApart, Launches, HostAt
  <2> QED
    BY <2>1, <2>2
<1>4. \A k, l \in AutoHosts :
        /\ autoHosts'[k].step \in {"launch", "started"}
        /\ autoHosts'[l].step \in {"launch", "started"}
        /\ autoHosts'[k].job = autoHosts'[l].job
        => k = l
  BY <1>2 DEF AutoInv, LaunchesApart, Launches, HostAt
<1>5. \A a \in Attempts : a > autoIds => autoWorkers'[a].step = "none"
  <2>1. HostAt(h, "launch") => autoHosts[h].job <= autoIds
    BY DEF AutoInv, LaunchesApart, Launches
  <2>2. \A a \in Attempts : a > autoIds => ~(a <= autoIds)
    BY AttemptsAssumption DEF Attempts, AutoInv, AutoTyped
  <2> QED
    BY <2>1, <2>2 DEF AutoInv, LaunchesApart
<1>6. ASSUME NEW k \in AutoHosts
      PROVE  /\ ~HostAt(k, "idle")' => autoHosts'[k].workspace \in AutoWorkspaces
             /\ ~HostAt(k, "idle")' => autoHosts'[k].cursor \in AutoCursors
             /\ Launches(k)' => autoHosts'[k].job \in Attempts /\ autoHosts'[k].job <= autoIds'
             /\ HostAt(k, "launch")' => autoWorkers'[autoHosts'[k].job].step = "none"
  BY <1>2, <1>3 DEF Launches, HostAt
<1>7. \A k, l \in AutoHosts :
        Launches(k)' /\ Launches(l)' /\ autoHosts'[k].job = autoHosts'[l].job => k = l
  BY <1>4 DEF Launches, HostAt
<1>8. \A a \in Attempts : a > autoIds' => autoWorkers'[a].step = "none"
  BY <1>5
<1> QED
  BY <1>1, <1>6, <1>7, <1>8 DEF LaunchesApart

LEMMA IdleHostTyped == IdleHost \in HostTypes /\ IdleHost.step = "idle"
BY AttemptsAssumption DEF IdleHost, HostTypes

(* What a step of a process that only moves on leaves as it was.           *)
LEMMA AutoQuiet ==
  ASSUME AutoInv, autoHosts' \in [AutoHosts -> HostTypes], LaunchesApart',
         UNCHANGED <<autoState, autoWorkers, autoIds, autoTold, autoCounted>>
  PROVE  AutoInv'
BY DEF AutoInv, AutoTyped, SlotHeld, Outcomes, RunsCounted

LEMMA AfterSaveKeeps == ASSUME AutoInv, NEW h \in AutoHosts, AfterSave(h) PROVE AutoInv'
<1>1. PICK w \in AutoWorkspaces, cursor \in AutoCursors :
        HostBecomes(h, [IdleHost EXCEPT !.workspace = w, !.cursor = cursor,
                          !.step = IF Untold(autoState.projects[w]) THEN "notice" ELSE "note"])
  BY DEF AfterSave
<1> DEFINE host == [IdleHost EXCEPT !.workspace = w, !.cursor = cursor,
                      !.step = IF Untold(autoState.projects[w]) THEN "notice" ELSE "note"]
<1>2. host \in HostTypes /\ host.step \in {"notice", "note"} /\ host.workspace = w /\ host.cursor = cursor
  BY IdleHostTyped DEF HostTypes
<1>3. HostBecomes(h, host) /\ UNCHANGED <<autoState, autoWorkers, autoIds, autoTold, autoCounted>>
  BY <1>1 DEF AfterSave
<1> HIDE DEF host
<1>4. autoHosts' \in [AutoHosts -> HostTypes] /\ LaunchesApart'
  BY <1>2, <1>3, HostMoves
<1> QED
  BY <1>3, <1>4, AutoQuiet

LEMMA HostFailsKeeps == ASSUME AutoInv, NEW h \in AutoHosts, HostFails(h) PROVE AutoInv'
<1>1. /\ HostBecomes(h, IdleHost)
      /\ UNCHANGED <<autoState, autoWorkers, autoIds, autoTold, autoCounted>>
  BY DEF HostFails
<1>2. autoHosts' \in [AutoHosts -> HostTypes] /\ LaunchesApart'
  BY <1>1, IdleHostTyped, HostMoves
<1> QED
  BY <1>1, <1>2, AutoQuiet

LEMMA NoticeKeeps == ASSUME AutoInv, NEW h \in AutoHosts, Notice(h) PROVE AutoInv'
<1> DEFINE w == autoHosts[h].workspace
           latest == autoState.projects[w].latest
           host == [autoHosts[h] EXCEPT !.step = "note"]
<1>1. /\ autoHosts[h] \in HostTypes /\ autoHosts[h].step = "notice" /\ w \in AutoWorkspaces
      /\ autoHosts[h].cursor \in AutoCursors
  BY DEF Notice, HostAt, AutoInv, AutoTyped, LaunchesApart
<1>2. /\ host \in HostTypes /\ host.step = "note" /\ host.workspace = w
      /\ host.cursor = autoHosts[h].cursor
  BY <1>1 DEF HostTypes
<1>3. HostBecomes(h, host) /\ UNCHANGED <<autoWorkers, autoIds, autoCounted>>
  BY DEF Notice
<1> HIDE DEF host
<1>4. autoHosts' \in [AutoHosts -> HostTypes] /\ LaunchesApart'
  BY <1>1, <1>2, <1>3, HostMoves
<1>5. CASE ~Untold(autoState.projects[w])
  BY <1>3, <1>4, <1>5, AutoQuiet DEF Notice
<1>6. CASE Untold(autoState.projects[w])
  <2> DEFINE project == [autoState.projects[w] EXCEPT !.notified = latest]
  <2>0. autoState \in StateTypes /\ autoTold \in [Attempts -> Nat]
    BY DEF AutoInv, AutoTyped
  <2>1. /\ autoState.projects[w] \in ProjectTypes /\ latest \in 0 .. MaxAttempts /\ latest # 0
        /\ autoState.projects[w].notified # latest /\ latest \in Attempts
    BY <1>1, <1>6, <2>0, StateParts, AttemptsAssumption DEF Untold, Attempts
  <2>2. /\ autoTold' = [autoTold EXCEPT ![latest] = @ + 1]
        /\ autoState' = [autoState EXCEPT !.projects[w] = project]
    BY <1>6, <2>0 DEF Notice
  <2>3. /\ project \in ProjectTypes /\ project.notified = latest /\ project.latest = latest
        /\ project.seen = autoState.projects[w].seen
    BY <2>1 DEF ProjectTypes
  <2> HIDE DEF project
  <2>4. /\ autoState' \in StateTypes /\ autoState'.active = autoState.active
        /\ autoState'.projects[w] = project
        /\ \A v \in AutoWorkspaces : v # w => autoState'.projects[v] = autoState.projects[v]
    BY <1>1, <2>0, <2>2, <2>3, WithProject
  <2>5. autoTold[latest] = 0 /\ latest # autoState.active.id /\ latest <= autoIds
    BY <1>1, <2>1 DEF AutoInv, Outcomes
  <2>6. /\ autoTold' \in [Attempts -> Nat] /\ autoTold'[latest] = 1
        /\ \A a \in Attempts : a # latest => autoTold'[a] = autoTold[a]
    BY <2>0, <2>1, <2>2, <2>5, SMTT(30)
  <2>7. Outcomes(autoState', autoTold', autoIds)
    <3>0. Outcomes(autoState, autoTold, autoIds) /\ autoIds \in Nat
      BY AttemptsAssumption DEF AutoInv, AutoTyped
    <3>1. \A v \in AutoWorkspaces : autoState'.projects[v].latest = autoState.projects[v].latest
      BY <2>3, <2>4
    <3>2. autoState'.active.id <= autoIds
      BY <2>4, <3>0 DEF Outcomes
    <3>3. \A v \in AutoWorkspaces : autoState'.projects[v].latest <= autoIds
      BY <3>0, <3>1 DEF Outcomes
    <3>4. ASSUME NEW a \in Attempts
          PROVE  autoTold'[a] <= 1 /\ (a > autoIds \/ a = autoState'.active.id => autoTold'[a] = 0)
      <4>1. CASE a = latest
        BY <2>4, <2>5, <2>6, <3>0, <4>1, SMTT(30) DEF Attempts
      <4>2. CASE a # latest
        BY <2>4, <2>6, <3>0, <4>2 DEF Outcomes
      <4> QED
        BY <4>1, <4>2
    <3>5. ASSUME NEW v \in AutoWorkspaces, autoState'.projects[v].latest # 0
          PROVE  /\ autoState'.projects[v].latest # autoState'.active.id
                 /\ autoState'.projects[v].notified # autoState'.projects[v].latest =>
                      autoTold'[autoState'.projects[v].latest] = 0
                 /\ \A u \in AutoWorkspaces :
                      autoState'.projects[u].latest = autoState'.projects[v].latest => u = v
      <4>1. /\ autoState.projects[v].latest # 0
            /\ autoState.projects[v].latest # autoState.active.id
            /\ autoState.projects[v].notified # autoState.projects[v].latest =>
                 autoTold[autoState.projects[v].latest] = 0
            /\ \A u \in AutoWorkspaces :
                 autoState.projects[u].latest = autoState.projects[v].latest => u = v
        BY <3>0, <3>1, <3>5 DEF Outcomes
      <4>2. v # w => /\ autoState.projects[v].latest # latest
                     /\ autoState.projects[v].latest \in Attempts
        BY <1>1, <2>0, <4>1, StateParts, AttemptsAssumption DEF Attempts
      <4>3. CASE v = w
        BY <2>3, <2>4, <3>1, <4>1, <4>3
      <4>4. CASE v # w
        BY <2>4, <2>6, <3>1, <4>1, <4>2, <4>4
      <4> QED
        BY <4>3, <4>4
    <3> QED
      BY <3>2, <3>3, <3>4, <3>5 DEF Outcomes
  <2>8. RunsCounted(autoState', autoCounted')
    <3>1. \A v \in AutoWorkspaces : autoState'.projects[v].seen = autoState.projects[v].seen
      BY <2>3, <2>4
    <3> QED
      BY <1>3, <3>1 DEF AutoInv, RunsCounted
  <2>9. SlotHeld(autoState', autoWorkers')
    BY <1>3, <2>4 DEF AutoInv, SlotHeld
  <2> QED
    BY <1>3, <1>4, <2>4, <2>6, <2>7, <2>8, <2>9 DEF AutoInv, AutoTyped
<1> QED
  BY <1>5, <1>6

LEMMA AttemptIndex == \A a \in Attempts : a \in 0 .. MaxAttempts /\ a # 0 /\ a \in Nat
BY AttemptsAssumption DEF Attempts

LEMMA JobTaken ==
  ASSUME NEW a \in Attempts, NEW w \in AutoWorkspaces
  PROVE  LET job == [NoJob EXCEPT !.id = a, !.workspace = w] IN job \in ActiveTypes /\ job.id = a
BY AttemptIndex DEF NoJob, ActiveTypes

LEMMA LaunchingHost ==
  ASSUME NEW host \in HostTypes, NEW a \in Attempts
  PROVE  LET next == [host EXCEPT !.step = "launch", !.job = a]
         IN  /\ next \in HostTypes /\ next.step = "launch" /\ next.job = a
             /\ next.workspace = host.workspace /\ next.cursor = host.cursor
BY AttemptIndex DEF HostTypes

(* A run that is not remembered is counted, and the oldest forgotten.      *)
LEMMA ForgetsOldest ==
  ASSUME NEW seen \in Seq(AutoCursors), NEW counted \in Seq(AutoCursors),
         CountedFits(seen, counted), NEW cursor \in AutoCursors,
         \A i \in 1 .. Len(seen) : seen[i] # cursor
  PROVE  /\ Remembered(seen, cursor) \in Seq(AutoCursors)
         /\ CountedFits(Remembered(seen, cursor), Append(counted, cursor))
<1> DEFINE longer == Append(seen, cursor)
           next == Append(counted, cursor)
<1>0. SeenLimit \in Nat /\ SeenLimit >= 1
  BY SeenAssumption
<1>1. /\ longer \in Seq(AutoCursors) /\ Len(longer) = Len(seen) + 1
      /\ longer[Len(seen) + 1] = cursor /\ \A i \in 1 .. Len(seen) : longer[i] = seen[i]
  OBVIOUS
<1>2. /\ next \in Seq(AutoCursors) /\ Len(next) = Len(counted) + 1
      /\ next[Len(counted) + 1] = cursor /\ \A i \in 1 .. Len(counted) : next[i] = counted[i]
  OBVIOUS
<1>3. Len(seen) \in Nat /\ Len(counted) \in Nat /\ Len(seen) <= Len(counted)
  BY <1>0 DEF CountedFits
<1>4. ASSUME NEW i \in 1 .. Len(next), NEW j \in 1 .. Len(next), i < j, next[i] = next[j]
      PROVE  j - i > SeenLimit
  <2>1. CASE j <= Len(counted)
    <3>1. i \in 1 .. Len(counted) /\ j \in 1 .. Len(counted)
      BY <1>2, <1>3, <1>4, <2>1
    <3> QED
      BY <1>2, <1>4, <3>1 DEF CountedFits
  <2>2. CASE j = Len(counted) + 1
    <3>1. i \in 1 .. Len(counted) /\ counted[i] = cursor
      BY <1>2, <1>3, <1>4, <2>2
    <3>2. i <= Len(counted) - Len(seen)
      <4> SUFFICES ASSUME i > Len(counted) - Len(seen) PROVE FALSE
        BY <1>3, <3>1
      <4> DEFINE k == i - (Len(counted) - Len(seen))
      <4>1. k \in 1 .. Len(seen) /\ Len(counted) - Len(seen) + k = i
        BY <1>3, <3>1
      <4> QED
        BY <3>1, <4>1 DEF CountedFits
    <3>3. Len(seen) = SeenLimit
      BY <1>0, <1>3, <3>1, <3>2 DEF CountedFits
    <3> QED
      BY <1>0, <1>3, <2>2, <3>1, <3>2, <3>3
  <2> QED
    BY <1>2, <1>3, <2>1, <2>2
<1>5. CASE Len(longer) > SeenLimit
  <2>1. Remembered(seen, cursor) = Tail(longer) /\ Len(seen) = SeenLimit
    BY <1>0, <1>1, <1>3, <1>5 DEF Remembered, CountedFits
  <2>2. /\ Tail(longer) \in Seq(AutoCursors) /\ Len(Tail(longer)) = Len(seen)
        /\ \A i \in 1 .. Len(seen) : Tail(longer)[i] = longer[i + 1]
    BY <1>0, <1>1, <1>3, <2>1
  <2>3. ASSUME NEW i \in 1 .. Len(seen)
        PROVE  Tail(longer)[i] = next[Len(next) - Len(seen) + i]
    <3>1. CASE i = Len(seen)
      BY <1>1, <1>2, <1>3, <2>2, <3>1
    <3>2. CASE i < Len(seen)
      <4>1. i + 1 \in 1 .. Len(seen) /\ Len(counted) - Len(seen) + (i + 1) \in 1 .. Len(counted)
        BY <1>3, <3>2
      <4>2. Tail(longer)[i] = counted[Len(counted) - Len(seen) + (i + 1)]
        BY <1>1, <2>2, <4>1 DEF CountedFits
      <4>3. Len(next) - Len(seen) + i = Len(counted) - Len(seen) + (i + 1)
        BY <1>2, <1>3
      <4> QED
        BY <1>2, <4>1, <4>2, <4>3
    <3> QED
      BY <1>3, <3>1, <3>2
  <2>4. Len(seen) = IF Len(next) < SeenLimit THEN Len(next) ELSE SeenLimit
    BY <1>0, <1>2, <1>3, <2>1
  <2> HIDE DEF longer, next
  <2> QED
    BY <1>4, <2>1, <2>2, <2>3, <2>4 DEF CountedFits, next
<1>6. CASE ~(Len(longer) > SeenLimit)
  <2>1. Remembered(seen, cursor) = longer /\ Len(seen) = Len(counted) /\ Len(seen) < SeenLimit
    BY <1>0, <1>1, <1>3, <1>6 DEF Remembered, CountedFits
  <2>2. \A i \in 1 .. Len(longer) : longer[i] = next[Len(next) - Len(longer) + i]
    <3> SUFFICES ASSUME NEW i \in 1 .. Len(longer) PROVE longer[i] = next[Len(next) - Len(longer) + i]
      OBVIOUS
    <3>1. Len(next) - Len(longer) + i = i
      BY <1>1, <1>2, <1>3, <2>1
    <3>2. CASE i = Len(seen) + 1
      BY <1>1, <1>2, <2>1, <3>1, <3>2
    <3>3. CASE i \in 1 .. Len(seen)
      <4>1. seen[i] = counted[Len(counted) - Len(seen) + i] /\ Len(counted) - Len(seen) + i = i
        BY <1>3, <2>1, <3>3 DEF CountedFits
      <4> QED
        BY <1>1, <1>2, <2>1, <3>1, <3>3, <4>1
    <3> QED
      BY <1>1, <1>3, <3>2, <3>3
  <2>3. Len(longer) = IF Len(next) < SeenLimit THEN Len(next) ELSE SeenLimit
    BY <1>0, <1>1, <1>2, <1>3, <2>1
  <2> HIDE DEF longer, next
  <2> QED
    BY <1>1, <1>4, <2>1, <2>2, <2>3 DEF CountedFits, next
<1> QED
  BY <1>5, <1>6

LEMMA ProjectCounts ==
  ASSUME NEW state \in StateTypes, NEW w \in AutoWorkspaces, NEW cursor \in AutoCursors,
         NEW counted \in Seq(AutoCursors), CountedFits(state.projects[w].seen, counted),
         Counts(state.projects[w], cursor)
  PROVE  LET before == state.projects[w]
             project == WithRun(before, cursor)
         IN  /\ project \in ProjectTypes
             /\ CountedFits(project.seen, Append(counted, cursor))
             /\ project.latest = before.latest /\ project.notified = before.notified
<1>1. state.projects[w] \in ProjectTypes
  BY StateParts
<1>2. /\ Remembered(state.projects[w].seen, cursor) \in Seq(AutoCursors)
      /\ CountedFits(Remembered(state.projects[w].seen, cursor), Append(counted, cursor))
  BY <1>1, ForgetsOldest DEF ProjectTypes, Counts
<1>3. state.projects[w].runs + 1 \in Nat
  BY <1>1 DEF ProjectTypes
<1> QED
  BY <1>1, <1>2, <1>3 DEF ProjectTypes, WithRun

(* Nothing became the latest or was told, and the slot is as it was or     *)
(* free.                                                                   *)
LEMMA OutcomesStay ==
  ASSUME NEW state \in StateTypes, NEW next \in StateTypes, NEW heard \in [Attempts -> Nat],
         NEW handedOut \in Nat, Outcomes(state, heard, handedOut), next.active.id \in {state.active.id, 0},
         \A v \in AutoWorkspaces : /\ next.projects[v].latest = state.projects[v].latest
                                   /\ next.projects[v].notified = state.projects[v].notified
  PROVE  Outcomes(next, heard, handedOut)
<1>1. next.active.id <= handedOut
  BY DEF Outcomes
<1>2. \A v \in AutoWorkspaces : next.projects[v].latest <= handedOut
  BY DEF Outcomes
<1>3. \A a \in Attempts : heard[a] <= 1 /\ (a > handedOut \/ a = next.active.id => heard[a] = 0)
  BY NoJobTyped DEF Outcomes
<1>4. ASSUME NEW w \in AutoWorkspaces, next.projects[w].latest # 0
      PROVE  /\ next.projects[w].latest # next.active.id
             /\ next.projects[w].notified # next.projects[w].latest =>
                  heard[next.projects[w].latest] = 0
             /\ \A v \in AutoWorkspaces :
                  next.projects[v].latest = next.projects[w].latest => v = w
  BY <1>4 DEF Outcomes
<1> QED
  BY <1>1, <1>2, <1>3, <1>4 DEF Outcomes

(* A run that is counted once, in a state whose slot may have come free.   *)
LEMMA CountsFit ==
  ASSUME AutoInv, NEW w \in AutoWorkspaces, NEW cursor \in AutoCursors
  PROVE  LET next == NoteCounts(autoState, w, cursor)
             counted == IF Counts(autoState.projects[w], cursor)
                        THEN [autoCounted EXCEPT ![w] = Append(@, cursor)]
                        ELSE autoCounted
         IN  /\ next \in StateTypes /\ SlotHeld(next, autoWorkers)
             /\ Outcomes(next, autoTold, autoIds)
             /\ counted \in [AutoWorkspaces -> Seq(AutoCursors)] /\ RunsCounted(next, counted)
<1> DEFINE free == IF expired(autoState.active) THEN [autoState EXCEPT !.active = NoJob] ELSE autoState
           project == WithRun(free.projects[w], cursor)
           counts == Counts(autoState.projects[w], cursor)
           next == NoteCounts(autoState, w, cursor)
           counted == IF counts THEN [autoCounted EXCEPT ![w] = Append(@, cursor)] ELSE autoCounted
<1>0. /\ autoState \in StateTypes /\ autoCounted \in [AutoWorkspaces -> Seq(AutoCursors)]
      /\ autoTold \in [Attempts -> Nat] /\ autoIds \in Nat
      /\ Outcomes(autoState, autoTold, autoIds) /\ SlotHeld(autoState, autoWorkers)
      /\ RunsCounted(autoState, autoCounted)
  BY AttemptsAssumption DEF AutoInv, AutoTyped
<1>1. /\ free \in StateTypes /\ free.projects = autoState.projects
      /\ free.active = IF expired(autoState.active) THEN NoJob ELSE autoState.active
  BY <1>0, NoJobTyped, WithActive
<1>2. SlotHeld(free, autoWorkers)
  <2>1. ASSUME NEW a \in Attempts, autoWorkers[a].step = "working", autoWorkers[a].inTime,
               ~autoWorkers[a].disowned
        PROVE  ~expired(autoState.active)
    <3>1. autoState.active.id = a /\ autoState.active.pid /\ autoState.active.age # "overdue"
      BY <1>0, <2>1 DEF SlotHeld
    <3>2. WorkerAlive(autoState.active.id)
      BY <2>1, <3>1 DEF WorkerAlive
    <3> QED
      BY <3>1, <3>2 DEF expired
  <2> QED
    BY <1>0, <1>1, <2>1 DEF SlotHeld
<1>3. next = IF counts THEN [free EXCEPT !.projects[w] = project] ELSE free
  <2>1. next = IF Counts(free.projects[w], cursor) THEN [free EXCEPT !.projects[w] = project] ELSE free
    BY DEF NoteCounts
  <2>2. free.projects[w] = autoState.projects[w]
    BY <1>1
  <2> HIDE DEF next, free, project
  <2> QED
    BY <2>1, <2>2
<1> HIDE DEF free, next
<1>4. free.projects[w] \in ProjectTypes /\ free.projects[w] = autoState.projects[w]
  BY <1>1, StateParts
<1>5. counts => /\ project \in ProjectTypes
                /\ CountedFits(project.seen, Append(autoCounted[w], cursor))
                /\ project.latest = autoState.projects[w].latest
                /\ project.notified = autoState.projects[w].notified
  <2> SUFFICES ASSUME counts
               PROVE  /\ project \in ProjectTypes
                      /\ CountedFits(project.seen, Append(autoCounted[w], cursor))
                      /\ project.latest = autoState.projects[w].latest
                      /\ project.notified = autoState.projects[w].notified
    OBVIOUS
  <2>1. /\ autoCounted[w] \in Seq(AutoCursors)
        /\ CountedFits(free.projects[w].seen, autoCounted[w]) /\ Counts(free.projects[w], cursor)
    BY <1>0, <1>4 DEF RunsCounted
  <2>2. /\ project \in ProjectTypes /\ CountedFits(project.seen, Append(autoCounted[w], cursor))
        /\ project.latest = free.projects[w].latest
        /\ project.notified = free.projects[w].notified
    BY <1>1, <2>1, ProjectCounts
  <2> HIDE DEF project
  <2> QED
    BY <1>4, <2>2
<1> HIDE DEF project
<1>6. /\ next \in StateTypes /\ next.active = free.active
      /\ \A v \in AutoWorkspaces : v # w => next.projects[v] = autoState.projects[v]
      /\ next.projects[w].latest = autoState.projects[w].latest
      /\ next.projects[w].notified = autoState.projects[w].notified
      /\ next.projects[w] = IF counts THEN project ELSE autoState.projects[w]
  <2>1. CASE ~counts
    BY <1>1, <1>3, <1>4, <2>1
  <2>2. CASE counts
    <3>1. next = [free EXCEPT !.projects[w] = project]
      BY <1>3, <2>2
    <3>2. /\ next \in StateTypes /\ next.active = free.active /\ next.projects[w] = project
          /\ \A v \in AutoWorkspaces : v # w => next.projects[v] = free.projects[v]
      BY <1>1, <1>5, <2>2, <3>1, WithProject
    <3> QED
      BY <1>1, <1>5, <2>2, <3>2
  <2> QED
    BY <2>1, <2>2
<1>7. SlotHeld(next, autoWorkers)
  BY <1>2, <1>6 DEF SlotHeld
<1>8. next.active.id \in {autoState.active.id, 0}
  BY <1>1, <1>6, NoJobTyped
<1>9. Outcomes(next, autoTold, autoIds)
  BY <1>0, <1>6, <1>8, OutcomesStay
<1>10. counted \in [AutoWorkspaces -> Seq(AutoCursors)]
  BY <1>0
<1>11. RunsCounted(next, counted)
  <2>1. ASSUME NEW v \in AutoWorkspaces
        PROVE  CountedFits(next.projects[v].seen, counted[v])
    <3>1. CASE v = w /\ counts
      <4>1. counted[v] = Append(autoCounted[w], cursor) /\ next.projects[v] = project
        BY <1>0, <1>6, <3>1
      <4> HIDE DEF counted
      <4> QED
        BY <1>5, <3>1, <4>1
    <3>2. CASE ~(v = w /\ counts)
      <4>1. counted[v] = autoCounted[v] /\ next.projects[v] = autoState.projects[v]
        BY <1>0, <1>6, <3>2
      <4> HIDE DEF counted
      <4> QED
        BY <1>0, <4>1 DEF RunsCounted
    <3> QED
      BY <3>1, <3>2
  <2> HIDE DEF counted
  <2> QED
    BY <2>1 DEF RunsCounted
<1> QED
  BY <1>6, <1>7, <1>9, <1>10, <1>11 DEF next

LEMMA NoteKeeps == ASSUME AutoInv, NEW h \in AutoHosts, Note(h) PROVE AutoInv'
<1> DEFINE w == autoHosts[h].workspace
           cursor == autoHosts[h].cursor
           counted == NoteCounts(autoState, w, cursor)
           runs == IF Counts(autoState.projects[w], cursor)
                   THEN [autoCounted EXCEPT ![w] = Append(@, cursor)] ELSE autoCounted
<1>1. /\ autoHosts[h] \in HostTypes /\ autoHosts[h].step = "note" /\ w \in AutoWorkspaces
      /\ cursor \in AutoCursors /\ UNCHANGED <<autoWorkers, autoTold>>
  BY DEF Note, HostAt, AutoInv, AutoTyped, LaunchesApart
<1>2. autoCounted' = runs
  BY DEF Note
<1>3. /\ counted \in StateTypes /\ SlotHeld(counted, autoWorkers)
      /\ Outcomes(counted, autoTold, autoIds)
      /\ runs \in [AutoWorkspaces -> Seq(AutoCursors)] /\ RunsCounted(counted, runs)
  BY <1>1, CountsFit
<1>4. \/ autoState' = counted /\ HostBecomes(h, IdleHost) /\ UNCHANGED autoIds
      \/ /\ ~NoteRefuses(counted, w)
         /\ autoIds < MaxAttempts
         /\ autoIds' = autoIds + 1
         /\ autoState' = NoteTakes(counted, w, autoIds')
         /\ HostBecomes(h, [autoHosts[h] EXCEPT !.step = "launch", !.job = autoIds'])
  BY DEF Note
<1> HIDE DEF counted, runs
<1>5. CASE autoState' = counted /\ HostBecomes(h, IdleHost) /\ UNCHANGED autoIds
  <2>1. autoHosts' \in [AutoHosts -> HostTypes] /\ LaunchesApart'
    BY <1>1, <1>5, IdleHostTyped, HostMoves
  <2> QED
    BY <1>1, <1>2, <1>3, <1>5, <2>1 DEF AutoInv, AutoTyped
<1>6. CASE /\ ~NoteRefuses(counted, w)
           /\ autoIds < MaxAttempts
           /\ autoIds' = autoIds + 1
           /\ autoState' = NoteTakes(counted, w, autoIds')
           /\ HostBecomes(h, [autoHosts[h] EXCEPT !.step = "launch", !.job = autoIds'])
  <2> DEFINE a == autoIds + 1
             job == [NoJob EXCEPT !.id = a, !.workspace = w]
             taken == [counted EXCEPT !.active = job]
             project == [counted.projects[w] EXCEPT !.runs = 0, !.cooling = TRUE]
             host == [autoHosts[h] EXCEPT !.step = "launch", !.job = a]
  <2>1. /\ a \in Attempts /\ a \in 1 .. MaxAttempts /\ autoIds \in 0 .. MaxAttempts /\ a > autoIds
        /\ counted.active.id = 0 /\ autoIds' = a /\ autoTold \in [Attempts -> Nat]
    BY <1>6, AttemptsAssumption DEF AutoInv, AutoTyped, Attempts, NoteRefuses
  <2>2. job \in ActiveTypes /\ job.id = a
    BY <1>1, <2>1, JobTaken
  <2>3. taken \in StateTypes /\ taken.active = job /\ taken.projects = counted.projects
    BY <1>3, <2>2, WithActive
  <2>4. /\ project \in ProjectTypes /\ project.seen = counted.projects[w].seen
        /\ project.latest = counted.projects[w].latest
        /\ project.notified = counted.projects[w].notified
    <3>1. counted.projects[w] \in ProjectTypes
      BY <1>1, <1>3, StateParts
    <3> QED
      BY <3>1 DEF ProjectTypes
  <2>5. autoState' = [taken EXCEPT !.projects[w] = project]
    <3>1. autoState' = [counted EXCEPT !.active = job, !.projects[w] = project]
      BY <1>6, <2>1 DEF NoteTakes
    <3> QED
      BY <3>1
  <2> HIDE DEF job, taken, project, a
  <2>6. /\ autoState' \in StateTypes /\ autoState'.active = job
        /\ autoState'.projects[w] = project
        /\ \A v \in AutoWorkspaces : v # w => autoState'.projects[v] = counted.projects[v]
    BY <1>1, <2>3, <2>4, <2>5, WithProject
  <2>7. \A v \in AutoWorkspaces : /\ autoState'.projects[v].seen = counted.projects[v].seen
                                  /\ autoState'.projects[v].latest = counted.projects[v].latest
                                  /\ autoState'.projects[v].notified = counted.projects[v].notified
                                  /\ counted.projects[v].latest \in 0 .. MaxAttempts
    BY <1>3, <2>4, <2>6, StateParts
  <2>8. SlotHeld(autoState', autoWorkers')
    BY <1>1, <1>3, <2>1, NoJobTyped DEF SlotHeld
  <2>9. Outcomes(autoState', autoTold', autoIds')
    <3>1. autoState'.active.id = a /\ autoIds' = a /\ autoTold' = autoTold
      BY <1>1, <2>1, <2>2, <2>6
    <3>2. \A v \in AutoWorkspaces : counted.projects[v].latest <= autoIds /\ counted.projects[v].latest # a
      BY <1>3, <2>1, <2>7 DEF Outcomes
    <3>3. \A b \in Attempts : autoTold[b] <= 1 /\ (b > a \/ b = a => autoTold[b] = 0)
      BY <1>3, <2>1 DEF Outcomes, Attempts
    <3>4. \A v \in AutoWorkspaces : autoState'.projects[v].latest <= a
      BY <2>1, <2>7, <3>2
    <3>5. a <= a
      BY <2>1
    <3>6. ASSUME NEW v \in AutoWorkspaces, autoState'.projects[v].latest # 0
          PROVE  /\ autoState'.projects[v].latest # a
                 /\ autoState'.projects[v].notified # autoState'.projects[v].latest =>
                      autoTold[autoState'.projects[v].latest] = 0
                 /\ \A u \in AutoWorkspaces :
                      autoState'.projects[u].latest = autoState'.projects[v].latest => u = v
      BY <1>3, <2>7, <3>2, <3>6 DEF Outcomes
    <3> QED
      BY <3>1, <3>3, <3>4, <3>5, <3>6 DEF Outcomes
  <2>10. RunsCounted(autoState', autoCounted')
    BY <1>2, <1>3, <2>7 DEF RunsCounted
  <2>11. /\ host \in HostTypes /\ host.step = "launch" /\ host.job = a
         /\ host.workspace = w /\ host.cursor = cursor
    BY <1>1, <2>1, LaunchingHost
  <2>12. /\ autoHosts' \in [AutoHosts -> HostTypes] /\ autoHosts'[h] = host
         /\ \A k \in AutoHosts : k # h => autoHosts'[k] = autoHosts[k]
    BY <1>6, <2>1, <2>11 DEF HostBecomes, AutoInv, AutoTyped
  <2> HIDE DEF host
  <2>13. LaunchesApart'
    <3>0. LaunchesApart
      BY DEF AutoInv
    <3>1. ASSUME NEW k \in AutoHosts
          PROVE  /\ ~HostAt(k, "idle")' => autoHosts'[k].workspace \in AutoWorkspaces
                 /\ ~HostAt(k, "idle")' => autoHosts'[k].cursor \in AutoCursors
                 /\ Launches(k)' => autoHosts'[k].job \in Attempts /\ autoHosts'[k].job <= autoIds'
                 /\ HostAt(k, "launch")' => autoWorkers'[autoHosts'[k].job].step = "none"
      <4>1. CASE k = h
        BY <1>1, <2>1, <2>11, <2>12, <3>0, <4>1 DEF LaunchesApart, HostAt, Launches
      <4>2. CASE k # h
        <5>1. /\ autoHosts'[k] = autoHosts[k]
              /\ Launches(k) => autoHosts[k].job \in Attempts /\ autoHosts[k].job <= autoIds
          BY <2>12, <3>0, <4>2 DEF LaunchesApart
        <5>2. Launches(k) => autoHosts[k].job <= autoIds'
          BY <2>1, <5>1 DEF Attempts
        <5> QED
          BY <1>1, <3>0, <5>1, <5>2 DEF LaunchesApart, HostAt, Launches
      <4> QED
        BY <4>1, <4>2
    <3>2. \A k \in AutoHosts : k # h /\ Launches(k) => autoHosts[k].job # a
      BY <2>1, <3>0 DEF LaunchesApart, Attempts
    <3>3. \A k, l \in AutoHosts :
            Launches(k)' /\ Launches(l)' /\ autoHosts'[k].job = autoHosts'[l].job => k = l
      BY <2>11, <2>12, <3>0, <3>2 DEF LaunchesApart, HostAt, Launches
    <3>4. \A b \in Attempts : b > autoIds' => autoWorkers'[b].step = "none"
      BY <1>1, <2>1, <3>0 DEF LaunchesApart, Attempts
    <3> QED
      BY <3>1, <3>3, <3>4 DEF LaunchesApart
  <2>14. AutoTyped'
    BY <1>1, <1>2, <1>3, <2>1, <2>6, <2>12 DEF AutoInv, AutoTyped
  <2> QED
    BY <2>8, <2>9, <2>10, <2>13, <2>14 DEF AutoInv
<1> QED
  BY <1>4, <1>5, <1>6

LEMMA AutoParts ==
  ASSUME AutoInv
  PROVE  /\ autoState \in StateTypes /\ autoHosts \in [AutoHosts -> HostTypes]
         /\ autoWorkers \in [Attempts -> WorkerTypes] /\ autoIds \in 0 .. MaxAttempts /\ autoIds \in Nat
         /\ autoTold \in [Attempts -> Nat] /\ autoCounted \in [AutoWorkspaces -> Seq(AutoCursors)]
         /\ SlotHeld(autoState, autoWorkers) /\ Outcomes(autoState, autoTold, autoIds)
         /\ RunsCounted(autoState, autoCounted) /\ LaunchesApart
BY AttemptsAssumption DEF AutoInv, AutoTyped

(* A step of a worker: it does not go back to where it was launched from.  *)
LEMMA WorkerMoves ==
  ASSUME AutoInv, NEW a \in Attempts, NEW worker \in WorkerTypes,
         autoWorkers' = [autoWorkers EXCEPT ![a] = worker],
         autoWorkers[a].step # "none", UNCHANGED <<autoHosts, autoIds>>
  PROVE  /\ autoWorkers' \in [Attempts -> WorkerTypes] /\ LaunchesApart'
         /\ autoWorkers'[a] = worker /\ \A b \in Attempts : b # a => autoWorkers'[b] = autoWorkers[b]
<1>1. /\ autoWorkers' \in [Attempts -> WorkerTypes] /\ autoWorkers'[a] = worker
      /\ \A b \in Attempts : b # a => autoWorkers'[b] = autoWorkers[b]
  BY AutoParts
<1>2. \A b \in Attempts : autoWorkers[b].step = "none" => autoWorkers'[b].step = "none"
  BY <1>1
<1>3. LaunchesApart'
  BY <1>2, AutoParts DEF LaunchesApart, Launches, HostAt
<1> QED
  BY <1>1, <1>3

LEMMA LaunchKeeps == ASSUME AutoInv, NEW h \in AutoHosts, Launch(h) PROVE AutoInv'
<1> DEFINE a == autoHosts[h].job
           worker == [autoWorkers[a] EXCEPT !.step = "spawned"]
           host == [autoHosts[h] EXCEPT !.step = "started"]
<1>1. /\ autoHosts[h] \in HostTypes /\ autoHosts[h].step = "launch" /\ a \in Attempts
      /\ autoHosts[h].workspace \in AutoWorkspaces /\ autoHosts[h].cursor \in AutoCursors
      /\ autoWorkers[a].step = "none" /\ HostAt(h, "launch")
      /\ UNCHANGED <<autoState, autoIds, autoTold, autoCounted>>
  BY AutoParts DEF Launch, HostAt, LaunchesApart, Launches
<1>2. /\ host \in HostTypes /\ host.step = "started" /\ host.workspace = autoHosts[h].workspace
      /\ host.cursor = autoHosts[h].cursor /\ host.job = a
  BY <1>1 DEF HostTypes
<1>3. worker \in WorkerTypes /\ worker.step = "spawned"
  BY <1>1, AutoParts DEF WorkerTypes
<1>4. HostBecomes(h, host) /\ autoWorkers' = [autoWorkers EXCEPT ![a] = worker]
  BY DEF Launch, WorkerBecomes
<1> HIDE DEF host, worker
<1>5. /\ autoWorkers' \in [Attempts -> WorkerTypes] /\ autoWorkers'[a] = worker
      /\ \A b \in Attempts : b # a => autoWorkers'[b] = autoWorkers[b]
  BY <1>1, <1>3, <1>4, AutoParts
<1>6. autoHosts' \in [AutoHosts -> HostTypes] /\ LaunchesApart'
  <2>1. \A b \in Attempts : autoWorkers[b].step = "none" =>
          autoWorkers'[b].step = "none" \/ (HostAt(h, "launch") /\ b = autoHosts[h].job)
    BY <1>1, <1>5
  <2> QED
    BY <1>1, <1>2, <1>4, <2>1, HostMoves
<1>7. SlotHeld(autoState', autoWorkers')
  BY <1>1, <1>3, <1>5, AutoParts DEF SlotHeld
<1> QED
  BY <1>1, <1>5, <1>6, <1>7, AutoParts DEF AutoInv, AutoTyped

LEMMA StartedKeeps == ASSUME AutoInv, NEW h \in AutoHosts, Started(h) PROVE AutoInv'
<1> DEFINE a == autoHosts[h].job
<1>1. a \in Attempts /\ UNCHANGED <<autoWorkers, autoIds, autoTold, autoCounted>>
  BY AutoParts DEF Started, HostAt, LaunchesApart, Launches
<1>2. autoState' = started(autoState, a) /\ HostBecomes(h, IdleHost)
  BY DEF Started
<1> HIDE DEF a
<1>3. /\ autoState' \in StateTypes /\ autoState'.projects = autoState.projects
      /\ autoState'.active.id = autoState.active.id /\ autoState'.active.age = autoState.active.age
      /\ autoState.active.pid => autoState'.active.pid
  BY <1>1, <1>2, AutoParts, StartedFits
<1>4. autoHosts' \in [AutoHosts -> HostTypes] /\ LaunchesApart'
  BY <1>1, <1>2, IdleHostTyped, HostMoves
<1>5. SlotHeld(autoState', autoWorkers')
  BY <1>1, <1>3, AutoParts DEF SlotHeld
<1>6. Outcomes(autoState', autoTold', autoIds')
  BY <1>1, <1>3, AutoParts, OutcomesStay
<1>7. RunsCounted(autoState', autoCounted')
  BY <1>1, <1>3, AutoParts DEF RunsCounted
<1> QED
  BY <1>1, <1>3, <1>4, <1>5, <1>6, <1>7, AutoParts DEF AutoInv, AutoTyped

LEMMA LaunchFailsKeeps == ASSUME AutoInv, NEW h \in AutoHosts, LaunchFails(h) PROVE AutoInv'
<1> DEFINE a == autoHosts[h].job
           w == autoHosts[h].workspace
           worker == [autoWorkers[a] EXCEPT !.disowned = HostAt(h, "started")]
<1>1. /\ a \in Attempts /\ w \in AutoWorkspaces /\ UNCHANGED <<autoIds, autoTold, autoCounted>>
      /\ HostAt(h, "started") \/ autoWorkers[a].step = "none"
  BY AutoParts DEF LaunchFails, HostAt, LaunchesApart, Launches
<1>2. /\ worker \in WorkerTypes /\ worker.step = autoWorkers[a].step
      /\ worker.disowned \/ worker.step = "none"
  <2>1. autoWorkers[a] \in WorkerTypes /\ HostAt(h, "started") \in BOOLEAN
    BY <1>1, AutoParts DEF HostAt
  <2> QED
    BY <1>1, <2>1 DEF WorkerTypes
<1>3. /\ autoState' = finished(autoState, a, w) /\ HostBecomes(h, IdleHost)
      /\ autoWorkers' = [autoWorkers EXCEPT ![a] = worker]
  BY DEF LaunchFails
<1> HIDE DEF a, w, worker
<1>4. /\ autoWorkers' \in [Attempts -> WorkerTypes] /\ autoWorkers'[a] = worker
      /\ \A b \in Attempts : b # a => autoWorkers'[b] = autoWorkers[b]
  BY <1>1, <1>2, <1>3, AutoParts
<1>5. autoHosts' \in [AutoHosts -> HostTypes] /\ LaunchesApart'
  <2>1. \A b \in Attempts : autoWorkers[b].step = "none" => autoWorkers'[b].step = "none"
    BY <1>2, <1>4
  <2> QED
    BY <1>1, <1>3, <2>1, IdleHostTyped, HostMoves
<1>6. /\ autoState' \in StateTypes /\ Outcomes(autoState', autoTold, autoIds)
      /\ \A v \in AutoWorkspaces : autoState'.projects[v].seen = autoState.projects[v].seen
      /\ autoState.active.id # a => autoState'.active = autoState.active
  BY <1>1, <1>3, AutoParts, FinishedFits
<1>7. SlotHeld(autoState', autoWorkers')
  BY <1>2, <1>4, <1>6, AutoParts DEF SlotHeld
<1>8. RunsCounted(autoState', autoCounted')
  BY <1>1, <1>6, AutoParts DEF RunsCounted
<1> QED
  BY <1>1, <1>4, <1>5, <1>6, <1>7, <1>8, AutoParts DEF AutoInv, AutoTyped

LEMMA RememberKeeps == ASSUME AutoInv, NEW w \in AutoWorkspaces, remember_result(w) PROVE AutoInv'
<1> DEFINE a == autoIds + 1
           project == [autoState.projects[w] EXCEPT !.latest = a]
<1>1. /\ a \in Attempts /\ a > autoIds /\ autoIds' = a /\ a \in 0 .. MaxAttempts
      /\ autoState' = [autoState EXCEPT !.projects[w] = project]
      /\ UNCHANGED <<autoHosts, autoWorkers, autoTold, autoCounted>>
  BY AutoParts, AttemptsAssumption DEF remember_result, Attempts
<1>2. /\ project \in ProjectTypes /\ project.latest = a
      /\ project.seen = autoState.projects[w].seen
  <2>1. autoState.projects[w] \in ProjectTypes
    BY AutoParts, StateParts
  <2> HIDE DEF a
  <2> QED
    BY <1>1, <2>1 DEF ProjectTypes
<1> HIDE DEF project, a
<1>3. /\ autoState' \in StateTypes /\ autoState'.active = autoState.active
      /\ autoState'.projects[w] = project
      /\ \A v \in AutoWorkspaces : v # w => autoState'.projects[v] = autoState.projects[v]
  BY <1>1, <1>2, AutoParts, WithProject
<1>4. Outcomes(autoState', autoTold', autoIds')
  <2>0. /\ Outcomes(autoState, autoTold, autoIds) /\ a \in Nat /\ autoIds \in Nat
        /\ autoState.active.id \in Nat
        /\ \A v \in AutoWorkspaces : autoState.projects[v].latest \in Nat
    BY <1>1, AutoParts, StateParts
  <2>1. autoState'.active.id <= a /\ autoState'.active.id # a
    BY <1>1, <1>3, <2>0 DEF Outcomes
  <2>2. \A v \in AutoWorkspaces : v # w => autoState'.projects[v].latest <= a /\ autoState'.projects[v].latest # a
    BY <1>1, <1>3, <2>0 DEF Outcomes
  <2>3. autoState'.projects[w].latest = a /\ a <= a
    BY <1>2, <1>3, <2>0
  <2>4. \A b \in Attempts : autoTold[b] <= 1 /\ (b > a \/ b = autoState'.active.id => autoTold[b] = 0)
    BY <1>1, <1>3, <2>0 DEF Outcomes, Attempts
  <2>5. autoTold[a] = 0
    BY <1>1, <2>0 DEF Outcomes
  <2>6. ASSUME NEW v \in AutoWorkspaces, autoState'.projects[v].latest # 0
        PROVE  /\ autoState'.projects[v].latest # autoState'.active.id
               /\ autoState'.projects[v].notified # autoState'.projects[v].latest =>
                    autoTold[autoState'.projects[v].latest] = 0
               /\ \A u \in AutoWorkspaces :
                    autoState'.projects[u].latest = autoState'.projects[v].latest => u = v
    <3>1. CASE v = w
      BY <2>1, <2>2, <2>3, <2>5, <3>1
    <3>2. CASE v # w
      BY <1>3, <2>0, <2>2, <2>3, <2>6, <3>2 DEF Outcomes
    <3> QED
      BY <3>1, <3>2
  <2>7. \A v \in AutoWorkspaces : autoState'.projects[v].latest <= a
    BY <2>2, <2>3
  <2> QED
    BY <1>1, <2>1, <2>4, <2>6, <2>7 DEF Outcomes
<1>5. SlotHeld(autoState', autoWorkers') /\ RunsCounted(autoState', autoCounted')
  BY <1>1, <1>2, <1>3, AutoParts DEF SlotHeld, RunsCounted
<1>6. LaunchesApart'
  <2>1. \A h \in AutoHosts : Launches(h) => autoHosts[h].job <= a
    BY <1>1, AutoParts DEF LaunchesApart, Attempts
  <2>2. \A b \in Attempts : b > a => b > autoIds
    BY <1>1, AutoParts DEF Attempts
  <2> QED
    BY <1>1, <2>1, <2>2, AutoParts DEF LaunchesApart, Launches, HostAt
<1> QED
  BY <1>1, <1>3, <1>4, <1>5, <1>6, AutoParts DEF AutoInv, AutoTyped

LEMMA CooldownKeeps == ASSUME AutoInv, NEW w \in AutoWorkspaces, CooldownOver(w) PROVE AutoInv'
<1> DEFINE project == [autoState.projects[w] EXCEPT !.cooling = FALSE]
<1>1. /\ autoState' = [autoState EXCEPT !.projects[w] = project]
      /\ UNCHANGED <<autoHosts, autoWorkers, autoIds, autoTold, autoCounted>>
  BY DEF CooldownOver
<1>2. /\ project \in ProjectTypes /\ project.latest = autoState.projects[w].latest
      /\ project.seen = autoState.projects[w].seen
      /\ project.notified = autoState.projects[w].notified
  <2>1. autoState.projects[w] \in ProjectTypes
    BY AutoParts, StateParts
  <2> QED
    BY <2>1 DEF ProjectTypes
<1> HIDE DEF project
<1>3. /\ autoState' \in StateTypes /\ autoState'.active = autoState.active
      /\ autoState'.projects[w] = project
      /\ \A v \in AutoWorkspaces : v # w => autoState'.projects[v] = autoState.projects[v]
  <2>1. autoState \in StateTypes
    BY AutoParts
  <2> QED
    BY <1>1, <1>2, <2>1, WithProject
<1>4. Outcomes(autoState', autoTold', autoIds')
  <2>1. \A v \in AutoWorkspaces : /\ autoState'.projects[v].latest = autoState.projects[v].latest
                                  /\ autoState'.projects[v].notified = autoState.projects[v].notified
    BY <1>2, <1>3
  <2> QED
    BY <1>1, <1>3, <2>1, AutoParts, OutcomesStay
<1>5. SlotHeld(autoState', autoWorkers') /\ RunsCounted(autoState', autoCounted')
  BY <1>1, <1>2, <1>3, AutoParts DEF SlotHeld, RunsCounted
<1>6. LaunchesApart'
  BY <1>1, AutoParts DEF LaunchesApart, Launches, HostAt
<1> QED
  BY <1>1, <1>3, <1>4, <1>5, <1>6, AutoParts DEF AutoInv, AutoTyped

LEMMA WorkerReadsKeeps == ASSUME AutoInv, NEW a \in Attempts, WorkerReads(a) PROVE AutoInv'
<1> DEFINE step == IF autoState.active.id = a THEN "current" ELSE "gone"
           worker == [autoWorkers[a] EXCEPT !.step = step]
<1>1. /\ autoWorkers' = [autoWorkers EXCEPT ![a] = worker] /\ autoWorkers[a].step # "none"
      /\ UNCHANGED <<autoState, autoHosts, autoIds, autoTold, autoCounted>>
  BY DEF WorkerReads, WorkerBecomes
<1>2. worker \in WorkerTypes /\ worker.step # "working"
  BY AutoParts DEF WorkerTypes
<1> HIDE DEF worker
<1>3. /\ autoWorkers' \in [Attempts -> WorkerTypes] /\ LaunchesApart'
      /\ autoWorkers'[a] = worker /\ \A b \in Attempts : b # a => autoWorkers'[b] = autoWorkers[b]
  BY <1>1, <1>2, WorkerMoves
<1>4. SlotHeld(autoState', autoWorkers')
  BY <1>1, <1>2, <1>3, AutoParts DEF SlotHeld
<1> QED
  BY <1>1, <1>3, <1>4, AutoParts DEF AutoInv, AutoTyped, Outcomes, RunsCounted

LEMMA WorkerDiesKeeps == ASSUME AutoInv, NEW a \in Attempts, WorkerDies(a) PROVE AutoInv'
<1> DEFINE worker == [autoWorkers[a] EXCEPT !.step = "gone"]
<1>1. /\ autoWorkers' = [autoWorkers EXCEPT ![a] = worker] /\ autoWorkers[a].step # "none"
      /\ UNCHANGED <<autoState, autoHosts, autoIds, autoTold, autoCounted>>
  BY DEF WorkerDies, WorkerBecomes, WorkerAlive
<1>2. worker \in WorkerTypes /\ worker.step # "working"
  BY AutoParts DEF WorkerTypes
<1> HIDE DEF worker
<1>3. /\ autoWorkers' \in [Attempts -> WorkerTypes] /\ LaunchesApart'
      /\ autoWorkers'[a] = worker /\ \A b \in Attempts : b # a => autoWorkers'[b] = autoWorkers[b]
  BY <1>1, <1>2, WorkerMoves
<1>4. SlotHeld(autoState', autoWorkers')
  BY <1>1, <1>2, <1>3, AutoParts DEF SlotHeld
<1> QED
  BY <1>1, <1>3, <1>4, AutoParts DEF AutoInv, AutoTyped, Outcomes, RunsCounted

LEMMA WorkerStartsKeeps == ASSUME AutoInv, NEW a \in Attempts, WorkerStarts(a) PROVE AutoInv'
<1> DEFINE inTime == autoState.active.id = a /\ autoState.active.age = "young"
           worker == [autoWorkers[a] EXCEPT !.step = "working", !.inTime = inTime]
<1>1. /\ autoWorkers[a].step = "current" /\ UNCHANGED <<autoHosts, autoIds, autoTold, autoCounted>>
      /\ autoState' = started(autoState, a) /\ autoWorkers[a] \in WorkerTypes
  BY AutoParts DEF WorkerStarts
<1>2. autoWorkers' = [autoWorkers EXCEPT ![a] = worker]
  BY <1>1, AutoParts DEF WorkerStarts, WorkerTypes
<1>3. worker \in WorkerTypes /\ worker.inTime = inTime
  BY <1>1 DEF WorkerTypes
<1>4. worker.inTime => autoState.active.id = a /\ autoState.active.age = "young"
  BY <1>3
<1> HIDE DEF worker
<1>5. /\ autoWorkers' \in [Attempts -> WorkerTypes] /\ LaunchesApart'
      /\ autoWorkers'[a] = worker /\ \A b \in Attempts : b # a => autoWorkers'[b] = autoWorkers[b]
  BY <1>1, <1>2, <1>3, WorkerMoves
<1>6. /\ autoState' \in StateTypes /\ autoState'.projects = autoState.projects
      /\ autoState'.active.id = autoState.active.id /\ autoState'.active.age = autoState.active.age
      /\ autoState.active.pid => autoState'.active.pid
      /\ autoState.active.id = a => autoState'.active.pid
  BY <1>1, AutoParts, StartedFits
<1>7. SlotHeld(autoState', autoWorkers')
  <2>1. ASSUME NEW b \in Attempts, autoWorkers'[b].step = "working", autoWorkers'[b].inTime,
               ~autoWorkers'[b].disowned
        PROVE  autoState'.active.id = b /\ autoState'.active.pid /\ autoState'.active.age # "overdue"
    <3>1. CASE b = a
      BY <1>4, <1>5, <1>6, <2>1, <3>1
    <3>2. CASE b # a
      BY <1>5, <1>6, <2>1, <3>2, AutoParts DEF SlotHeld
    <3> QED
      BY <3>1, <3>2
  <2> QED
    BY <2>1 DEF SlotHeld
<1>8. Outcomes(autoState', autoTold', autoIds')
  BY <1>1, <1>6, AutoParts, OutcomesStay
<1>9. RunsCounted(autoState', autoCounted')
  BY <1>1, <1>6, AutoParts DEF RunsCounted
<1> QED
  BY <1>1, <1>5, <1>6, <1>7, <1>8, <1>9, AutoParts DEF AutoInv, AutoTyped

LEMMA WorkerEndsKeeps == ASSUME AutoInv, NEW a \in Attempts, WorkerEnds(a) PROVE AutoInv'
<1> DEFINE worker == [autoWorkers[a] EXCEPT !.step = "gone"]
<1>1. /\ autoWorkers' = [autoWorkers EXCEPT ![a] = worker] /\ autoWorkers[a].step # "none"
      /\ UNCHANGED <<autoHosts, autoIds, autoTold, autoCounted>>
  BY DEF WorkerEnds, WorkerBecomes
<1>2. PICK w \in AutoWorkspaces : autoState' = finished(autoState, a, w)
  BY DEF WorkerEnds
<1>3. worker \in WorkerTypes /\ worker.step # "working"
  BY AutoParts DEF WorkerTypes
<1> HIDE DEF worker
<1>4. /\ autoWorkers' \in [Attempts -> WorkerTypes] /\ LaunchesApart'
      /\ autoWorkers'[a] = worker /\ \A b \in Attempts : b # a => autoWorkers'[b] = autoWorkers[b]
  BY <1>1, <1>3, WorkerMoves
<1>5. /\ autoState' \in StateTypes /\ Outcomes(autoState', autoTold, autoIds)
      /\ \A v \in AutoWorkspaces : autoState'.projects[v].seen = autoState.projects[v].seen
      /\ autoState.active.id # a => autoState'.active = autoState.active
  BY <1>2, AutoParts, FinishedFits
<1>6. SlotHeld(autoState', autoWorkers')
  BY <1>3, <1>4, <1>5, AutoParts DEF SlotHeld
<1>7. RunsCounted(autoState', autoCounted')
  BY <1>1, <1>5, AutoParts DEF RunsCounted
<1> QED
  BY <1>1, <1>4, <1>5, <1>6, <1>7, AutoParts DEF AutoInv, AutoTyped

LEMMA AutoTimeKeeps == ASSUME AutoInv, AutoTime PROVE AutoInv'
<1>1. PICK age \in {"late", "overdue"} :
        /\ age = "overdue" =>
             ~(autoWorkers[autoState.active.id].step = "working" /\
               autoWorkers[autoState.active.id].inTime)
        /\ autoState' = [autoState EXCEPT !.active.age = age]
  BY DEF AutoTime
<1> DEFINE job == [autoState.active EXCEPT !.age = age]
<1>2. UNCHANGED <<autoHosts, autoWorkers, autoIds, autoTold, autoCounted>>
  BY DEF AutoTime
<1>3. job \in ActiveTypes /\ job.id = autoState.active.id /\ job.pid = autoState.active.pid /\ job.age = age
  <2>1. autoState.active \in ActiveTypes
    BY AutoParts, StateParts
  <2> QED
    BY <2>1 DEF ActiveTypes
<1>4. autoState' = [autoState EXCEPT !.active = job]
  BY <1>1
<1> HIDE DEF job
<1>5. autoState' \in StateTypes /\ autoState'.active = job /\ autoState'.projects = autoState.projects
  BY <1>3, <1>4, AutoParts, WithActive
<1>6. SlotHeld(autoState', autoWorkers')
  BY <1>1, <1>2, <1>3, <1>5, AutoParts DEF SlotHeld
<1>7. Outcomes(autoState', autoTold', autoIds')
  BY <1>2, <1>3, <1>5, AutoParts, OutcomesStay
<1>8. RunsCounted(autoState', autoCounted') /\ LaunchesApart'
  BY <1>2, <1>5, AutoParts DEF RunsCounted, LaunchesApart, Launches, HostAt
<1> QED
  BY <1>2, <1>5, <1>6, <1>7, <1>8, AutoParts DEF AutoInv, AutoTyped

LEMMA AutoStep == AutoInv /\ [AutoNext]_autoVars => AutoInv'
<1> SUFFICES ASSUME AutoInv, [AutoNext]_autoVars PROVE AutoInv'
  OBVIOUS
<1>1. CASE UNCHANGED autoVars
  <2>1. LaunchesApart'
    BY <1>1, AutoParts DEF autoVars, LaunchesApart, Launches, HostAt
  <2> QED
    BY <1>1, <2>1, AutoParts, AutoQuiet DEF autoVars
<1>2. ASSUME NEW h \in AutoHosts, AfterSave(h) PROVE AutoInv'
  BY <1>2, AfterSaveKeeps
<1>3. ASSUME NEW h \in AutoHosts, Notice(h) PROVE AutoInv'
  BY <1>3, NoticeKeeps
<1>4. ASSUME NEW h \in AutoHosts, Note(h) PROVE AutoInv'
  BY <1>4, NoteKeeps
<1>5. ASSUME NEW h \in AutoHosts, Launch(h) PROVE AutoInv'
  BY <1>5, LaunchKeeps
<1>6. ASSUME NEW h \in AutoHosts, Started(h) PROVE AutoInv'
  BY <1>6, StartedKeeps
<1>7. ASSUME NEW h \in AutoHosts, LaunchFails(h) PROVE AutoInv'
  BY <1>7, LaunchFailsKeeps
<1>8. ASSUME NEW h \in AutoHosts, HostFails(h) PROVE AutoInv'
  BY <1>8, HostFailsKeeps
<1>9. ASSUME NEW a \in Attempts, WorkerReads(a) PROVE AutoInv'
  BY <1>9, WorkerReadsKeeps
<1>10. ASSUME NEW a \in Attempts, WorkerStarts(a) PROVE AutoInv'
  BY <1>10, WorkerStartsKeeps
<1>11. ASSUME NEW a \in Attempts, WorkerEnds(a) PROVE AutoInv'
  BY <1>11, WorkerEndsKeeps
<1>12. ASSUME NEW a \in Attempts, WorkerDies(a) PROVE AutoInv'
  BY <1>12, WorkerDiesKeeps
<1>13. ASSUME NEW w \in AutoWorkspaces, remember_result(w) PROVE AutoInv'
  BY <1>13, RememberKeeps
<1>14. ASSUME NEW w \in AutoWorkspaces, CooldownOver(w) PROVE AutoInv'
  BY <1>14, CooldownKeeps
<1> QED
  BY <1>1, <1>2, <1>3, <1>4, <1>5, <1>6, <1>7, <1>8, <1>9, <1>10, <1>11, <1>12, <1>13, <1>14,
     AutoTimeKeeps DEF AutoNext

LEMMA AutoHold == AutoInv => AutoTypeOK /\ AutoSchedule
<1> SUFFICES ASSUME AutoInv PROVE AutoTypeOK /\ AutoSchedule
  OBVIOUS
<1>1. AutoTypeOK
  <2>1. autoState.active \in ActiveTypes /\ \A w \in AutoWorkspaces : autoState.projects[w] \in ProjectTypes
    BY AutoParts, StateParts
  <2>2. \A h \in AutoHosts : autoHosts[h].step \in {"idle", "notice", "note", "launch", "started"}
    BY AutoParts DEF HostTypes
  <2>3. \A a \in Attempts : autoWorkers[a].step \in {"none", "spawned", "current", "working", "gone"}
    BY AutoParts DEF WorkerTypes
  <2> QED
    BY <2>1, <2>2, <2>3, AutoParts DEF AutoTypeOK, ActiveTypes, ProjectTypes
<1>2. AutoHoldsSlot
  BY AutoParts DEF AutoHoldsSlot, SlotHeld
<1>3. AutoToldOnce
  BY AutoParts DEF AutoToldOnce, Outcomes
<1>4. AutoCountsOnce
  BY AutoParts DEF AutoCountsOnce, RunsCounted, CountedFits
<1> QED
  BY <1>1, <1>2, <1>3, <1>4 DEF AutoSchedule

-----------------------------------------------------------------------------
(* The components together.  A step is one component's, and to every other *)
(* one it is no step, so that each one's invariant holds of all of them.   *)
everything ==
  <<part, jobVars, autoVars, impVars, rpcVars, mcpVars, sseVars, signInVars, skillVars,
    settingsVars, linkVars, memoriesVars, importVars, approvalsVars, chatVars, providersVars,
    pluginVars, filesVars, planVars>>

(* A step that leaves everything is one of the component part names.       *)
OfPart ==
  /\ IF part = "jobs" THEN [JobNext]_jobVars ELSE UNCHANGED jobVars
  /\ IF part = "automatic" THEN [AutoNext]_autoVars ELSE UNCHANGED autoVars
  /\ IF part = "improvement" THEN [ImpNext]_impVars ELSE UNCHANGED impVars
  /\ IF part = "rpc" THEN [RpcNext]_rpcVars ELSE UNCHANGED rpcVars
  /\ IF part = "mcp" THEN [McpNext]_mcpVars ELSE UNCHANGED mcpVars
  /\ IF part = "sse" THEN [SseNext]_sseVars ELSE UNCHANGED sseVars
  /\ IF part = "signin" THEN [SignInNext]_signInVars ELSE UNCHANGED signInVars
  /\ IF part = "skills" THEN [SkillNext]_skillVars ELSE UNCHANGED skillVars
  /\ IF part = "settings" THEN [SettingsNext]_settingsVars ELSE UNCHANGED settingsVars
  /\ IF part = "synapse" THEN [LinkNext]_linkVars ELSE UNCHANGED linkVars
  /\ IF part = "memory" THEN [MemoriesNext]_memoriesVars ELSE UNCHANGED memoriesVars
  /\ IF part = "import" THEN [ImportsNext]_importVars ELSE UNCHANGED importVars
  /\ IF part = "approvals" THEN [ApprovalsNext]_approvalsVars ELSE UNCHANGED approvalsVars
  /\ IF part = "chat" THEN [ChatNext]_chatVars ELSE UNCHANGED chatVars
  /\ IF part = "providers" THEN [ProvidersNext]_providersVars ELSE UNCHANGED providersVars
  /\ IF part = "plugins" THEN [PluginsNext]_pluginVars ELSE UNCHANGED pluginVars
  /\ IF part = "files" THEN [FilesNext]_filesVars ELSE UNCHANGED filesVars
  /\ IF part = "plan" THEN [PlanNext]_planVars ELSE UNCHANGED planVars

LEMMA StepIsOfPart == [Next]_everything => OfPart
<1> SUFFICES ASSUME [Next]_everything PROVE OfPart
  OBVIOUS
<1>1. CASE UNCHANGED everything
  BY <1>1 DEF everything, OfPart
<1>2. CASE Only("jobs") /\ JobNext
  BY <1>2 DEF Only, OfPart
<1>3. CASE Only("automatic") /\ AutoNext
  BY <1>3 DEF Only, OfPart
<1>4. CASE Only("improvement") /\ ImpNext
  BY <1>4 DEF Only, OfPart
<1>5. CASE Only("rpc") /\ RpcNext
  BY <1>5 DEF Only, OfPart
<1>6. CASE Only("mcp") /\ McpNext
  BY <1>6 DEF Only, OfPart
<1>7. CASE Only("sse") /\ SseNext
  BY <1>7 DEF Only, OfPart
<1>8. CASE Only("signin") /\ SignInNext
  BY <1>8 DEF Only, OfPart
<1>9. CASE Only("skills") /\ SkillNext
  BY <1>9 DEF Only, OfPart
<1>10. CASE Only("settings") /\ SettingsNext
  BY <1>10 DEF Only, OfPart
<1>11. CASE Only("synapse") /\ LinkNext
  BY <1>11 DEF Only, OfPart
<1>12. CASE Only("memory") /\ MemoriesNext
  BY <1>12 DEF Only, OfPart
<1>13. CASE Only("import") /\ ImportsNext
  BY <1>13 DEF Only, OfPart
<1>14. CASE Only("approvals") /\ ApprovalsNext
  BY <1>14 DEF Only, OfPart
<1>15. CASE Only("chat") /\ ChatNext
  BY <1>15 DEF Only, OfPart
<1>16. CASE Only("providers") /\ ProvidersNext
  BY <1>16 DEF Only, OfPart
<1>17. CASE Only("plugins") /\ PluginsNext
  BY <1>17 DEF Only, OfPart
<1>18. CASE Only("files") /\ FilesNext
  BY <1>18 DEF Only, OfPart
<1>19. CASE Only("plan") /\ PlanNext
  BY <1>19 DEF Only, OfPart
<1> QED
  BY <1>1, <1>2, <1>3, <1>4, <1>5, <1>6, <1>7, <1>8, <1>9, <1>10, <1>11, <1>12, <1>13, <1>14,
     <1>15, <1>16, <1>17, <1>18, <1>19 DEF Next

EveryInv ==
  /\ JobsInv /\ AutoInv /\ ImpInv /\ RpcInv /\ HubInv /\ SseInv
  /\ SignInInv /\ SkillInv /\ SettingsInv /\ LinkTyped /\ MemoryInv /\ ImportInv
  /\ ApprovalInv /\ ChatInv /\ ProvidersInv /\ PluginsTyped /\ FilesInv /\ PlanInv

LEMMA EveryInit == Init => EveryInv
BY JobInitInv, AutoInitInv, ImpInitInv, RpcInitInv, HubInitInv, SseInitInv, SignInInitInv,
     SkillInitInv, SettingsInitInv, LinkInitTyped, MemoryInitInv, ImportInitInv,
     ApprovalInitInv, ChatInitInv, ProvidersInitInv, PluginsInitTyped, FilesInitInv, PlanInitInv
   DEF Init, EveryInv

LEMMA EveryStep == EveryInv /\ [Next]_everything => EveryInv'
<1> SUFFICES ASSUME EveryInv, [Next]_everything PROVE EveryInv'
  OBVIOUS
<1>0. OfPart
  BY StepIsOfPart
<1>1. JobsInv'
  <2>1. JobsInv /\ [JobNext]_jobVars
    BY <1>0 DEF EveryInv, OfPart
  <2> QED
    BY <2>1, JobStep
<1>2. AutoInv'
  <2>1. AutoInv /\ [AutoNext]_autoVars
    BY <1>0 DEF EveryInv, OfPart
  <2> QED
    BY <2>1, AutoStep
<1>3. ImpInv'
  <2>1. ImpInv /\ [ImpNext]_impVars
    BY <1>0 DEF EveryInv, OfPart
  <2> QED
    BY <2>1, ImpStepKeeps
<1>4. RpcInv'
  <2>1. RpcInv /\ [RpcNext]_rpcVars
    BY <1>0 DEF EveryInv, OfPart
  <2> QED
    BY <2>1, RpcStep
<1>5. HubInv'
  <2>1. HubInv /\ [McpNext]_mcpVars
    BY <1>0 DEF EveryInv, OfPart
  <2> QED
    BY <2>1, HubStep
<1>6. SseInv'
  <2>1. SseInv /\ [SseNext]_sseVars
    BY <1>0 DEF EveryInv, OfPart
  <2> QED
    BY <2>1, SseStep
<1>7. SignInInv'
  <2>1. SignInInv /\ [SignInNext]_signInVars
    BY <1>0 DEF EveryInv, OfPart
  <2> QED
    BY <2>1, SignInStep
<1>8. SkillInv'
  <2>1. SkillInv /\ [SkillNext]_skillVars
    BY <1>0 DEF EveryInv, OfPart
  <2> QED
    BY <2>1, SkillStep
<1>9. SettingsInv'
  <2>1. SettingsInv /\ [SettingsNext]_settingsVars
    BY <1>0 DEF EveryInv, OfPart
  <2> QED
    BY <2>1, SettingsStep
<1>10. LinkTyped'
  <2>1. LinkTyped /\ [LinkNext]_linkVars
    BY <1>0 DEF EveryInv, OfPart
  <2> QED
    BY <2>1, LinkStepTyped
<1>11. MemoryInv'
  <2>1. MemoryInv /\ [MemoriesNext]_memoriesVars
    BY <1>0 DEF EveryInv, OfPart
  <2> QED
    BY <2>1, MemoryStep
<1>12. ImportInv'
  <2>1. ImportInv /\ [ImportsNext]_importVars
    BY <1>0 DEF EveryInv, OfPart
  <2> QED
    BY <2>1, ImportStep
<1>13. ApprovalInv'
  <2>1. ApprovalInv /\ [ApprovalsNext]_approvalsVars
    BY <1>0 DEF EveryInv, OfPart
  <2> QED
    BY <2>1, ApprovalStep
<1>14. ChatInv'
  <2>1. ChatInv /\ [ChatNext]_chatVars
    BY <1>0 DEF EveryInv, OfPart
  <2> QED
    BY <2>1, ChatStep
<1>15. ProvidersInv'
  <2>1. ProvidersInv /\ [ProvidersNext]_providersVars
    BY <1>0 DEF EveryInv, OfPart
  <2> QED
    BY <2>1, ProvidersStep
<1>16. PluginsTyped'
  <2>1. PluginsTyped /\ [PluginsNext]_pluginVars
    BY <1>0 DEF EveryInv, OfPart
  <2> QED
    BY <2>1, PluginsTypedStep
<1>17. FilesInv'
  <2>1. FilesInv /\ [FilesNext]_filesVars
    BY <1>0 DEF EveryInv, OfPart
  <2> QED
    BY <2>1, FilesStep
<1>18. PlanInv'
  <2>1. PlanInv /\ [PlanNext]_planVars
    BY <1>0 DEF EveryInv, OfPart
  <2> QED
    BY <2>1, PlanStep
<1> QED
  BY <1>1, <1>2, <1>3, <1>4, <1>5, <1>6, <1>7, <1>8, <1>9, <1>10, <1>11, <1>12, <1>13, <1>14,
     <1>15, <1>16, <1>17, <1>18 DEF EveryInv

LEMMA EveryInvariant == Spec => []EveryInv
BY EveryInit, EveryStep, PTL DEF Spec, everything

(* Every component's variables keep their types, for all sizes of what is  *)
(* modelled.                                                               *)
THEOREM EverythingTyped == Spec => []TypeOK
<1>1. EveryInv => TypeOK
  BY JobsHold, AutoHold, ImpHolds, RpcHolds, HubHolds, SseHolds, SignInHolds, SkillHolds,
     SettingsHolds, LinkHolds, MemoryHolds, ImportHolds, ApprovalHolds, ChatHolds,
     ProvidersHold, PluginsHold, FilesHold, PlanHolds
     DEF EveryInv, TypeOK
<1> QED
  BY <1>1, EveryInvariant, PTL

(* For any number of jobs, callers, processes that start attempts and      *)
(* projects and any number of runs that are remembered: what a job's status*)
(* says is so, a working attempt holds its slot unless its launch lost it, *)
(* an outcome is told once, and a run counts once until it is forgotten    *)
(* (job.rs, improve/automatic.rs).                                         *)
THEOREM WorkIsTold == Spec => []WorkIsToldRight
<1>1. EveryInv => WorkIsToldRight
  BY JobsHold, AutoHold
     DEF EveryInv, WorkIsToldRight
<1> QED
  BY <1>1, EveryInvariant, PTL

(* For any requests in any order and any capacity, each has one answer, in *)
(* the order they were decided, nothing of a run follows its answer, and   *)
(* nothing is left unwritten when the server is down (rpc_cli.rs).         *)
THEOREM RequestsAnswered == Spec => []RpcOneAnswer
<1>1. EveryInv => RpcOneAnswer
  BY RpcHolds DEF EveryInv
<1> QED
  BY <1>1, EveryInvariant, PTL

(* For any number of callers, processes and lines, a call to an MCP server *)
(* gets the reply to that very call; a shutdown leaves no process but one  *)
(* that it found starting, and only a call that came after the end of the  *)
(* stream, or was dropped, has an entry nobody will take (mcp/).           *)
THEOREM ServersAnswered == Spec => []ServersAnswer
<1>1. EveryInv => ServersAnswer
  BY HubHolds, SseHolds
     DEF EveryInv, ServersAnswer
<1> QED
  BY <1>1, EveryInvariant, PTL

(* For any number of programs, servers, tokens and changes, a sign-in is   *)
(* kept unless the changes of two processes overlapped or a change could not*)
(* read the file, and a config file stays usable unless it is saved from a *)
(* copy that never was, or that was loaded from part of a file             *)
(* (mcp/oauth.rs, config.rs).                                              *)
THEOREM AccessIsKept == Spec => []AccessKept
<1>1. EveryInv => AccessKept
  BY SignInHolds, SettingsHolds
     DEF EveryInv, AccessKept
<1> QED
  BY <1>1, EveryInvariant, PTL

(* For any number of programs, memories, files and skills: a memory, an    *)
(* imported file and the text of an approved or corrected skill are kept   *)
(* until they are given up on purpose, unless calls or imports overlapped or*)
(* a skill's write was cut off (memory.rs, import.rs, learn.rs).           *)
THEOREM LearnedIsKept == Spec => []LearnedKept
<1>1. EveryInv => LearnedKept
  BY MemoryHolds, ImportHolds, SkillHolds
     DEF EveryInv, LearnedKept
<1> QED
  BY <1>1, EveryInvariant, PTL

(* For any number of subagents, questions and plugins, any rules and any   *)
(* edits: a call that asked goes through only on a person's yes to it, also*)
(* for a subagent that outlives the run, every question is held where it   *)
(* will be shown, and of a plugin with tools runs only what was shown      *)
(* (permission.rs, tui/chat.rs, plugin/catalog.rs).                        *)
THEOREM ConsentIsAsked == Spec => []ConsentHolds
<1>1. EveryInv => ConsentHolds
  BY ApprovalHolds, PluginsHold
     DEF EveryInv, ConsentHolds
<1> QED
  BY <1>1, EveryInvariant, PTL

(* For any number of messages, turns and sessions and any length of a      *)
(* plan, what is typed and said is in the session, once, and the plan on   *)
(* the screen is the session's (tui/chat.rs, todo.rs, agent/plan.rs).      *)
THEOREM SessionIsWhole == Spec => []SessionHolds
<1>1. EveryInv => SessionHolds
  BY ChatHolds, PlanHolds
     DEF EveryInv, SessionHolds
<1> QED
  BY <1>1, EveryInvariant, PTL

(* For any chain of providers, any number of retries, pieces and calls,    *)
(* and any number of programs that write a file, a reply is all a provider *)
(* sent, once, and a file is what its last edit reported (provider/,       *)
(* tool/).                                                                 *)
THEOREM RepliesAreWhole == Spec => []SaidIsSo
<1>1. EveryInv => SaidIsSo
  BY ProvidersHold, FilesHold
     DEF EveryInv, SaidIsSo
<1> QED
  BY <1>1, EveryInvariant, PTL
=============================================================================
