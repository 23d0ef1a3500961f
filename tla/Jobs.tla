---------------------------------- MODULE Jobs ----------------------------------
(***************************************************************************)
(* Background jobs (job.rs): a runner that outlives the program, the files *)
(* it and the job tool leave in the job's directory, and the calls of the  *)
(* tool, which look at one file after the other while the runner goes on.  *)
(* Calls may come from any number of processes; nothing is locked.         *)
(***************************************************************************)
EXTENDS Naturals, FiniteSets

CONSTANTS
  JobIds,       \* jobs that may be started; an id is never used twice
  JobCallers    \* calls of the tool that may be under way at once

VARIABLES
  jobs,         \* what exists of each job: processes and files
  jobCalls,     \* each caller's call
  jobTold       \* history: jobs some call has reported as over

jobVars == <<jobs, jobCalls, jobTold>>

(* signalled, struck: history, a stop of this job signalled its group, or   *)
(* in its place the group of the program that has its process number now.  *)
NewJob == [runner |-> "none", command |-> "none", record |-> FALSE, exit |-> FALSE,
           stopped |-> FALSE, signalled |-> FALSE, reused |-> FALSE, struck |-> FALSE]
(* todo: the jobs whose status is still to be told.  answer: the last one   *)
(* told; past and gone say how that job stood when its status call began.  *)
NoAnswer == [job |-> "none", state |-> "none", past |-> FALSE, gone |-> FALSE]
IdleCall == [step |-> "idle", job |-> "none", todo |-> {}, past |-> FALSE, gone |-> FALSE,
             answer |-> NoAnswer]

JobInit ==
  /\ jobs = [j \in JobIds |-> NewJob]
  /\ jobCalls = [c \in JobCallers |-> IdleCall]
  /\ jobTold = {}

JobChanges(j, job) == jobs' = [jobs EXCEPT ![j] = job]
JobCallBecomes(c, call) == jobCalls' = [jobCalls EXCEPT ![c] = call]
RunnerAlive(j) == jobs[j].runner \notin {"none", "gone"}
JobOver(state) == state \in {"exited", "stopped", "lost"}
-----------------------------------------------------------------------------
(* A status call on the jobs of todo, one after the other.                 *)
Asking(call, j, todo) ==
  [call EXCEPT !.step = "marker", !.job = j, !.todo = todo \ {j},
               !.past = j \in jobTold, !.gone = ~RunnerAlive(j)]

(* One status has been found: the next job of a list, or the end.          *)
JobTells(c, state) ==
  LET call == jobCalls[c]
      told == [call EXCEPT !.answer = [job |-> call.job, state |-> state,
                                       past |-> call.past, gone |-> call.gone]]
  IN  /\ jobTold' = IF JobOver(state) THEN jobTold \union {call.job} ELSE jobTold
      /\ IF call.todo = {}
         THEN JobCallBecomes(c, [told EXCEPT !.step = "idle", !.job = "none",
                                             !.past = FALSE, !.gone = FALSE])
         ELSE \E j \in call.todo : JobCallBecomes(c, Asking(told, j, call.todo))
      /\ UNCHANGED jobs

(* start: the runner is spawned first and recorded last.                   *)
JobStart(c) ==
  /\ jobCalls[c].step = "idle"
  /\ \E j \in JobIds :
       /\ jobs[j].runner = "none"
       /\ JobChanges(j, [NewJob EXCEPT !.runner = "waits", !.command = "runs"])
       /\ JobCallBecomes(c, [IdleCall EXCEPT !.step = "save", !.job = j])
  /\ UNCHANGED jobTold

JobSave(c) ==
  LET j == jobCalls[c].job
  IN  /\ jobCalls[c].step = "save"
      /\ JobChanges(j, [jobs[j] EXCEPT !.record = TRUE])
      /\ JobCallBecomes(c, Asking(jobCalls[c], j, {j}))
      /\ UNCHANGED jobTold

(* status, and list: only recorded jobs are found.                         *)
JobAsk(c) ==
  /\ jobCalls[c].step = "idle"
  /\ LET recorded == {j \in JobIds : jobs[j].record}
     IN  \E todo \in {{j} : j \in recorded} \union {recorded} : \E j \in todo :
           JobCallBecomes(c, Asking(IdleCall, j, todo))
  /\ UNCHANGED <<jobs, jobTold>>

JobReadMarker(c) ==
  LET call == jobCalls[c]
  IN  /\ call.step = "marker"
      /\ IF jobs[call.job].stopped
         THEN JobTells(c, "stopped")
         ELSE JobCallBecomes(c, [call EXCEPT !.step = "exit"]) /\ UNCHANGED <<jobs, jobTold>>

JobReadExit(c) ==
  LET call == jobCalls[c]
  IN  /\ call.step = "exit"
      /\ IF jobs[call.job].exit
         THEN JobTells(c, "exited")
         ELSE JobCallBecomes(c, [call EXCEPT !.step = "process"]) /\ UNCHANGED <<jobs, jobTold>>

(* Mutant: any process of that number counts.                              *)
owns_process_AnyName(j) == RunnerAlive(j) \/ jobs[j].reused

(* owns_process: the process of that number carries the job's id.          *)
owns_process(j) == RunnerAlive(j)

JobReadProcess(c) ==
  /\ jobCalls[c].step = "process"
  /\ JobTells(c, IF owns_process(jobCalls[c].job) THEN "running" ELSE "lost")

(* stop: look for the process, signal its group, leave the marker, and tell*)
(* the status.                                                             *)
JobStop(c) ==
  /\ jobCalls[c].step = "idle"
  /\ \E j \in JobIds :
       /\ jobs[j].record /\ owns_process(j)
       /\ JobCallBecomes(c, [IdleCall EXCEPT !.step = "kill", !.job = j])
  /\ UNCHANGED <<jobs, jobTold>>

(* The signal goes to the group that has the number by now: the job's own  *)
(* (its runner does not survive it, its command may) or, when that number  *)
(* was given away since the look, another program's.  A group of nobody is *)
(* an error, and the call ends without a marker.                           *)
JobKill(c) ==
  LET j == jobCalls[c].job
      goesOn == JobCallBecomes(c, [jobCalls[c] EXCEPT !.step = "mark"])
  IN  /\ jobCalls[c].step = "kill"
      /\ \/ /\ RunnerAlive(j) \/ jobs[j].command = "runs"
            /\ \E command \in {jobs[j].command, "ended"} :
                 JobChanges(j, [jobs[j] EXCEPT !.runner = "gone", !.command = command,
                                               !.signalled = TRUE])
            /\ goesOn
         \/ /\ jobs[j].reused
            /\ JobChanges(j, [jobs[j] EXCEPT !.struck = TRUE])
            /\ goesOn
         \/ /\ ~RunnerAlive(j) /\ jobs[j].command = "ended"
            /\ JobCallBecomes(c, IdleCall) /\ UNCHANGED jobs
      /\ UNCHANGED jobTold

JobMark(c) ==
  LET j == jobCalls[c].job
  IN  /\ jobCalls[c].step = "mark"
      /\ JobChanges(j, [jobs[j] EXCEPT !.stopped = TRUE])
      /\ JobCallBecomes(c, Asking(jobCalls[c], j, {j}))
      /\ UNCHANGED jobTold

(* A call is dropped between two of its steps, or a step of it fails; the  *)
(* job goes on without it.                                                 *)
JobCallLost(c) ==
  /\ jobCalls[c].step # "idle"
  /\ JobCallBecomes(c, IdleCall)
  /\ UNCHANGED <<jobs, jobTold>>
-----------------------------------------------------------------------------
(* The runner: it waits for the command, writes its code beside the exit   *)
(* file, moves it there and exits.                                         *)
RunnerGoes(j, from, to) ==
  /\ jobs[j].runner = from
  /\ JobChanges(j, [jobs[j] EXCEPT !.runner = to, !.exit = @ \/ to = "moved",
                                   !.command = IF from = "waits" THEN "ended" ELSE @])
  /\ UNCHANGED <<jobCalls, jobTold>>

JobRunner(j) ==
  \/ RunnerGoes(j, "waits", "wrote")
  \/ RunnerGoes(j, "wrote", "moved")
  \/ RunnerGoes(j, "moved", "gone")

(* The machine restarts, or the runner is killed by someone else; a command*)
(* it leaves behind ends some day.                                         *)
JobKilled(j) ==
  /\ RunnerAlive(j)
  /\ \E command \in {jobs[j].command, "ended"} :
       JobChanges(j, [jobs[j] EXCEPT !.runner = "gone", !.command = command])
  /\ UNCHANGED <<jobCalls, jobTold>>

JobCommandEnds(j) ==
  /\ jobs[j].runner = "gone" /\ jobs[j].command = "runs"
  /\ JobChanges(j, [jobs[j] EXCEPT !.command = "ended"])
  /\ UNCHANGED <<jobCalls, jobTold>>

(* The process number of a group that is gone goes to another program.     *)
JobPidReused(j) ==
  /\ jobs[j].runner = "gone" /\ jobs[j].command = "ended" /\ ~jobs[j].reused
  /\ JobChanges(j, [jobs[j] EXCEPT !.reused = TRUE])
  /\ UNCHANGED <<jobCalls, jobTold>>

JobNext ==
  \/ \E c \in JobCallers :
       \/ JobStart(c) \/ JobSave(c) \/ JobAsk(c) \/ JobStop(c) \/ JobKill(c) \/ JobMark(c)
       \/ JobReadMarker(c) \/ JobReadExit(c) \/ JobReadProcess(c) \/ JobCallLost(c)
  \/ \E j \in JobIds : JobRunner(j) \/ JobKilled(j) \/ JobCommandEnds(j) \/ JobPidReused(j)

JobSpec == JobInit /\ [][JobNext]_jobVars
-----------------------------------------------------------------------------
JobTypeOK ==
  /\ jobs \in [JobIds -> [runner : {"none", "waits", "wrote", "moved", "gone"},
                          command : {"none", "runs", "ended"}, record : BOOLEAN,
                          exit : BOOLEAN, stopped : BOOLEAN, signalled : BOOLEAN,
                          reused : BOOLEAN, struck : BOOLEAN]]
  /\ \A c \in JobCallers :
       /\ jobCalls[c].step \in {"idle", "save", "marker", "exit", "process", "kill", "mark"}
       /\ jobCalls[c].job \in JobIds \union {"none"}
       /\ jobCalls[c].todo \subseteq JobIds
  /\ jobTold \subseteq JobIds

(* What a status told is so.  A job told as stopped has no runner any more *)
(* and was signalled, unless it ended by itself between the look of a stop *)
(* and its signal and that signal went to the program that has its number  *)
(* by now (job.rs:186-189 test and signal in two steps); one told as exited*)
(* has ended with its code on disk; one told as lost has no runner; a      *)
(* runner that was gone when the call began is told as lost only when it   *)
(* left no exit file; and after any call has told that a job is over, no   *)
(* call that begins later tells that it runs.                              *)
JobVerdicts ==
  \A c \in JobCallers :
    LET a == jobCalls[c].answer
        job == jobs[a.job]
    IN  a.job # "none" =>
          /\ a.state = "stopped" =>
               /\ ~RunnerAlive(a.job)
               /\ job.signalled \/ (job.struck /\ job.reused)
          /\ a.state = "exited" => job.exit /\ job.command = "ended"
          /\ a.state = "lost" => ~RunnerAlive(a.job) /\ ~(a.gone /\ job.exit)
          /\ a.past => JobOver(a.state)

(* What the comment at job.rs:26 says, that a reused number is never taken *)
(* for the job's: it holds of the look and not of the signal.              *)
JobNeverMistaken == \A j \in JobIds : ~jobs[j].struck
=============================================================================
