------------------------------- MODULE AutoImprove -------------------------------
(***************************************************************************)
(* Automatic improvement (improve/automatic.rs, command/improve/           *)
(* background.rs): the state file that every process of the user updates   *)
(* under a lock, what a process does after it saved a run (tell a result,  *)
(* count the run, launch a worker), and the worker process.  An update is  *)
(* one step; nothing is held from one update to the next.                  *)
(***************************************************************************)
EXTENDS Naturals, Sequences

CONSTANTS
  AutoHosts,       \* processes that save runs
  AutoWorkspaces,  \* their workspaces
  AutoCursors,     \* runs: the cursors of the sessions saved
  EveryRuns,       \* every_runs of the policy
  SeenLimit,       \* runs a workspace remembers as counted: 128
  MaxCounts,       \* bound of the model: runs counted before another save
  MaxAttempts      \* bound of the model: experiments

ASSUME AttemptsAssumption == MaxAttempts \in Nat
ASSUME SeenAssumption == SeenLimit \in Nat \ {0}

VARIABLES
  autoState,       \* state.json
  autoHosts,       \* what each process is doing after a save
  autoWorkers,     \* the worker of each attempt
  autoIds,         \* ids given to attempts and to manual experiments
  autoTold,        \* history: how often each outcome was marked as told
  autoCounted      \* history: the runs counted in each workspace, in order

autoVars == <<autoState, autoHosts, autoWorkers, autoIds, autoTold, autoCounted>>

Attempts == 1 .. MaxAttempts
NoJob == [id |-> 0, workspace |-> "none", pid |-> FALSE, age |-> "young"]
NewProject == [runs |-> 0, seen |-> <<>>, cooling |-> FALSE, latest |-> 0, notified |-> 0]
IdleHost == [step |-> "idle", workspace |-> "none", cursor |-> "none", job |-> 0]

AutoInit ==
  /\ autoState = [active |-> NoJob, projects |-> [w \in AutoWorkspaces |-> NewProject]]
  /\ autoHosts = [h \in AutoHosts |-> IdleHost]
  /\ autoWorkers = [a \in Attempts |-> [step |-> "none", inTime |-> FALSE, disowned |-> FALSE]]
  /\ autoIds = 0
  /\ autoTold = [a \in Attempts |-> 0]
  /\ autoCounted = [w \in AutoWorkspaces |-> <<>>]

HostBecomes(h, host) == autoHosts' = [autoHosts EXCEPT ![h] = host]
HostAt(h, step) == autoHosts[h].step = step
WorkerBecomes(a, step) == autoWorkers' = [autoWorkers EXCEPT ![a].step = step]
WorkerAlive(a) == autoWorkers[a].step \notin {"none", "gone"}
Untold(project) == project.latest # 0 /\ project.notified # project.latest
-----------------------------------------------------------------------------
(* Updates of the state file.                                              *)

(* finished: only the active attempt counts.                               *)
finished(state, a, w) ==
  IF state.active.id # a THEN state
  ELSE [state EXCEPT !.active = NoJob, !.projects[w].latest = a]

(* started: the process number of the active attempt.                      *)
started(state, a) == IF state.active.id = a THEN [state EXCEPT !.active.pid = TRUE] ELSE state

(* expired: over its deadline, dead, or never launched.                    *)
expired(job) ==
  \/ job.age = "overdue"
  \/ job.pid /\ ~WorkerAlive(job.id)
  \/ ~job.pid /\ job.age # "young"

(* note: count a run that is not among those remembered, of which the      *)
(* oldest is forgotten, and take the slot when it is free, enough runs were*)
(* saved and the last attempt of this workspace is long enough ago.        *)
Counts(project, cursor) == \A i \in 1 .. Len(project.seen) : project.seen[i] # cursor
Remembered(seen, cursor) ==
  LET longer == Append(seen, cursor)
  IN  IF Len(longer) > SeenLimit THEN Tail(longer) ELSE longer

WithRun(project, cursor) ==
  [project EXCEPT !.seen = Remembered(@, cursor), !.runs = @ + 1]

NoteCounts(state, w, cursor) ==
  LET free == IF expired(state.active) THEN [state EXCEPT !.active = NoJob] ELSE state
  IN  IF Counts(free.projects[w], cursor)
      THEN [free EXCEPT !.projects[w] = WithRun(@, cursor)]
      ELSE free

NoteRefuses(state, w) ==
  \/ state.active.id # 0
  \/ state.projects[w].runs < EveryRuns
  \/ state.projects[w].cooling

NoteTakes(state, w, a) ==
  [state EXCEPT !.active = [NoJob EXCEPT !.id = a, !.workspace = w],
                !.projects[w] = [@ EXCEPT !.runs = 0, !.cooling = TRUE]]
-----------------------------------------------------------------------------
(* After a save.  First the look for an untold outcome, without the lock.  *)
AfterSave(h) ==
  /\ HostAt(h, "idle")
  /\ \E w \in AutoWorkspaces, cursor \in AutoCursors :
       /\ Len(autoCounted[w]) < MaxCounts
       /\ HostBecomes(h, [IdleHost EXCEPT !.workspace = w, !.cursor = cursor,
                            !.step = IF Untold(autoState.projects[w]) THEN "notice" ELSE "note"])
  /\ UNCHANGED <<autoState, autoWorkers, autoIds, autoTold, autoCounted>>

(* Mutant: what was read before the lock is still taken for true.          *)
Notice_Unchecked(h) ==
  LET w == autoHosts[h].workspace
      latest == autoState.projects[w].latest
  IN  /\ HostAt(h, "notice")
      /\ HostBecomes(h, [autoHosts[h] EXCEPT !.step = "note"])
      /\ autoState' = [autoState EXCEPT !.projects[w].notified = latest]
      /\ autoTold' = [autoTold EXCEPT ![latest] = @ + 1]
      /\ UNCHANGED <<autoWorkers, autoIds, autoCounted>>

Notice(h) ==
  LET w == autoHosts[h].workspace
      latest == autoState.projects[w].latest
  IN  /\ HostAt(h, "notice")
      /\ HostBecomes(h, [autoHosts[h] EXCEPT !.step = "note"])
      /\ IF Untold(autoState.projects[w])
         THEN /\ autoState' = [autoState EXCEPT !.projects[w].notified = latest]
              /\ autoTold' = [autoTold EXCEPT ![latest] = @ + 1]
         ELSE UNCHANGED <<autoState, autoTold>>
      /\ UNCHANGED <<autoWorkers, autoIds, autoCounted>>

Note(h) ==
  LET w == autoHosts[h].workspace
      counted == NoteCounts(autoState, w, autoHosts[h].cursor)
  IN  /\ HostAt(h, "note")
      /\ autoCounted' =
           IF Counts(autoState.projects[w], autoHosts[h].cursor)
           THEN [autoCounted EXCEPT ![w] = Append(@, autoHosts[h].cursor)]
           ELSE autoCounted
      /\ IF NoteRefuses(counted, w)
         THEN /\ autoState' = counted
              /\ HostBecomes(h, IdleHost)
              /\ UNCHANGED autoIds
         ELSE /\ autoIds < MaxAttempts
              /\ autoIds' = autoIds + 1
              /\ autoState' = NoteTakes(counted, w, autoIds')
              /\ HostBecomes(h, [autoHosts[h] EXCEPT !.step = "launch", !.job = autoIds'])
      /\ UNCHANGED <<autoWorkers, autoTold>>

(* The launch: the request and its log are written, the worker is spawned. *)
Launch(h) ==
  /\ HostAt(h, "launch")
  /\ WorkerBecomes(autoHosts[h].job, "spawned")
  /\ HostBecomes(h, [autoHosts[h] EXCEPT !.step = "started"])
  /\ UNCHANGED <<autoState, autoIds, autoTold, autoCounted>>

Started(h) ==
  LET a == autoHosts[h].job
  IN  /\ HostAt(h, "started")
      /\ autoState' = started(autoState, a)
      /\ HostBecomes(h, IdleHost)
      /\ UNCHANGED <<autoWorkers, autoIds, autoTold, autoCounted>>

(* The launch fails, before the worker is spawned or when its process      *)
(* number cannot be stored: the attempt is finished with an error.         *)
LaunchFails(h) ==
  LET a == autoHosts[h].job
  IN  /\ HostAt(h, "launch") \/ HostAt(h, "started")
      /\ autoState' = finished(autoState, a, autoHosts[h].workspace)
      /\ autoWorkers' = [autoWorkers EXCEPT ![a].disowned = HostAt(h, "started")]
      /\ HostBecomes(h, IdleHost)
      /\ UNCHANGED <<autoIds, autoTold, autoCounted>>

(* The process dies, or an update of it fails.                             *)
HostFails(h) ==
  /\ ~HostAt(h, "idle")
  /\ HostBecomes(h, IdleHost)
  /\ UNCHANGED <<autoState, autoWorkers, autoIds, autoTold, autoCounted>>

(* A manual experiment is remembered as the latest result.                 *)
remember_result(w) ==
  /\ autoIds < MaxAttempts
  /\ autoIds' = autoIds + 1
  /\ autoState' = [autoState EXCEPT !.projects[w].latest = autoIds']
  /\ UNCHANGED <<autoHosts, autoWorkers, autoTold, autoCounted>>
-----------------------------------------------------------------------------
(* The worker: it looks whether its request is still current, stores its   *)
(* process number, works within max_seconds and stores its outcome.        *)
WorkerReads(a) ==
  /\ autoWorkers[a].step = "spawned"
  /\ WorkerBecomes(a, IF autoState.active.id = a THEN "current" ELSE "gone")
  /\ UNCHANGED <<autoState, autoHosts, autoIds, autoTold, autoCounted>>

WorkerStarts(a) ==
  /\ autoWorkers[a].step = "current"
  /\ autoState' = started(autoState, a)
  /\ autoWorkers' = [autoWorkers EXCEPT ![a].step = "working",
                ![a].inTime = autoState.active.id = a /\ autoState.active.age = "young"]
  /\ UNCHANGED <<autoHosts, autoIds, autoTold, autoCounted>>

(* The outcome of its work, or of having been turned off meanwhile.        *)
WorkerEnds(a) ==
  /\ autoWorkers[a].step \in {"current", "working"}
  /\ \E w \in AutoWorkspaces :
       /\ autoState.active.id = a => autoState.active.workspace = w
       /\ autoState' = finished(autoState, a, w)
  /\ WorkerBecomes(a, "gone")
  /\ UNCHANGED <<autoHosts, autoIds, autoTold, autoCounted>>

WorkerDies(a) ==
  /\ WorkerAlive(a)
  /\ WorkerBecomes(a, "gone")
  /\ UNCHANGED <<autoState, autoHosts, autoIds, autoTold, autoCounted>>

(* Time: thirty seconds after an attempt took the slot, and two minutes    *)
(* after its deadline, when work that began in time has met its timeout.   *)
AutoTime ==
  /\ autoState.active.id # 0
  /\ \E age \in {"late", "overdue"} :
       /\ autoState.active.age # "overdue" /\ autoState.active.age # age
       /\ age = "overdue" =>
            LET worker == autoWorkers[autoState.active.id]
            IN  ~(worker.step = "working" /\ worker.inTime)
       /\ autoState' = [autoState EXCEPT !.active.age = age]
  /\ UNCHANGED <<autoHosts, autoWorkers, autoIds, autoTold, autoCounted>>

CooldownOver(w) ==
  /\ autoState.projects[w].cooling
  /\ autoState' = [autoState EXCEPT !.projects[w].cooling = FALSE]
  /\ UNCHANGED <<autoHosts, autoWorkers, autoIds, autoTold, autoCounted>>

AutoNext ==
  \/ \E h \in AutoHosts :
       AfterSave(h) \/ Notice(h) \/ Note(h) \/ Launch(h) \/ Started(h) \/ LaunchFails(h) \/ HostFails(h)
  \/ \E a \in Attempts : WorkerReads(a) \/ WorkerStarts(a) \/ WorkerEnds(a) \/ WorkerDies(a)
  \/ \E w \in AutoWorkspaces : remember_result(w) \/ CooldownOver(w)
  \/ AutoTime

AutoSpec == AutoInit /\ [][AutoNext]_autoVars
-----------------------------------------------------------------------------
AutoTypeOK ==
  /\ autoState.active \in [id : 0 .. MaxAttempts, workspace : AutoWorkspaces \union {"none"},
                           pid : BOOLEAN, age : {"young", "late", "overdue"}]
  /\ \A w \in AutoWorkspaces :
       autoState.projects[w] \in [runs : Nat, seen : Seq(AutoCursors), cooling : BOOLEAN,
                                  latest : 0 .. MaxAttempts, notified : 0 .. MaxAttempts]
  /\ \A h \in AutoHosts : autoHosts[h].step \in {"idle", "notice", "note", "launch", "started"}
  /\ \A a \in Attempts :
       autoWorkers[a].step \in {"none", "spawned", "current", "working", "gone"}
  /\ autoIds \in 0 .. MaxAttempts

(* A worker at work still holds the one slot, whatever other processes did *)
(* meanwhile, unless it lost it in its launch: it did not start within     *)
(* thirty seconds, or its launcher gave it up.                             *)
AutoHoldsSlot ==
  \A a \in Attempts :
    /\ autoWorkers[a].step = "working"
    /\ autoWorkers[a].inTime /\ ~autoWorkers[a].disowned
    => autoState.active.id = a

(* An outcome is told by one process, once.                                *)
AutoToldOnce == \A a \in Attempts : autoTold[a] <= 1

(* A run counts once in its workspace however often it is saved, until     *)
(* SeenLimit other runs have counted and it is forgotten                   *)
(* (improve/automatic.rs:123-128): saved once more after that, it counts   *)
(* again.                                                                  *)
AutoCountsOnce ==
  \A w \in AutoWorkspaces :
    LET counted == autoCounted[w]
    IN  \A i, j \in 1 .. Len(counted) : i < j /\ counted[i] = counted[j] => j - i > SeenLimit

(* What is promised of the schedule, across processes.                     *)
AutoSchedule == AutoHoldsSlot /\ AutoToldOnce /\ AutoCountsOnce

(* What docs/improve.md:10-11 says, that saving a run again does not count:*)
(* not so of a run that was forgotten meanwhile.                           *)
AutoNeverCountsAgain ==
  \A w \in AutoWorkspaces :
    \A i, j \in 1 .. Len(autoCounted[w]) : autoCounted[w][i] = autoCounted[w][j] => i = j

(* At most one experiment runs at a time.                                  *)
AutoOneAtATime == \A a, b \in Attempts :
  autoWorkers[a].step = "working" /\ autoWorkers[b].step = "working" => a = b
=============================================================================
