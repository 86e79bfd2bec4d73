------------------------------ MODULE SyncRuns ------------------------------
(***************************************************************************)
(* The consumer side of the market data synchronisation: one BullMQ queue  *)
(* and one worker of concurrency 1 per lane (marketdata-sync.worker.ts),   *)
(* and the sync_run rows that each attempt opens and closes                *)
(* (dimension-executor.ts, sync-run.recorder.ts).                          *)
(*                                                                         *)
(* The jobs of a tick are added as a flow and BullMQ gives them a UUID.    *)
(* Jobs added one by one, by the command line or by a requeue, are         *)
(* numbered from 1 in each queue: two lanes can have the same number.  A   *)
(* sync_run row remembers the id of its job and its dimension, and not the *)
(* lane.  A row that is left `running` is closed as `interrupted` in three *)
(* ways: by the next attempt of its job, by the `failed` event of its job, *)
(* and by the reconciliation at start and every hour.  The process may     *)
(* crash at any point, its event loop may hang for longer than a job's     *)
(* lock, events may get lost, and database and Redis calls may fail.       *)
(*                                                                         *)
(* Waiting, delayed and waiting-for-children jobs are all "wait".          *)
(***************************************************************************)
EXTENDS Naturals, FiniteSets

CONSTANTS
  Lanes,        \* QUEUE_LANES
  Dims,         \* dimensions, the names of their jobs
  Scheduled,    \* the enabled ones; the command line can run any of them
  LaneOf,       \* the lane of each dimension
  Jobs, NoJob,  \* jobs
  Runs, NoRun,  \* rows of sync_run
  RetryMax,     \* SyncDimension.retryMax, the attempts of a job
  MaxFaults     \* bound: crashes, hangs, lost events and failed calls

ASSUME SyncRunsAssumption ==
  /\ LaneOf \in [Dims -> Lanes] /\ Dims # {} /\ Scheduled \subseteq Dims
  /\ NoJob \notin Jobs /\ NoRun \notin Runs
  /\ RetryMax \in Nat \ {0}
  /\ MaxFaults \in Nat

VARIABLES
  job,       \* the jobs in Redis
  lastId,    \* the last job number given in each lane
  proc,      \* what the worker of each lane is doing
  run,       \* the sync_run table
  failed,    \* `failed` events not yet handled
  listed,    \* rows the reconciliation has listed and not yet looked at
  faults     \* faults so far

syncVars == <<job, lastId, proc, run, failed, listed, faults>>

-----------------------------------------------------------------------------
JobStates == {"none", "wait", "active", "completed", "failed", "removed"}
RunStates == {"none", "running", "done", "failed", "interrupted"}
Phases == {"idle", "fetched", "converged", "running", "ended"}
Outcomes == {"ok", "budget", "throw"}
Triggers == {"tick", "cli", "requeue"}

(* A UUID, or a number of the job's queue.                                 *)
JobIds == ({"uuid"} \X Jobs) \cup ({"number"} \X Nat)

(* `fire` is the job of the tick a job goes back to through requeues.      *)
(* `deferred` is BullMQ's defa: a job that stalled is not processed again. *)
JobRecord == [dim: Dims, id: JobIds, state: JobStates, left: 1..RetryMax,
              deferred: BOOLEAN, by: Triggers, fire: Jobs]
RunRecord == [status: RunStates, id: JobIds, dim: Dims, by: Triggers,
              job: Jobs \cup {NoJob}]
ProcRecord == [at: Phases, job: Jobs \cup {NoJob}, run: Runs \cup {NoRun},
               outcome: Outcomes]

Idle == [at |-> "idle", job |-> NoJob, run |-> NoRun, outcome |-> "ok"]

(* Every variable has its type.                                            *)
SyncRunsTypeOK ==
  /\ job \in [Jobs -> JobRecord]
  /\ lastId \in [Lanes -> Nat]
  /\ proc \in [Lanes -> ProcRecord]
  /\ run \in [Runs -> RunRecord]
  /\ failed \subseteq Jobs
  /\ listed \subseteq JobIds \X Dims
  /\ faults \in 0..MaxFaults

AnyDim == CHOOSE d \in Dims : TRUE

SyncRunsInit ==
  /\ job = [j \in Jobs |-> [dim |-> AnyDim, id |-> <<"number", 0>>,
                            state |-> "none", left |-> RetryMax,
                            deferred |-> FALSE, by |-> "tick", fire |-> j]]
  /\ lastId = [l \in Lanes |-> 0]
  /\ proc = [l \in Lanes |-> Idle]
  /\ run = [r \in Runs |-> [status |-> "none", id |-> <<"number", 0>>,
                            dim |-> AnyDim, by |-> "tick", job |-> NoJob]]
  /\ failed = {} /\ listed = {} /\ faults = 0

Lane(j) == LaneOf[job[j].dim]
Held(l) == job[proc[l].job]               \* the job a worker processes
HasLock(l) == Held(l).state = "active"    \* it still holds the job's lock
Terminal(j) == job[j].state \in {"completed", "failed", "removed"}
UnusedJobs == {j \in Jobs : job[j].state = "none"}
UnusedRuns == {r \in Runs : run[r].status = "none"}

Fault == faults < MaxFaults /\ faults' = faults + 1
NoFault == UNCHANGED faults

-----------------------------------------------------------------------------
Added(j, d, id, by, fire) ==
  job' = [job EXCEPT ![j] = [dim |-> d, id |-> id, state |-> "wait",
                             left |-> RetryMax, deferred |-> FALSE,
                             by |-> by, fire |-> fire]]

(* enqueueDimensionJob: queue.add gives the next number of the queue.      *)
AddNumbered(j, d, by, fire) ==
  LET l == LaneOf[d]
      next == lastId[l] + 1 IN
  /\ Added(j, d, <<"number", next>>, by, fire)
  /\ lastId' = [lastId EXCEPT ![l] = next]

(* A tick (or a cascade) adds the job of a dimension, with a UUID.         *)
EnqueueFlow(d) ==
  /\ d \in Scheduled /\ UnusedJobs # {}
  /\ LET j == CHOOSE j \in UnusedJobs : TRUE
     IN Added(j, d, <<"uuid", j>>, "tick", j)
  /\ UNCHANGED <<lastId, proc, run, failed, listed, faults>>

(* The command line adds a job of a dimension.                             *)
EnqueueCli(d) ==
  /\ UnusedJobs # {}
  /\ LET j == CHOOSE j \in UnusedJobs : TRUE
     IN AddNumbered(j, d, "cli", j)
  /\ UNCHANGED <<proc, run, failed, listed, faults>>

(* Mutant of RowsToClose: rows are found by their dimension.               *)
RowsOfDimension(id, d) ==
  {r \in Runs : run[r].status = "running" /\ run[r].dim = d}

(* Mutant of RowsToClose: rows that are closed are closed again.           *)
RowsOfJob(id, d) ==
  {r \in Runs : run[r].status # "none" /\ run[r].id = id}

(* convergeInterrupted finds the rows by the id of the job only.           *)
RowsToClose(id, d) ==
  {r \in Runs : run[r].status = "running" /\ run[r].id = id}

Interrupt(id, d) ==
  run' = [r \in Runs |-> IF r \in RowsToClose(id, d)
                         THEN [run[r] EXCEPT !.status = "interrupted"]
                         ELSE run[r]]

(* convergeInterruptedRuns: a failure is logged and swallowed.             *)
ConvergeInterrupted(id, d) ==
  \/ Interrupt(id, d) /\ NoFault
  \/ UNCHANGED run /\ Fault

(* A job that is out of attempts fails, and emits its event.               *)
MoveToFailed(j) ==
  /\ job' = [job EXCEPT ![j].state = "failed"]
  /\ failed' = failed \cup {j}

(* The worker takes a job; one with a deferred failure fails at once.      *)
Fetch(l, j) ==
  /\ proc[l].at = "idle" /\ job[j].state = "wait" /\ Lane(j) = l
  /\ \/ /\ job[j].deferred
        /\ MoveToFailed(j) /\ UNCHANGED proc
     \/ /\ ~job[j].deferred
        /\ job' = [job EXCEPT ![j].state = "active"]
        /\ proc' = [proc EXCEPT ![l].at = "fetched", ![l].job = j]
        /\ UNCHANGED failed
  /\ UNCHANGED <<lastId, run, listed, faults>>

(* Trigger A: before it opens its row, an attempt closes what the last one *)
(* of its job left open.                                                   *)
Converge(l) ==
  /\ proc[l].at = "fetched"
  /\ ConvergeInterrupted(Held(l).id, Held(l).dim)
  /\ proc' = [proc EXCEPT ![l].at = "converged"]
  /\ UNCHANGED <<job, lastId, failed, listed>>

(* recorder.start: the row of this attempt.                                *)
StartRun(l) ==
  /\ proc[l].at = "converged" /\ UnusedRuns # {}
  /\ LET r == CHOOSE r \in UnusedRuns : TRUE IN
       /\ run' = [run EXCEPT ![r] = [status |-> "running", id |-> Held(l).id,
                                     dim |-> Held(l).dim, by |-> Held(l).by,
                                     job |-> proc[l].job]]
       /\ proc' = [proc EXCEPT ![l].at = "running", ![l].run = r]
  /\ UNCHANGED <<job, lastId, failed, listed, faults>>

(* The dimension ran: its row is closed, whatever its status is by now, as *)
(* derived from the counts ("done"); an exception closes it as failed and  *)
(* is passed on.                                                           *)
FinishRun(l, outcome) ==
  /\ proc[l].at = "running"
  /\ outcome = "budget" => UnusedJobs # {}
  /\ run' = [run EXCEPT ![proc[l].run].status =
                IF outcome = "throw" THEN "failed" ELSE "done"]
  /\ proc' = [proc EXCEPT ![l].at = "ended", ![l].outcome = outcome]
  /\ UNCHANGED <<job, lastId, failed, listed, faults>>

(* The database is away: the row cannot be opened, or stays as it is.      *)
RecorderThrows(l) ==
  /\ proc[l].at \in {"converged", "running"}
  /\ Fault
  /\ proc' = [proc EXCEPT ![l].at = "ended", ![l].outcome = "throw"]
  /\ UNCHANGED <<job, lastId, run, failed, listed>>

(* Mutant of RequeuedBy: the new job inherits its trigger.                 *)
InheritedBy(by) == by

(* The rest of a round is not a round of its own.                          *)
RequeuedBy(by) == "requeue"

(* The vendor's budget ran out: the rest is a new job of the same lane.    *)
Requeue(l) ==
  /\ proc[l].at = "ended" /\ proc[l].outcome = "budget"
  /\ \/ /\ UnusedJobs # {}
        /\ LET j == CHOOSE j \in UnusedJobs : TRUE
           IN AddNumbered(j, Held(l).dim, RequeuedBy(Held(l).by), Held(l).fire)
        /\ proc' = [proc EXCEPT ![l].outcome = "ok"]
        /\ NoFault
     \/ /\ Fault
        /\ proc' = [proc EXCEPT ![l].outcome = "throw"]
        /\ UNCHANGED <<job, lastId>>
  /\ UNCHANGED <<run, failed, listed>>

(* Mutant of MayRetry: one attempt too many.                               *)
MayRetryOnceMore(j) == job[j].left >= 1

MayRetry(j) == job[j].left > 1

(* The processor returned: the job is completed, tried again or failed. A  *)
(* worker that lost the job's lock meanwhile can do none of these.         *)
EndJob(l) ==
  /\ proc[l].at = "ended" /\ proc[l].outcome # "budget"
  /\ LET j == proc[l].job IN
       \/ /\ ~HasLock(l)
          /\ UNCHANGED <<job, failed>>
       \/ /\ HasLock(l) /\ proc[l].outcome = "ok"
          /\ job' = [job EXCEPT ![j].state = "completed"]
          /\ UNCHANGED failed
       \/ /\ HasLock(l) /\ proc[l].outcome = "throw" /\ MayRetry(j)
          /\ job' = [job EXCEPT ![j].state = "wait", ![j].left = @ - 1]
          /\ UNCHANGED failed
       \/ /\ HasLock(l) /\ proc[l].outcome = "throw" /\ ~MayRetry(j)
          /\ MoveToFailed(j)
  /\ proc' = [proc EXCEPT ![l] = Idle]
  /\ UNCHANGED <<lastId, run, listed, faults>>

WorkerStep(l) ==
  \/ \E j \in Jobs : Fetch(l, j)
  \/ Converge(l) \/ StartRun(l) \/ RecorderThrows(l)
  \/ \E o \in Outcomes : FinishRun(l, o)
  \/ Requeue(l) \/ EndJob(l)

-----------------------------------------------------------------------------
(* maxStalledCount is 0: a job that lost its lock goes back to the queue   *)
(* with a deferred failure.                                                *)
Unlocked(j) == job' = [job EXCEPT ![j].state = "wait", ![j].deferred = TRUE]

(* The event loop hangs longer than the lock lasts; the processor goes on. *)
Hang(l) ==
  /\ proc[l].at # "idle" /\ HasLock(l)
  /\ Unlocked(proc[l].job) /\ Fault
  /\ UNCHANGED <<lastId, proc, run, failed, listed>>

(* The stalled check finds a job that no living worker renews.             *)
StalledCheck(j) ==
  /\ job[j].state = "active" /\ \A l \in Lanes : proc[l].job # j
  /\ Unlocked(j)
  /\ UNCHANGED <<lastId, proc, run, failed, listed, faults>>

(* The process dies, with the events it has not read; it starts again.     *)
Crash ==
  /\ Fault
  /\ proc' = [l \in Lanes |-> Idle]
  /\ failed' = {} /\ listed' = {}
  /\ UNCHANGED <<job, lastId, run>>

(* removeOnComplete and removeOnFail.                                      *)
Trim(j) ==
  /\ job[j].state \in {"completed", "failed"}
  /\ job' = [job EXCEPT ![j].state = "removed"]
  /\ UNCHANGED <<lastId, proc, run, failed, listed, faults>>

(* Trigger B: onJobFailed.                                                 *)
OnJobFailed(j) ==
  /\ j \in failed
  /\ failed' = failed \ {j}
  /\ ConvergeInterrupted(job[j].id, job[j].dim)
  /\ UNCHANGED <<job, lastId, proc, listed>>

EventLost(j) ==
  /\ j \in failed
  /\ failed' = failed \ {j} /\ Fault
  /\ UNCHANGED <<job, lastId, proc, run, listed>>

(* reconcileOrphanedRuns begins with a list.  A pass ends long before the  *)
(* next one, an hour later.                                                *)
ReconcileList ==
  /\ listed = {}
  /\ listed' = {<<run[r].id, run[r].dim>> :
                  r \in {r \in Runs : run[r].status = "running"}}
  /\ UNCHANGED <<job, lastId, proc, run, failed, faults>>

(* Mutant of jobMayStillRun: a job that cannot be found may still run.     *)
MayRunUnlessEnded(id, d) ==
  ~ \E j \in Jobs : /\ job[j].id = id /\ job[j].dim = d
                    /\ job[j].state \in {"completed", "failed"}

(* Some lane has a job of that id and name that has not ended.             *)
jobMayStillRun(id, d) ==
  \E j \in Jobs : /\ job[j].id = id /\ job[j].dim = d
                  /\ job[j].state \in {"wait", "active"}

(* One row of the list.  The verdict that a job has ended stays true, so   *)
(* that it does not matter how late the update follows the lookup.         *)
ReconcileCheck(id, d) ==
  /\ <<id, d>> \in listed
  /\ listed' = listed \ {<<id, d>>}
  /\ IF jobMayStillRun(id, d) THEN UNCHANGED <<run, faults>>
                              ELSE ConvergeInterrupted(id, d)
  /\ UNCHANGED <<job, lastId, proc, failed>>

(* A lookup throws: the rest of the list is dropped until the next pass.   *)
ReconcileThrows ==
  /\ listed # {} /\ Fault
  /\ listed' = {}
  /\ UNCHANGED <<job, lastId, proc, run, failed>>

ReconcileStep ==
  ReconcileList \/ \E x \in listed : ReconcileCheck(x[1], x[2])

SyncRunsNext ==
  \/ \E d \in Dims : EnqueueFlow(d) \/ EnqueueCli(d)
  \/ \E l \in Lanes : WorkerStep(l) \/ Hang(l)
  \/ \E j \in Jobs : StalledCheck(j) \/ Trim(j)
  \/ \E j \in Jobs : OnJobFailed(j) \/ EventLost(j)
  \/ Crash \/ ReconcileStep \/ ReconcileThrows

SyncRunsSpec == SyncRunsInit /\ [][SyncRunsNext]_syncVars

-----------------------------------------------------------------------------
(* The worker goes on with its job, Redis runs its checks, events and the  *)
(* hourly reconciliation are handled while the process lives.              *)
SyncRunsFairness ==
  /\ \A l \in Lanes : WF_syncVars(WorkerStep(l))
  /\ WF_syncVars(\E j \in Jobs : StalledCheck(j))
  /\ WF_syncVars(ReconcileStep)

SyncRunsFairSpec == SyncRunsSpec /\ SyncRunsFairness

(* An attempt is at work on its row.                                       *)
Live(r) == \E l \in Lanes : proc[l].at = "running" /\ proc[l].run = r

InterruptsLive(r) ==
  /\ run[r].status = "running" /\ run'[r].status = "interrupted"
  /\ Live(r)

(* What convergeInterrupted says of itself: a row that is still `running`  *)
(* under the same job id is one of a past attempt, and never one of an     *)
(* execution that is alive.                                                *)
ConvergesOnlyTheDead == [][\A r \in Runs : ~InterruptsLive(r)]_syncVars

(* What holds instead: a row of a living attempt is closed from outside    *)
(* only if a job of another lane has the same number.  None of the three   *)
(* triggers errs otherwise, however late events and lists are handled.     *)
InterruptedHasTwin ==
  [][\A r \in Runs : InterruptsLive(r) =>
       \E j \in Jobs : /\ job[j].state # "none" /\ job[j].id = run[r].id
                       /\ Lane(j) # LaneOf[run[r].dim]]_syncVars

(* The outcome an attempt has reported is never overwritten, by a later    *)
(* attempt, an event or the reconciliation.                                *)
ReportedOutcomeStays ==
  [][\A r \in Runs : run[r].status \in {"done", "failed"} =>
       run'[r] = run[r]]_syncVars

(* Counters of rounds take each row triggered by a tick for an attempt of  *)
(* that tick: one fire of a dimension makes at most RetryMax of them, and  *)
(* exhausted budgets make none.                                            *)
TickRowsBounded ==
  \A f \in Jobs :
    Cardinality({r \in Runs : /\ run[r].status # "none" /\ run[r].by = "tick"
                              /\ job[run[r].job].fire = f}) <= RetryMax

(* No row stays `running` for ever: crashes, lost events and trimmed jobs  *)
(* are all covered by one of the three triggers.                           *)
EveryRowCloses ==
  \A r \in Runs : run[r].status = "running" ~> run[r].status # "running"
=============================================================================
