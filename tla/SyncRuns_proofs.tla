--------------------------- MODULE SyncRuns_proofs ---------------------------
(***************************************************************************)
(* Proofs about SyncRuns, for any lanes, dimensions, jobs, rows and number *)
(* of attempts and faults.                                                 *)
(*                                                                         *)
(* Who closes the row of a living attempt?  A worker has a job of its own  *)
(* lane that has not failed (AtWork), its row bears the id and dimension of*)
(* that job (OnItsRow), and within a lane no two jobs share an id          *)
(* (IdsOfLane).  So a row found by the id of another job is one of another *)
(* lane, and the triggers that come from the same job come when it no      *)
(* longer runs.                                                            *)
(*                                                                         *)
(* How many rows does a fire make?  At each moment the rows of a job and   *)
(* the attempts it has left make RetryMax, or one more once the present    *)
(* attempt has opened its row (AttemptRows): that needs a job at work never*)
(* to be fetched again (OneAttempt), which is what the deferred failure of *)
(* a stalled job is for, and rows to say the trigger of their job.         *)
(***************************************************************************)
EXTENDS SyncRuns, FiniteSetTheorems, TLAPS

AtWork ==
  \A l \in Lanes : proc[l].at # "idle" =>
    /\ proc[l].job \in Jobs
    /\ Lane(proc[l].job) = l
    /\ job[proc[l].job].state \in {"wait", "active"}

OnItsRow ==
  \A l \in Lanes : proc[l].at = "running" =>
    /\ proc[l].run \in Runs
    /\ run[proc[l].run].status \in {"running", "interrupted"}
    /\ run[proc[l].run].id = job[proc[l].job].id
    /\ run[proc[l].run].dim = job[proc[l].job].dim

IdsGiven ==
  \A j \in Jobs : job[j].state # "none" =>
    \/ job[j].id = <<"uuid", j>>
    \/ \E n \in Nat : job[j].id = <<"number", n>> /\ n <= lastId[Lane(j)]

IdsOfLane ==
  \A i, j \in Jobs :
    /\ job[i].state # "none" /\ job[j].state # "none"
    /\ job[i].id = job[j].id /\ Lane(i) = Lane(j)
    => i = j

FailedEnded == \A j \in failed : job[j].state \in {"failed", "removed"}

(* Rows and listed rows are those of a job that was added.                 *)
IsOfAJob(id, d) ==
  \E j \in Jobs : job[j].state # "none" /\ job[j].id = id /\ job[j].dim = d

RowsOfJobs ==
  /\ \A r \in Runs : run[r].status # "none" => IsOfAJob(run[r].id, run[r].dim)
  /\ \A x \in listed : IsOfAJob(x[1], x[2])

SyncRunsInv ==
  /\ SyncRunsTypeOK
  /\ AtWork
  /\ OnItsRow
  /\ IdsGiven
  /\ IdsOfLane
  /\ FailedEnded
  /\ RowsOfJobs

-----------------------------------------------------------------------------
(* The fields of well-typed jobs, workers and rows.                        *)
LEMMA JobFields ==
  ASSUME SyncRunsTypeOK, NEW j \in Jobs
  PROVE  /\ job[j] \in JobRecord
         /\ job[j].dim \in Dims /\ job[j].id \in JobIds
         /\ job[j].state \in JobStates /\ job[j].left \in 1..RetryMax
         /\ job[j].deferred \in BOOLEAN /\ job[j].by \in Triggers
         /\ job[j].fire \in Jobs /\ Lane(j) \in Lanes
  <1>1. job[j] \in JobRecord
    BY DEF SyncRunsTypeOK
  <1> QED BY <1>1, SyncRunsAssumption DEF JobRecord, Lane

LEMMA ProcFields ==
  ASSUME SyncRunsTypeOK, NEW l \in Lanes
  PROVE  /\ proc[l] \in ProcRecord
         /\ proc[l].at \in Phases /\ proc[l].outcome \in Outcomes
         /\ proc[l].job \in Jobs \cup {NoJob}
         /\ proc[l].run \in Runs \cup {NoRun}
  <1>1. proc[l] \in ProcRecord
    BY DEF SyncRunsTypeOK
  <1> QED BY <1>1 DEF ProcRecord

LEMMA RunFields ==
  ASSUME SyncRunsTypeOK, NEW r \in Runs
  PROVE  /\ run[r] \in RunRecord
         /\ run[r].status \in RunStates /\ run[r].id \in JobIds
         /\ run[r].dim \in Dims
  <1>1. run[r] \in RunRecord
    BY DEF SyncRunsTypeOK
  <1> QED BY <1>1 DEF RunRecord

LEMMA AnUnusedJob ==
  ASSUME UnusedJobs # {}
  PROVE  /\ (CHOOSE j \in UnusedJobs : TRUE) \in Jobs
         /\ job[CHOOSE j \in UnusedJobs : TRUE].state = "none"
  BY DEF UnusedJobs

LEMMA AnUnusedRun ==
  ASSUME UnusedRuns # {}
  PROVE  /\ (CHOOSE r \in UnusedRuns : TRUE) \in Runs
         /\ run[CHOOSE r \in UnusedRuns : TRUE].status = "none"
  BY DEF UnusedRuns

KeyStays(r) ==
  /\ run'[r].id = run[r].id /\ run'[r].dim = run[r].dim
  /\ run'[r].job = run[r].job /\ run'[r].by = run[r].by

(* Closing rows keeps all of a row but its status.                         *)
LEMMA Closing ==
  ASSUME SyncRunsTypeOK, NEW id, NEW d, ConvergeInterrupted(id, d)
  PROVE  /\ run' \in [Runs -> RunRecord]
         /\ faults' \in 0..MaxFaults
         /\ \A r \in Runs :
              /\ KeyStays(r)
              /\ \/ run'[r] = run[r]
                 \/ /\ run[r].status = "running" /\ run[r].id = id
                    /\ run'[r].status = "interrupted"
  <1>0. run \in [Runs -> RunRecord] /\ faults \in 0..MaxFaults
    BY DEF SyncRunsTypeOK
  <1>1. CASE UNCHANGED run /\ Fault
    BY <1>0, <1>1, SyncRunsAssumption DEF Fault, KeyStays
  <1>2. CASE Interrupt(id, d) /\ NoFault
    <2>1. \A r \in Runs : run[r] \in RunRecord
      BY <1>0
    <2>2. \A r \in Runs :
            [run[r] EXCEPT !.status = "interrupted"] \in RunRecord
      BY <2>1 DEF RunRecord, RunStates
    <2>3. run' \in [Runs -> RunRecord]
      BY <1>2, <2>1, <2>2 DEF Interrupt
    <2>4. \A r \in Runs :
            run'[r] = IF r \in RowsToClose(id, d)
                      THEN [run[r] EXCEPT !.status = "interrupted"]
                      ELSE run[r]
      BY <1>2 DEF Interrupt
    <2> QED BY <1>0, <1>2, <2>1, <2>3, <2>4
            DEF NoFault, RowsToClose, RunRecord, KeyStays
  <1> QED BY <1>1, <1>2 DEF ConvergeInterrupted

LEMMA InitInv == SyncRunsInit => SyncRunsInv
  <1> SUFFICES ASSUME SyncRunsInit PROVE SyncRunsInv
    OBVIOUS
  <1>1. AnyDim \in Dims
    BY SyncRunsAssumption DEF AnyDim
  <1>2. <<"number", 0>> \in JobIds
    BY DEF JobIds
  <1>3. RetryMax \in 1..RetryMax
    BY SyncRunsAssumption
  <1>4. \A j \in Jobs : job[j] \in JobRecord /\ job[j].state = "none"
    BY <1>1, <1>2, <1>3 DEF SyncRunsInit, JobRecord, JobStates, Triggers
  <1>5. \A r \in Runs : run[r] \in RunRecord /\ run[r].status = "none"
    BY <1>1, <1>2 DEF SyncRunsInit, RunRecord, RunStates, Triggers
  <1>6. Idle \in ProcRecord /\ Idle.at = "idle"
    BY DEF Idle, ProcRecord, Phases, Outcomes
  <1>7. SyncRunsTypeOK
    <2>1. job \in [Jobs -> JobRecord]
      BY <1>4 DEF SyncRunsInit
    <2>2. run \in [Runs -> RunRecord]
      BY <1>5 DEF SyncRunsInit
    <2>3. proc \in [Lanes -> ProcRecord]
      BY <1>6 DEF SyncRunsInit
    <2>4. lastId \in [Lanes -> Nat] /\ faults \in 0..MaxFaults
      BY SyncRunsAssumption DEF SyncRunsInit
    <2> QED BY <2>1, <2>2, <2>3, <2>4 DEF SyncRunsInit, SyncRunsTypeOK
  <1> QED BY <1>4, <1>5, <1>6, <1>7
          DEF SyncRunsInit, SyncRunsInv, AtWork, OnItsRow, IdsGiven, IdsOfLane,
              FailedEnded, RowsOfJobs

-----------------------------------------------------------------------------
(* Type correctness, step by step.                                         *)
LEMMA AddedTyped ==
  ASSUME SyncRunsTypeOK, NEW j \in Jobs, NEW d \in Dims, NEW id \in JobIds,
         NEW by \in Triggers, NEW fire \in Jobs, Added(j, d, id, by, fire)
  PROVE  job' \in [Jobs -> JobRecord]
  <1>1. RetryMax \in 1..RetryMax
    BY SyncRunsAssumption
  <1>2. [dim |-> d, id |-> id, state |-> "wait", left |-> RetryMax,
         deferred |-> FALSE, by |-> by, fire |-> fire] \in JobRecord
    BY <1>1 DEF JobRecord, JobStates
  <1> QED BY <1>2 DEF Added, SyncRunsTypeOK

LEMMA NumberedTyped ==
  ASSUME SyncRunsTypeOK, NEW j \in Jobs, NEW d \in Dims,
         NEW by \in Triggers, NEW fire \in Jobs, AddNumbered(j, d, by, fire)
  PROVE  job' \in [Jobs -> JobRecord] /\ lastId' \in [Lanes -> Nat]
  <1>1. LaneOf[d] \in Lanes /\ lastId[LaneOf[d]] + 1 \in Nat
    BY SyncRunsAssumption DEF SyncRunsTypeOK
  <1>2. <<"number", lastId[LaneOf[d]] + 1>> \in JobIds
    BY <1>1 DEF JobIds
  <1> QED BY <1>1, <1>2, AddedTyped DEF AddNumbered, SyncRunsTypeOK

LEMMA StateTyped ==
  ASSUME SyncRunsTypeOK, NEW j \in Jobs, NEW s \in JobStates,
         job' = [job EXCEPT ![j].state = s]
  PROVE  job' \in [Jobs -> JobRecord]
  <1>1. [job[j] EXCEPT !.state = s] \in JobRecord
    BY JobFields DEF JobRecord
  <1> QED BY <1>1 DEF SyncRunsTypeOK

LEMMA UnlockedTyped ==
  ASSUME SyncRunsTypeOK, NEW j \in Jobs, Unlocked(j)
  PROVE  job' \in [Jobs -> JobRecord]
  <1>1. ASSUME NEW b \in JobRecord
        PROVE  [b EXCEPT !.state = "wait", !.deferred = TRUE] \in JobRecord
    BY DEF JobRecord, JobStates
  <1>2. job[j] \in JobRecord
    BY JobFields
  <1> QED BY <1>1, <1>2 DEF SyncRunsTypeOK, Unlocked

LEMMA ProcTyped ==
  ASSUME SyncRunsTypeOK, NEW l \in Lanes, NEW p \in ProcRecord,
         proc' = [proc EXCEPT ![l] = p]
  PROVE  proc' \in [Lanes -> ProcRecord]
  BY DEF SyncRunsTypeOK

LEMMA WorkerTyped ==
  ASSUME SyncRunsTypeOK, AtWork, OnItsRow, NEW l \in Lanes, WorkerStep(l)
  PROVE  SyncRunsTypeOK'
  <1> DEFINE p == proc[l]
  <1>0. /\ proc \in [Lanes -> ProcRecord] /\ job \in [Jobs -> JobRecord]
        /\ run \in [Runs -> RunRecord] /\ lastId \in [Lanes -> Nat]
        /\ failed \subseteq Jobs /\ listed \subseteq JobIds \X Dims
        /\ faults \in 0..MaxFaults
    BY DEF SyncRunsTypeOK
  <1>a. /\ p \in ProcRecord
        /\ p.at # "idle" => p.job \in Jobs
        /\ p.at = "running" => p.run \in Runs
    BY ProcFields DEF AtWork, OnItsRow
  <1>1. ASSUME NEW j \in Jobs, Fetch(l, j) PROVE SyncRunsTypeOK'
    <2>1. [p EXCEPT !.at = "fetched", !.job = j] \in ProcRecord
      BY <1>a DEF ProcRecord, Phases
    <2>2. proc' \in [Lanes -> ProcRecord]
      BY <1>0, <1>1, <2>1 DEF Fetch
    <2>3. job' \in [Jobs -> JobRecord]
      BY <1>1, StateTyped DEF Fetch, MoveToFailed, JobStates
    <2> QED BY <1>0, <1>1, <2>2, <2>3 DEF Fetch, MoveToFailed, SyncRunsTypeOK
  <1>2. CASE Converge(l)
    <2>1. [p EXCEPT !.at = "converged"] \in ProcRecord
      BY <1>a DEF ProcRecord, Phases
    <2>2. proc' \in [Lanes -> ProcRecord]
      BY <1>0, <1>2, <2>1 DEF Converge
    <2>3. run' \in [Runs -> RunRecord] /\ faults' \in 0..MaxFaults
      BY <1>2, Closing DEF Converge
    <2> QED BY <1>0, <1>2, <2>2, <2>3 DEF Converge, SyncRunsTypeOK
  <1>3. CASE StartRun(l)
    <2> DEFINE r == CHOOSE r \in UnusedRuns : TRUE
               row == [status |-> "running", id |-> Held(l).id,
                       dim |-> Held(l).dim, by |-> Held(l).by, job |-> p.job]
    <2>1. r \in Runs /\ p.job \in Jobs
      BY <1>a, <1>3, AnUnusedRun DEF StartRun
    <2>2. row \in RunRecord
      BY <2>1, JobFields DEF Held, RunRecord, RunStates
    <2>3. [p EXCEPT !.at = "running", !.run = r] \in ProcRecord
      BY <1>a, <2>1 DEF ProcRecord, Phases
    <2>4. run' = [run EXCEPT ![r] = row]
      BY <1>3 DEF StartRun
    <2>5. proc' \in [Lanes -> ProcRecord]
      BY <1>0, <1>3, <2>3 DEF StartRun
    <2>6. run' \in [Runs -> RunRecord]
      BY <1>0, <2>1, <2>2, <2>4
    <2> QED BY <1>0, <1>3, <2>5, <2>6 DEF StartRun, SyncRunsTypeOK
  <1>4. CASE RecorderThrows(l)
    <2>1. [p EXCEPT !.at = "ended", !.outcome = "throw"] \in ProcRecord
      BY <1>a DEF ProcRecord, Phases, Outcomes
    <2>2. proc' \in [Lanes -> ProcRecord]
      BY <1>0, <1>4, <2>1 DEF RecorderThrows
    <2>3. faults' \in 0..MaxFaults
      BY <1>0, <1>4, SyncRunsAssumption DEF RecorderThrows, Fault
    <2> QED BY <1>0, <1>4, <2>2, <2>3 DEF RecorderThrows, SyncRunsTypeOK
  <1>5. ASSUME NEW o \in Outcomes, FinishRun(l, o) PROVE SyncRunsTypeOK'
    <2>1. [p EXCEPT !.at = "ended", !.outcome = o] \in ProcRecord
      BY <1>a DEF ProcRecord, Phases
    <2>2. proc' \in [Lanes -> ProcRecord]
      BY <1>0, <1>5, <2>1 DEF FinishRun
    <2>3. \A s \in {"failed", "done"} :
            [run[p.run] EXCEPT !.status = s] \in RunRecord
      BY <1>a, <1>5, RunFields DEF FinishRun, RunRecord, RunStates
    <2>4. run' \in [Runs -> RunRecord]
      BY <1>0, <1>a, <1>5, <2>3 DEF FinishRun
    <2> QED BY <1>0, <1>5, <2>2, <2>4 DEF FinishRun, SyncRunsTypeOK
  <1>6. CASE Requeue(l)
    <2>1. \A o \in Outcomes : [p EXCEPT !.outcome = o] \in ProcRecord
      BY <1>a DEF ProcRecord
    <2>2. proc' \in [Lanes -> ProcRecord]
      BY <1>0, <1>6, <2>1 DEF Requeue, Outcomes
    <2>3. faults' \in 0..MaxFaults
      BY <1>0, <1>6, SyncRunsAssumption DEF Requeue, Fault, NoFault
    <2>4. p.job \in Jobs
      BY <1>a, <1>6 DEF Requeue
    <2>5. Held(l).dim \in Dims /\ Held(l).fire \in Jobs
      BY <2>4, JobFields DEF Held
    <2>6. RequeuedBy(Held(l).by) \in Triggers
      BY DEF RequeuedBy, Triggers
    <2>7. job' \in [Jobs -> JobRecord] /\ lastId' \in [Lanes -> Nat]
      BY <1>0, <1>6, <2>5, <2>6, NumberedTyped, AnUnusedJob DEF Requeue
    <2> QED BY <1>0, <1>6, <2>2, <2>3, <2>7 DEF Requeue, SyncRunsTypeOK
  <1>7. CASE EndJob(l)
    <2>1. proc' \in [Lanes -> ProcRecord]
      BY <1>0, <1>7
      DEF EndJob, Idle, ProcRecord, Phases, Outcomes
    <2>2. p.job \in Jobs
      BY <1>a, <1>7 DEF EndJob
    <2>3. MayRetry(p.job) => job[p.job].left - 1 \in 1..RetryMax
      BY <2>2, JobFields, SyncRunsAssumption DEF MayRetry
    <2>4. ASSUME NEW b \in JobRecord, b.left - 1 \in 1..RetryMax
          PROVE  [b EXCEPT !.state = "wait", !.left = @ - 1] \in JobRecord
      BY <2>4 DEF JobRecord, JobStates
    <2>6. job[p.job] \in JobRecord
      BY <2>2, JobFields
    <2>5. job' \in [Jobs -> JobRecord]
      <3>1. CASE MayRetry(p.job)
                 /\ job' = [job EXCEPT ![p.job].state = "wait",
                                       ![p.job].left = @ - 1]
        BY <1>0, <2>2, <2>3, <2>4, <2>6, <3>1
      <3>2. CASE \E s \in JobStates : job' = [job EXCEPT ![p.job].state = s]
        BY <2>2, <3>2, StateTyped
      <3>3. CASE UNCHANGED job
        BY <1>0, <3>3
      <3> QED BY <1>7, <3>1, <3>2, <3>3 DEF EndJob, MoveToFailed, JobStates
    <2> QED BY <1>0, <1>7, <2>1, <2>2, <2>5
            DEF EndJob, MoveToFailed, SyncRunsTypeOK
  <1> QED BY <1>1, <1>2, <1>3, <1>4, <1>5, <1>6, <1>7 DEF WorkerStep

(* Types are kept by every step.                                           *)
LEMMA StepTyped ==
  ASSUME SyncRunsTypeOK, AtWork, OnItsRow, [SyncRunsNext]_syncVars
  PROVE  SyncRunsTypeOK'
  <1>0. /\ proc \in [Lanes -> ProcRecord] /\ job \in [Jobs -> JobRecord]
        /\ run \in [Runs -> RunRecord] /\ lastId \in [Lanes -> Nat]
        /\ failed \subseteq Jobs /\ listed \subseteq JobIds \X Dims
        /\ faults \in 0..MaxFaults
    BY DEF SyncRunsTypeOK
  <1>f. Fault => faults' \in 0..MaxFaults
    BY <1>0, SyncRunsAssumption DEF Fault
  <1>1. ASSUME NEW d \in Dims, EnqueueFlow(d) PROVE SyncRunsTypeOK'
    <2> DEFINE j == CHOOSE j \in UnusedJobs : TRUE
    <2>0. j \in Jobs
      BY <1>1, AnUnusedJob DEF EnqueueFlow
    <2> HIDE DEF j
    <2>1. <<"uuid", j>> \in JobIds
      BY <2>0 DEF JobIds
    <2>2. Added(j, d, <<"uuid", j>>, "tick", j)
      BY <1>1 DEF EnqueueFlow, j
    <2>3. job' \in [Jobs -> JobRecord]
      BY <2>0, <2>1, <2>2, AddedTyped DEF Triggers
    <2> QED BY <1>0, <1>1, <2>3 DEF EnqueueFlow, SyncRunsTypeOK
  <1>2. ASSUME NEW d \in Dims, EnqueueCli(d) PROVE SyncRunsTypeOK'
    <2> DEFINE j == CHOOSE j \in UnusedJobs : TRUE
    <2>1. j \in Jobs
      BY <1>2, AnUnusedJob DEF EnqueueCli
    <2>2. AddNumbered(j, d, "cli", j)
      BY <1>2 DEF EnqueueCli
    <2>3. job' \in [Jobs -> JobRecord] /\ lastId' \in [Lanes -> Nat]
      BY <2>1, <2>2, NumberedTyped DEF Triggers
    <2> QED BY <1>0, <1>2, <2>3 DEF EnqueueCli, SyncRunsTypeOK
  <1>3. ASSUME NEW l \in Lanes, Hang(l) PROVE SyncRunsTypeOK'
    <2>1. proc[l].job \in Jobs
      BY <1>3 DEF Hang, AtWork
    <2>2. job' \in [Jobs -> JobRecord]
      BY <1>3, <2>1, UnlockedTyped DEF Hang
    <2> QED BY <1>0, <1>f, <1>3, <2>2 DEF Hang, SyncRunsTypeOK
  <1>4. ASSUME NEW j \in Jobs, StalledCheck(j) PROVE SyncRunsTypeOK'
    <2>1. job' \in [Jobs -> JobRecord]
      BY <1>4, UnlockedTyped DEF StalledCheck
    <2> QED BY <1>0, <1>4, <2>1 DEF StalledCheck, SyncRunsTypeOK
  <1>5. ASSUME NEW j \in Jobs, Trim(j) PROVE SyncRunsTypeOK'
    <2>1. job' \in [Jobs -> JobRecord]
      BY <1>5, StateTyped DEF Trim, JobStates
    <2> QED BY <1>0, <1>5, <2>1 DEF Trim, SyncRunsTypeOK
  <1>6. ASSUME NEW j \in Jobs, OnJobFailed(j) PROVE SyncRunsTypeOK'
    <2>1. run' \in [Runs -> RunRecord] /\ faults' \in 0..MaxFaults
      BY <1>6, Closing DEF OnJobFailed
    <2> QED BY <1>0, <1>6, <2>1 DEF OnJobFailed, SyncRunsTypeOK
  <1>7. ASSUME NEW j \in Jobs, EventLost(j) PROVE SyncRunsTypeOK'
    BY <1>0, <1>f, <1>7 DEF EventLost, SyncRunsTypeOK
  <1>8. CASE Crash
    <2>1. Idle \in ProcRecord
      BY DEF Idle, ProcRecord, Phases, Outcomes
    <2>2. proc' \in [Lanes -> ProcRecord]
      BY <1>8, <2>1 DEF Crash
    <2> QED BY <1>0, <1>f, <1>8, <2>2 DEF Crash, SyncRunsTypeOK
  <1>9. CASE ReconcileList
    <2>1. \A r \in Runs : run[r].id \in JobIds /\ run[r].dim \in Dims
      BY RunFields
    <2>2. listed' \subseteq JobIds \X Dims
      BY <1>9, <2>1 DEF ReconcileList
    <2> QED BY <1>0, <1>9, <2>2 DEF ReconcileList, SyncRunsTypeOK
  <1>10. ASSUME NEW x \in listed, ReconcileCheck(x[1], x[2])
         PROVE  SyncRunsTypeOK'
    <2>1. run' \in [Runs -> RunRecord] /\ faults' \in 0..MaxFaults
      <3>1. CASE jobMayStillRun(x[1], x[2])
        BY <1>0, <1>10, <3>1 DEF ReconcileCheck
      <3>2. CASE ~jobMayStillRun(x[1], x[2])
        BY <1>10, <3>2, Closing DEF ReconcileCheck
      <3> QED BY <3>1, <3>2
    <2> QED BY <1>0, <1>10, <2>1 DEF ReconcileCheck, SyncRunsTypeOK
  <1>11. CASE ReconcileThrows
    BY <1>0, <1>f, <1>11 DEF ReconcileThrows, SyncRunsTypeOK
  <1>12. CASE UNCHANGED syncVars
    BY <1>0, <1>12 DEF syncVars, SyncRunsTypeOK
  <1> QED BY <1>1, <1>2, <1>3, <1>4, <1>5, <1>6, <1>7, <1>8, <1>9, <1>10,
             <1>11, <1>12, WorkerTyped DEF SyncRunsNext, ReconcileStep

-----------------------------------------------------------------------------
(* What a step does to the jobs: it adds one, with a number or a UUID that *)
(* is new in its lane, or it keeps the id and the dimension of all.        *)
Adds(j, d, by, fire) ==
  /\ job[j].state = "none"
  /\ \/ Added(j, d, <<"uuid", j>>, by, fire) /\ UNCHANGED lastId
     \/ AddNumbered(j, d, by, fire)

Keeps ==
  /\ UNCHANGED lastId
  /\ \A j \in Jobs : /\ job'[j].id = job[j].id /\ job'[j].dim = job[j].dim
                     /\ job'[j].by = job[j].by /\ job'[j].fire = job[j].fire
                     /\ job'[j].state = "none" <=> job[j].state = "none"

AddsOrKeeps ==
  \/ \E j \in Jobs, d \in Dims, by \in Triggers, fire \in Jobs :
       Adds(j, d, by, fire) /\ (by = "tick" => fire = j)
  \/ Keeps

LEMMA MoveKeeps ==
  ASSUME SyncRunsTypeOK, NEW j \in Jobs, job[j].state # "none",
         NEW s \in JobStates \ {"none"}, UNCHANGED lastId,
         \/ job' = [job EXCEPT ![j].state = s]
         \/ job' = [job EXCEPT ![j].state = s, ![j].left = @ - 1]
         \/ job' = [job EXCEPT ![j].state = s, ![j].deferred = TRUE]
  PROVE  Keeps
  <1>1. \A i \in Jobs : job[i] \in JobRecord
    BY JobFields
  <1>2. job \in [Jobs -> JobRecord]
    BY DEF SyncRunsTypeOK
  <1>3. ASSUME NEW b, NEW c,
               \/ c = [b EXCEPT !.state = s]
               \/ c = [b EXCEPT !.state = s, !.left = @ - 1]
               \/ c = [b EXCEPT !.state = s, !.deferred = TRUE],
               b \in JobRecord
        PROVE  /\ c.id = b.id /\ c.dim = b.dim /\ c.by = b.by
               /\ c.fire = b.fire /\ c.state = s
    BY <1>3 DEF JobRecord
  <1>4. \A i \in Jobs : i # j => job'[i] = job[i]
    BY <1>2
  <1>5. \/ job'[j] = [job[j] EXCEPT !.state = s]
        \/ job'[j] = [job[j] EXCEPT !.state = s, !.left = @ - 1]
        \/ job'[j] = [job[j] EXCEPT !.state = s, !.deferred = TRUE]
    BY <1>2
  <1>6. /\ job'[j].id = job[j].id /\ job'[j].dim = job[j].dim
        /\ job'[j].by = job[j].by /\ job'[j].fire = job[j].fire
        /\ job'[j].state = s
    <2>1. job[j] \in JobRecord
      BY <1>1
    <2> QED BY <1>3, <1>5, <2>1
  <1> QED BY <1>4, <1>6 DEF Keeps

LEMMA StepAddsOrKeeps ==
  ASSUME SyncRunsTypeOK, AtWork, [SyncRunsNext]_syncVars
  PROVE  AddsOrKeeps
  <1>0. UNCHANGED <<job, lastId>> => Keeps
    BY DEF Keeps
  <1>1. ASSUME NEW d \in Dims, EnqueueFlow(d) PROVE AddsOrKeeps
    <2> DEFINE j == CHOOSE j \in UnusedJobs : TRUE
    <2>1. j \in Jobs /\ Adds(j, d, "tick", j)
      BY <1>1, AnUnusedJob DEF EnqueueFlow, Adds
    <2> QED BY <2>1 DEF AddsOrKeeps, Triggers
  <1>2. ASSUME NEW d \in Dims, EnqueueCli(d) PROVE AddsOrKeeps
    <2> DEFINE j == CHOOSE j \in UnusedJobs : TRUE
    <2>1. j \in Jobs /\ Adds(j, d, "cli", j)
      BY <1>2, AnUnusedJob DEF EnqueueCli, Adds
    <2> QED BY <2>1 DEF AddsOrKeeps, Triggers
  <1>3. ASSUME NEW l \in Lanes, Requeue(l) PROVE AddsOrKeeps
    <2> DEFINE j == CHOOSE j \in UnusedJobs : TRUE
    <2>1. CASE UNCHANGED <<job, lastId>>
      BY <1>0, <2>1 DEF AddsOrKeeps
    <2>2. CASE /\ UnusedJobs # {}
               /\ AddNumbered(j, Held(l).dim, RequeuedBy(Held(l).by),
                              Held(l).fire)
      <3>1. proc[l].job \in Jobs
        BY <1>3 DEF Requeue, AtWork
      <3>2. /\ Held(l).dim \in Dims /\ Held(l).fire \in Jobs
            /\ RequeuedBy(Held(l).by) \in Triggers
        BY <3>1, JobFields DEF Held, RequeuedBy, Triggers
      <3>3. /\ j \in Jobs
            /\ Adds(j, Held(l).dim, RequeuedBy(Held(l).by), Held(l).fire)
        BY <2>2, AnUnusedJob DEF Adds
      <3> QED BY <3>2, <3>3 DEF AddsOrKeeps, RequeuedBy
    <2> QED BY <1>3, <2>1, <2>2 DEF Requeue
  <1>4. ASSUME NEW l \in Lanes, NEW j \in Jobs, Fetch(l, j) PROVE Keeps
    <2>1. job[j].state # "none" /\ UNCHANGED lastId
      BY <1>4 DEF Fetch
    <2>2. \E t \in JobStates \ {"none"} : job' = [job EXCEPT ![j].state = t]
      BY <1>4 DEF Fetch, MoveToFailed, JobStates
    <2> QED BY <2>1, <2>2, MoveKeeps
  <1>5. ASSUME NEW l \in Lanes, EndJob(l) PROVE Keeps
    <2>1. /\ proc[l].job \in Jobs /\ job[proc[l].job].state # "none"
          /\ UNCHANGED lastId
      BY <1>5 DEF EndJob, AtWork
    <2>2. \/ UNCHANGED job
          \/ job' = [job EXCEPT ![proc[l].job].state = "completed"]
          \/ job' = [job EXCEPT ![proc[l].job].state = "failed"]
          \/ job' = [job EXCEPT ![proc[l].job].state = "wait",
                                ![proc[l].job].left = @ - 1]
      BY <1>5 DEF EndJob, MoveToFailed
    <2>3. {"completed", "failed", "wait"} \subseteq JobStates \ {"none"}
      BY DEF JobStates
    <2> QED BY <1>0, <2>1, <2>2, <2>3, MoveKeeps
  <1>6. ASSUME NEW j \in Jobs, Unlocked(j), job[j].state # "none",
               UNCHANGED lastId
        PROVE  Keeps
    <2>1. "wait" \in JobStates \ {"none"}
      BY DEF JobStates
    <2> QED BY <1>6, <2>1, MoveKeeps DEF Unlocked
  <1>7. ASSUME NEW l \in Lanes, Hang(l) PROVE Keeps
    BY <1>6, <1>7 DEF Hang, AtWork
  <1>8. ASSUME NEW j \in Jobs, StalledCheck(j) PROVE Keeps
    BY <1>6, <1>8 DEF StalledCheck
  <1>9. ASSUME NEW j \in Jobs, Trim(j) PROVE Keeps
    <2>1. "removed" \in JobStates \ {"none"}
      BY DEF JobStates
    <2> QED BY <1>9, <2>1, MoveKeeps DEF Trim
  <1>10. CASE UNCHANGED <<job, lastId>>
    BY <1>0, <1>10 DEF AddsOrKeeps
  <1>11. ASSUME NEW l \in Lanes, WorkerStep(l) PROVE AddsOrKeeps
    BY <1>3, <1>4, <1>5, <1>10, <1>11
    DEF WorkerStep, Converge, StartRun, RecorderThrows, FinishRun, AddsOrKeeps
  <1> QED BY <1>1, <1>2, <1>7, <1>8, <1>9, <1>10, <1>11
          DEF SyncRunsNext, ReconcileStep, OnJobFailed, EventLost, Crash,
              ReconcileList, ReconcileCheck, ReconcileThrows, syncVars,
              AddsOrKeeps

(* A step keeps the ids of a lane apart, and no job that was added loses   *)
(* its id or its dimension.                                                *)
LEMMA IdsStep ==
  ASSUME SyncRunsTypeOK, IdsGiven, IdsOfLane, AddsOrKeeps
  PROVE  /\ IdsGiven' /\ IdsOfLane'
         /\ \A j \in Jobs : job[j].state # "none" =>
              /\ job'[j].state # "none"
              /\ job'[j].id = job[j].id /\ job'[j].dim = job[j].dim
  <1>0. job \in [Jobs -> JobRecord] /\ lastId \in [Lanes -> Nat]
    BY DEF SyncRunsTypeOK
  <1>1. CASE Keeps
    BY <1>1 DEF Keeps, IdsGiven, IdsOfLane, Lane
  <1>2. ASSUME NEW j \in Jobs, NEW d \in Dims, NEW by, NEW fire,
               Adds(j, d, by, fire)
        PROVE  /\ IdsGiven' /\ IdsOfLane'
               /\ \A i \in Jobs : i # j => job'[i] = job[i]
    <2> DEFINE n == lastId[LaneOf[d]] + 1
    <2>1. /\ \A i \in Jobs : i # j => job'[i] = job[i]
          /\ job'[j].dim = d /\ job'[j].state = "wait"
      BY <1>0, <1>2 DEF Adds, Added, AddNumbered
    <2>2. LaneOf[d] \in Lanes /\ n \in Nat
      BY <1>0, SyncRunsAssumption
    <2>3. \/ job'[j].id = <<"uuid", j>> /\ UNCHANGED lastId
          \/ /\ job'[j].id = <<"number", n>>
             /\ lastId' = [lastId EXCEPT ![LaneOf[d]] = n]
      BY <1>0, <1>2 DEF Adds, Added, AddNumbered
    <2>4. \A l \in Lanes : lastId'[l] \in Nat /\ lastId[l] <= lastId'[l]
      BY <1>0, <2>2, <2>3
    <2>5. \A i \in Jobs : i # j => Lane(i)' = Lane(i)
      BY <2>1 DEF Lane
    <2>6. Lane(j)' = LaneOf[d]
      BY <2>1 DEF Lane
    <2>7. IdsGiven'
      <3>1. ASSUME NEW i \in Jobs, i # j, job'[i].state # "none"
            PROVE  \/ job'[i].id = <<"uuid", i>>
                   \/ \E m \in Nat : /\ job'[i].id = <<"number", m>>
                                     /\ m <= lastId'[Lane(i)']
        <4>1. Lane(i) \in Lanes
          BY JobFields
        <4> QED BY <1>0, <2>1, <2>4, <2>5, <3>1, <4>1 DEF IdsGiven
      <3>2. \/ job'[j].id = <<"uuid", j>>
            \/ /\ job'[j].id = <<"number", n>>
               /\ n <= lastId'[Lane(j)']
        BY <1>0, <2>2, <2>3, <2>6
      <3> QED BY <2>2, <3>1, <3>2 DEF IdsGiven
    <2>8. ASSUME NEW i \in Jobs, i # j, job[i].state # "none",
                 Lane(i) = LaneOf[d]
          PROVE  job[i].id # job'[j].id
      <3>1. \/ job[i].id = <<"uuid", i>>
            \/ \E m \in Nat : /\ job[i].id = <<"number", m>>
                              /\ m <= lastId[LaneOf[d]]
        BY <2>8 DEF IdsGiven
      <3> QED BY <1>0, <2>2, <2>3, <2>8, <3>1
    <2>9. IdsOfLane'
      BY <2>1, <2>5, <2>6, <2>8 DEF IdsOfLane
    <2> QED BY <2>1, <2>7, <2>9
  <1>3. CASE \E j \in Jobs, d \in Dims, by \in Triggers, fire \in Jobs :
               Adds(j, d, by, fire)
    BY <1>2, <1>3 DEF Adds
  <1> QED BY <1>1, <1>3 DEF AddsOrKeeps, Keeps

-----------------------------------------------------------------------------
(* What a step does to the state of a job.                                 *)
LEMMA JobMoves ==
  ASSUME SyncRunsTypeOK, AtWork, [SyncRunsNext]_syncVars,
         NEW j \in Jobs, job[j].state # "none"
  PROVE  /\ job[j].state \in {"failed", "removed"} =>
              job'[j].state \in {"failed", "removed"}
         /\ job[j].state \in {"wait", "active"} =>
              \/ job'[j].state \in {"wait", "active"}
              \/ \E l \in Lanes : proc[l].at = "idle" /\ Fetch(l, j)
              \/ \E l \in Lanes : proc[l].job = j /\ EndJob(l)
  <1>0. job \in [Jobs -> JobRecord] /\ \A i \in Jobs : job[i] \in JobRecord
    BY JobFields DEF SyncRunsTypeOK
  <1> DEFINE Goal ==
        /\ job[j].state \in {"failed", "removed"} =>
             job'[j].state \in {"failed", "removed"}
        /\ job[j].state \in {"wait", "active"} =>
             \/ job'[j].state \in {"wait", "active"}
             \/ \E l \in Lanes : proc[l].at = "idle" /\ Fetch(l, j)
             \/ \E l \in Lanes : proc[l].job = j /\ EndJob(l)
  <1>1. job'[j] = job[j] => Goal
    OBVIOUS
  <1>2. ASSUME NEW i \in Jobs, NEW d, NEW id, NEW by, NEW fire,
               Added(i, d, id, by, fire), job[i].state = "none"
        PROVE  Goal
    <2>1. job'[j] = job[j]
      BY <1>0, <1>2 DEF Added
    <2> QED BY <1>1, <2>1
  <1>3. ASSUME NEW i \in Jobs, Unlocked(i), job[i].state \in {"wait", "active"}
        PROVE  Goal
    <2>1. CASE i # j
      <3>1. job'[j] = job[j]
        BY <1>0, <1>3, <2>1 DEF Unlocked
      <3> QED BY <1>1, <3>1
    <2>2. CASE i = j
      <3>1. job'[j] = [job[j] EXCEPT !.state = "wait", !.deferred = TRUE]
        BY <1>0, <1>3, <2>2 DEF Unlocked
      <3>2. ASSUME NEW b \in JobRecord
            PROVE  [b EXCEPT !.state = "wait",
                             !.deferred = TRUE].state = "wait"
        BY DEF JobRecord
      <3>3. job'[j].state = "wait"
        BY <1>0, <3>1, <3>2
      <3> QED BY <1>3, <2>2, <3>3
    <2> QED BY <2>1, <2>2
  <1>4. ASSUME NEW l \in Lanes, WorkerStep(l) PROVE Goal
    <2>1. ASSUME NEW i \in Jobs, Fetch(l, i) PROVE Goal
      <3>1. CASE i # j
        <4>1. job'[j] = job[j]
          BY <1>0, <2>1, <3>1 DEF Fetch, MoveToFailed
        <4> QED BY <1>1, <4>1
      <3>2. CASE i = j
        BY <2>1, <3>2 DEF Fetch
      <3> QED BY <3>1, <3>2
    <2>2. CASE EndJob(l)
      <3>1. CASE proc[l].job # j
        <4>1. job'[j] = job[j]
          BY <1>0, <2>2, <3>1 DEF EndJob, MoveToFailed
        <4> QED BY <1>1, <4>1
      <3>2. CASE proc[l].job = j
        <4>1. job[j].state \in {"wait", "active"}
          BY <2>2, <3>2 DEF EndJob, AtWork
        <4> QED BY <2>2, <3>2, <4>1
      <3> QED BY <3>1, <3>2
    <2>3. CASE Requeue(l)
      <3>1. CASE UNCHANGED job
        BY <1>1, <3>1
      <3> DEFINE i == CHOOSE i \in UnusedJobs : TRUE
      <3>2. CASE /\ UnusedJobs # {}
                 /\ AddNumbered(i, Held(l).dim, RequeuedBy(Held(l).by),
                                Held(l).fire)
        BY <1>2, <3>2, AnUnusedJob DEF AddNumbered
      <3> QED BY <2>3, <3>1, <3>2 DEF Requeue
    <2> QED BY <1>1, <1>4, <2>1, <2>2, <2>3
            DEF WorkerStep, Converge, StartRun, RecorderThrows, FinishRun
  <1>5. ASSUME NEW i \in Jobs, Trim(i) PROVE Goal
    <2>1. job'[j] = IF i = j THEN [job[j] EXCEPT !.state = "removed"]
                             ELSE job[j]
      BY <1>0, <1>5 DEF Trim
    <2>2. [job[j] EXCEPT !.state = "removed"].state = "removed"
      BY <1>0 DEF JobRecord
    <2> QED BY <1>5, <2>1, <2>2 DEF Trim
  <1>6. ASSUME NEW l \in Lanes, Hang(l) PROVE Goal
    BY <1>3, <1>6 DEF Hang, AtWork
  <1>7. ASSUME NEW i \in Jobs, StalledCheck(i) PROVE Goal
    BY <1>3, <1>7 DEF StalledCheck
  <1>8. ASSUME NEW d \in Dims, EnqueueFlow(d) \/ EnqueueCli(d) PROVE Goal
    BY <1>2, <1>8, AnUnusedJob DEF EnqueueFlow, EnqueueCli, AddNumbered
  <1>9. Goal
    BY <1>1, <1>4, <1>5, <1>6, <1>7, <1>8
    DEF SyncRunsNext, OnJobFailed, EventLost, Crash, ReconcileStep,
        ReconcileList, ReconcileCheck, ReconcileThrows, syncVars
  <1> QED BY <1>9

(* A worker is at work on a job of its lane that has not ended.            *)
LEMMA AtWorkStep ==
  ASSUME SyncRunsInv, [SyncRunsNext]_syncVars
  PROVE  AtWork'
  <1>0. /\ SyncRunsTypeOK /\ AtWork /\ IdsGiven /\ IdsOfLane
        /\ proc \in [Lanes -> ProcRecord]
    BY DEF SyncRunsInv, SyncRunsTypeOK
  <1>1. AddsOrKeeps
    BY <1>0, StepAddsOrKeeps
  <1>2. \A j \in Jobs : job[j].state # "none" =>
        LaneOf[job'[j].dim] = Lane(j)
    BY <1>0, <1>1, IdsStep DEF Lane
  <1> SUFFICES ASSUME NEW m \in Lanes, proc'[m].at # "idle"
               PROVE  /\ proc'[m].job \in Jobs
                      /\ LaneOf[job'[proc'[m].job].dim] = m
                      /\ job'[proc'[m].job].state \in {"wait", "active"}
    BY DEF AtWork, Lane
  <1>3. ASSUME NEW j \in Jobs, Fetch(m, j)
        PROVE  /\ proc'[m].job \in Jobs
               /\ LaneOf[job'[proc'[m].job].dim] = m
               /\ job'[proc'[m].job].state \in {"wait", "active"}
    <2>1. /\ job' = [job EXCEPT ![j].state = "active"]
          /\ proc' = [proc EXCEPT ![m].at = "fetched", ![m].job = j]
          /\ job[j].state = "wait" /\ Lane(j) = m
      BY <1>3 DEF Fetch
    <2>2. proc'[m] = [proc[m] EXCEPT !.at = "fetched", !.job = j]
      BY <1>0, <2>1
    <2>3. proc'[m].job = j
      BY <1>0, <2>2, ProcFields DEF ProcRecord
    <2>4. job'[j].state = "active"
      <3>1. job \in [Jobs -> JobRecord] /\ job[j] \in JobRecord
        BY <1>0 DEF SyncRunsTypeOK
      <3>2. job'[j] = [job[j] EXCEPT !.state = "active"]
        BY <2>1, <3>1
      <3> QED BY <3>1, <3>2 DEF JobRecord
    <2>5. LaneOf[job'[j].dim] = m
      BY <1>2, <2>1
    <2> QED BY <2>3, <2>4, <2>5
  <1>4. CASE proc[m].at # "idle" /\ proc'[m].job = proc[m].job /\ ~EndJob(m)
    <2> DEFINE j == proc[m].job
    <2>1. /\ j \in Jobs /\ Lane(j) = m
          /\ job[j].state \in {"wait", "active"}
      BY <1>0, <1>4 DEF AtWork
    <2>2. \A l \in Lanes : proc[l].at = "idle" => ~Fetch(l, j)
      BY <1>4, <2>1 DEF Fetch
    <2>3. \A l \in Lanes : proc[l].job = j => ~EndJob(l)
      BY <1>0, <1>4, <2>1 DEF EndJob, AtWork
    <2>4. job'[j].state \in {"wait", "active"}
      <3>1. job[j].state # "none"
        BY <2>1
      <3> HIDE DEF j
      <3> QED BY <1>0, <2>1, <2>2, <2>3, <3>1, JobMoves
    <2>5. LaneOf[job'[j].dim] = m
      BY <1>2, <2>1
    <2> QED BY <1>4, <2>1, <2>4, <2>5
  <1>5. ~EndJob(m) /\ ~Crash
    BY <1>0 DEF EndJob, Crash, Idle
  <1>6. \/ \E j \in Jobs : Fetch(m, j)
        \/ proc[m].at # "idle" /\ proc'[m].job = proc[m].job
    <2>1. CASE proc'[m] = proc[m]
      BY <2>1
    <2>2. CASE WorkerStep(m)
      <3>1. proc[m] \in ProcRecord
        BY <1>0, ProcFields
      <3>2. CASE \/ Converge(m) \/ StartRun(m) \/ RecorderThrows(m)
                 \/ \E o \in Outcomes : FinishRun(m, o)
                 \/ Requeue(m)
        BY <1>0, <3>1, <3>2
        DEF Converge, StartRun, RecorderThrows, FinishRun, Requeue, ProcRecord
      <3> QED BY <1>5, <2>2, <3>2 DEF WorkerStep
    <2>3. ASSUME NEW l \in Lanes, l # m, WorkerStep(l) PROVE proc'[m] = proc[m]
      BY <1>0, <2>3
      DEF WorkerStep, Fetch, Converge, StartRun, RecorderThrows, FinishRun,
          Requeue, EndJob
    <2> QED BY <1>5, <2>1, <2>2, <2>3
            DEF SyncRunsNext, syncVars, EnqueueFlow, EnqueueCli, Hang,
                StalledCheck, Trim, OnJobFailed, EventLost, ReconcileStep,
                ReconcileList, ReconcileCheck, ReconcileThrows
  <1> QED BY <1>3, <1>4, <1>5, <1>6

-----------------------------------------------------------------------------
(* What a step does to a row: it is opened, or closed by its own attempt,  *)
(* or closed from outside by one of the three triggers.                    *)
Opens(l, r) ==
  /\ proc[l].at = "converged" /\ run[r].status = "none"
  /\ proc' = [proc EXCEPT ![l].at = "running", ![l].run = r]
  /\ run' = [run EXCEPT ![r] = [status |-> "running", id |-> Held(l).id,
                                dim |-> Held(l).dim, by |-> Held(l).by,
                                job |-> proc[l].job]]
  /\ UNCHANGED job

Finishes(l, r) ==
  /\ proc[l].at = "running" /\ proc[l].run = r /\ proc'[l].at = "ended"
  /\ KeyStays(r)
  /\ run'[r].status \in {"failed", "done"}

TriggeredBy(id) ==
  \/ \E l \in Lanes : proc[l].at = "fetched" /\ Held(l).id = id
  \/ \E j \in failed : job[j].id = id
  \/ \E d \in Dims : <<id, d>> \in listed /\ ~jobMayStillRun(id, d)

ClosedFromOutside(r) ==
  /\ run[r].status = "running" /\ run'[r].status = "interrupted"
  /\ KeyStays(r)
  /\ TriggeredBy(run[r].id) /\ UNCHANGED job

LEMMA RowMoves ==
  ASSUME SyncRunsInv, [SyncRunsNext]_syncVars, NEW r \in Runs
  PROVE  \/ run'[r] = run[r]
         \/ \E l \in Lanes : Opens(l, r)
         \/ \E l \in Lanes : Finishes(l, r)
         \/ ClosedFromOutside(r)
  <1>0. /\ SyncRunsTypeOK /\ AtWork /\ OnItsRow
        /\ run \in [Runs -> RunRecord] /\ run[r] \in RunRecord
        /\ proc \in [Lanes -> ProcRecord]
        /\ listed \subseteq JobIds \X Dims
    BY RunFields DEF SyncRunsInv, SyncRunsTypeOK
  <1>1. ASSUME NEW id, NEW d, ConvergeInterrupted(id, d), TriggeredBy(id),
               UNCHANGED job
        PROVE  run'[r] = run[r] \/ ClosedFromOutside(r)
    BY <1>0, <1>1, Closing DEF ClosedFromOutside, KeyStays
  <1>2. ASSUME NEW l \in Lanes, Converge(l)
        PROVE  run'[r] = run[r] \/ ClosedFromOutside(r)
    <2>1. TriggeredBy(Held(l).id)
      BY <1>2 DEF Converge, TriggeredBy
    <2> QED BY <1>1, <1>2, <2>1 DEF Converge
  <1>3. ASSUME NEW l \in Lanes, StartRun(l)
        PROVE  run'[r] = run[r] \/ Opens(l, r)
    <2> DEFINE q == CHOOSE q \in UnusedRuns : TRUE
    <2>1. q \in Runs /\ run[q].status = "none"
      BY <1>3, AnUnusedRun DEF StartRun
    <2>2. Opens(l, q)
      BY <1>3, <2>1 DEF StartRun, Opens
    <2> HIDE DEF q
    <2>3. q # r => run'[r] = run[r]
      BY <1>0, <2>2 DEF Opens
    <2> QED BY <2>2, <2>3
  <1>4. ASSUME NEW l \in Lanes, NEW o \in Outcomes, FinishRun(l, o)
        PROVE  run'[r] = run[r] \/ Finishes(l, r)
    <2>1. proc[l].run # r => run'[r] = run[r]
      BY <1>0, <1>4 DEF FinishRun
    <2>2. proc'[l] = [proc[l] EXCEPT !.at = "ended", !.outcome = o]
      BY <1>0, <1>4 DEF FinishRun
    <2>3. proc'[l].at = "ended"
      BY <1>0, <2>2, ProcFields DEF ProcRecord
    <2>4. ASSUME NEW b, NEW c, NEW t \in {"failed", "done"},
                 b \in RunRecord, c = [b EXCEPT !.status = t]
          PROVE  /\ c.id = b.id /\ c.dim = b.dim /\ c.job = b.job
                 /\ c.by = b.by /\ c.status = t
      BY <2>4 DEF RunRecord
    <2>5. proc[l].run = r => \E t \in {"failed", "done"} :
                               run'[r] = [run[r] EXCEPT !.status = t]
      BY <1>0, <1>4 DEF FinishRun
    <2>6. proc[l].run = r => KeyStays(r) /\ run'[r].status \in {"failed", "done"}
      BY <1>0, <2>4, <2>5 DEF KeyStays
    <2> QED BY <1>4, <2>1, <2>3, <2>6 DEF Finishes, FinishRun
  <1>5. ASSUME NEW j \in Jobs, OnJobFailed(j)
        PROVE  run'[r] = run[r] \/ ClosedFromOutside(r)
    <2>1. TriggeredBy(job[j].id)
      BY <1>5 DEF OnJobFailed, TriggeredBy
    <2> QED BY <1>1, <1>5, <2>1 DEF OnJobFailed
  <1>6. ASSUME NEW x \in listed, ReconcileCheck(x[1], x[2])
        PROVE  run'[r] = run[r] \/ ClosedFromOutside(r)
    <2>1. CASE jobMayStillRun(x[1], x[2])
      BY <1>6, <2>1 DEF ReconcileCheck
    <2>2. CASE ~jobMayStillRun(x[1], x[2])
      <3>1. x[2] \in Dims
        BY <1>0
      <3>2. TriggeredBy(x[1])
        BY <1>6, <2>2, <3>1 DEF TriggeredBy, ReconcileCheck
      <3> QED BY <1>1, <1>6, <2>2, <3>2 DEF ReconcileCheck
    <2> QED BY <2>1, <2>2
  <1>7. ASSUME NEW l \in Lanes, WorkerStep(l)
        PROVE  \/ run'[r] = run[r] \/ Opens(l, r) \/ Finishes(l, r)
               \/ ClosedFromOutside(r)
    BY <1>2, <1>3, <1>4, <1>7
    DEF WorkerStep, Fetch, RecorderThrows, Requeue, EndJob
  <1> QED BY <1>5, <1>6, <1>7
          DEF SyncRunsNext, syncVars, EnqueueFlow, EnqueueCli, Hang,
              StalledCheck, Trim, EventLost, Crash, ReconcileStep,
              ReconcileList, ReconcileThrows

(* A worker that is running stays on its row, unless it ends.              *)
LEMMA WorkerMoves ==
  ASSUME SyncRunsInv, [SyncRunsNext]_syncVars, NEW m \in Lanes,
         proc'[m].at = "running"
  PROVE  \/ proc'[m] = proc[m]
         \/ \E r \in Runs : Opens(m, r)
  <1>0. SyncRunsTypeOK /\ proc \in [Lanes -> ProcRecord]
    BY DEF SyncRunsInv, SyncRunsTypeOK
  <1>1. ASSUME NEW b, NEW c, NEW t, NEW u, b \in ProcRecord,
               \/ c = [b EXCEPT !.at = t]
               \/ c = [b EXCEPT !.at = t, !.job = u]
               \/ c = [b EXCEPT !.at = t, !.outcome = u]
        PROVE  c.at = t
    BY <1>1 DEF ProcRecord
  <1>q. ASSUME NEW b, NEW c, NEW u, b \in ProcRecord,
               c = [b EXCEPT !.outcome = u]
        PROVE  c.at = b.at
    BY <1>q DEF ProcRecord
  <1>p. proc[m] \in ProcRecord
    BY <1>0
  <1>2. CASE WorkerStep(m)
    <2>1. ASSUME NEW j \in Jobs, Fetch(m, j) PROVE proc' = proc
      <3>1. ~job[j].deferred =>
              proc'[m] = [proc[m] EXCEPT !.at = "fetched", !.job = j]
        BY <1>0, <2>1 DEF Fetch
      <3>2. ASSUME ~job[j].deferred PROVE proc'[m].at = "fetched"
        <4>1. proc'[m] = [proc[m] EXCEPT !.at = "fetched", !.job = j]
          BY <3>1, <3>2
        <4> QED BY <1>p, <4>1 DEF ProcRecord
      <3> QED BY <2>1, <3>2 DEF Fetch
    <2>2. ~Converge(m)
      <3>1. Converge(m) => proc'[m] = [proc[m] EXCEPT !.at = "converged"]
        BY <1>0 DEF Converge
      <3> QED BY <1>1, <1>p, <3>1
    <2>3. ~RecorderThrows(m) /\ \A o \in Outcomes : ~FinishRun(m, o)
      <3>1. ASSUME RecorderThrows(m) \/ \E o \in Outcomes : FinishRun(m, o)
            PROVE  \E o \in Outcomes :
                     proc'[m] = [proc[m] EXCEPT !.at = "ended", !.outcome = o]
        BY <1>0, <3>1 DEF RecorderThrows, FinishRun, Outcomes
      <3>2. ASSUME NEW o \in Outcomes,
                   proc'[m] = [proc[m] EXCEPT !.at = "ended", !.outcome = o]
            PROVE  proc'[m].at # "running"
        BY <1>p, <3>2 DEF ProcRecord
      <3> QED BY <3>1, <3>2
    <2>4. ~Requeue(m)
      <3>1. Requeue(m) => \E o \in Outcomes :
                            proc'[m] = [proc[m] EXCEPT !.outcome = o]
        BY <1>0 DEF Requeue, Outcomes
      <3>2. Requeue(m) => proc[m].at = "ended"
        BY DEF Requeue
      <3> QED BY <1>q, <1>p, <3>1, <3>2
    <2>5. ~EndJob(m)
      BY <1>0 DEF EndJob, Idle
    <2>6. StartRun(m) => \E r \in Runs : Opens(m, r)
      BY AnUnusedRun DEF StartRun, Opens
    <2> QED BY <1>2, <2>1, <2>2, <2>3, <2>4, <2>5, <2>6 DEF WorkerStep
  <1>3. ASSUME NEW l \in Lanes, l # m, WorkerStep(l) PROVE proc'[m] = proc[m]
    BY <1>0, <1>3
    DEF WorkerStep, Fetch, Converge, StartRun, RecorderThrows, FinishRun,
        Requeue, EndJob
  <1>4. ~Crash
    BY DEF Crash, Idle
  <1> QED BY <1>2, <1>3, <1>4
          DEF SyncRunsNext, syncVars, EnqueueFlow, EnqueueCli, Hang,
              StalledCheck, Trim, OnJobFailed, EventLost, ReconcileStep,
              ReconcileList, ReconcileCheck, ReconcileThrows

LEMMA OnItsRowStep ==
  ASSUME SyncRunsInv, [SyncRunsNext]_syncVars
  PROVE  OnItsRow'
  <1>0. /\ SyncRunsTypeOK /\ AtWork /\ OnItsRow /\ IdsGiven /\ IdsOfLane
        /\ run \in [Runs -> RunRecord] /\ proc \in [Lanes -> ProcRecord]
    BY DEF SyncRunsInv, SyncRunsTypeOK
  <1>1. \A j \in Jobs : job[j].state # "none" =>
          job'[j].id = job[j].id /\ job'[j].dim = job[j].dim
    BY <1>0, StepAddsOrKeeps, IdsStep
  <1> SUFFICES ASSUME NEW m \in Lanes, proc'[m].at = "running"
         PROVE  /\ proc'[m].run \in Runs
                /\ run'[proc'[m].run].status \in {"running", "interrupted"}
                /\ run'[proc'[m].run].id = job'[proc'[m].job].id
                /\ run'[proc'[m].run].dim = job'[proc'[m].job].dim
    BY DEF OnItsRow
  <1>2. ASSUME NEW r \in Runs, Opens(m, r)
        PROVE  /\ proc'[m].run = r /\ proc'[m].job = proc[m].job
               /\ run'[r].status = "running"
               /\ run'[r].id = Held(m).id /\ run'[r].dim = Held(m).dim
    <2>1. proc'[m] = [proc[m] EXCEPT !.at = "running", !.run = r]
      BY <1>0, <1>2 DEF Opens
    <2>2. ASSUME NEW b, NEW c, b \in ProcRecord,
                 c = [b EXCEPT !.at = "running", !.run = r]
          PROVE  c.run = r /\ c.job = b.job
      BY <2>2 DEF ProcRecord
    <2>3. proc[m] \in ProcRecord
      BY <1>0
    <2> QED BY <1>0, <1>2, <2>1, <2>2, <2>3 DEF Opens
  <1>3. CASE \E r \in Runs : Opens(m, r)
    <2>1. PICK r \in Runs : Opens(m, r)
      BY <1>3
    <2>2. proc[m].job \in Jobs /\ job[proc[m].job].state # "none"
      BY <1>0, <2>1 DEF Opens, AtWork
    <2> QED BY <1>1, <1>2, <2>1, <2>2 DEF Held
  <1>4. CASE proc'[m] = proc[m]
    <2> DEFINE r == proc[m].run
    <2>1. /\ r \in Runs /\ run[r].status \in {"running", "interrupted"}
          /\ run[r].id = job[proc[m].job].id
          /\ run[r].dim = job[proc[m].job].dim
          /\ proc[m].job \in Jobs /\ job[proc[m].job].state # "none"
          /\ Lane(proc[m].job) = m
      BY <1>0, <1>4 DEF OnItsRow, AtWork
    <2>2. \A l \in Lanes : ~Opens(l, r)
      BY <2>1 DEF Opens
    <2>3. \A l \in Lanes : ~Finishes(l, r)
      BY <1>0, <1>4, <2>1 DEF Finishes, OnItsRow, AtWork, Lane
    <2>4. \/ run'[proc[m].run] = run[r]
          \/ /\ run'[proc[m].run].status = "interrupted"
             /\ run'[proc[m].run].id = run[r].id
             /\ run'[proc[m].run].dim = run[r].dim
      BY <2>1, <2>2, <2>3, RowMoves DEF ClosedFromOutside, KeyStays
    <2> QED BY <1>1, <1>4, <2>1, <2>4
  <1> QED BY <1>3, <1>4, WorkerMoves

(* A `failed` event is one of a job that has failed.                       *)
LEMMA FailedStep ==
  ASSUME SyncRunsInv, [SyncRunsNext]_syncVars
  PROVE  FailedEnded'
  <1>0. /\ SyncRunsTypeOK /\ AtWork /\ FailedEnded
        /\ job \in [Jobs -> JobRecord] /\ failed \subseteq Jobs
    BY DEF SyncRunsInv, SyncRunsTypeOK
  <1>1. \A j \in failed : job'[j].state \in {"failed", "removed"}
    <2>1. \A j \in failed :
            j \in Jobs /\ job[j].state \in {"failed", "removed"}
      BY <1>0 DEF FailedEnded
    <2>2. \A j \in Jobs : job[j].state \in {"failed", "removed"} =>
            job'[j].state \in {"failed", "removed"}
      BY <1>0, JobMoves
    <2> QED BY <2>1, <2>2
  <1>2. CASE failed' \subseteq failed
    BY <1>1, <1>2 DEF FailedEnded
  <1>3. ASSUME NEW j \in Jobs, MoveToFailed(j) PROVE FailedEnded'
    <2>1. job'[j] = [job[j] EXCEPT !.state = "failed"] /\ job[j] \in JobRecord
      BY <1>0, <1>3 DEF MoveToFailed
    <2>2. job'[j].state = "failed"
      BY <2>1 DEF JobRecord
    <2> QED BY <1>1, <1>3, <2>2 DEF MoveToFailed, FailedEnded
  <1>4. ASSUME NEW l \in Lanes, WorkerStep(l)
        PROVE  failed' \subseteq failed \/ \E j \in Jobs : MoveToFailed(j)
    BY <1>0, <1>4
    DEF WorkerStep, Fetch, Converge, StartRun, RecorderThrows, FinishRun,
        Requeue, EndJob, AtWork
  <1> QED BY <1>2, <1>3, <1>4
          DEF SyncRunsNext, syncVars, EnqueueFlow, EnqueueCli, Hang,
              StalledCheck, Trim, OnJobFailed, EventLost, Crash,
              ReconcileStep, ReconcileList, ReconcileCheck, ReconcileThrows

(* Every row, and every pair the reconciliation lists, is that of a job.   *)
LEMMA RowsStep ==
  ASSUME SyncRunsInv, [SyncRunsNext]_syncVars
  PROVE  RowsOfJobs'
  <1>0. /\ SyncRunsTypeOK /\ AtWork /\ RowsOfJobs /\ IdsGiven /\ IdsOfLane
    BY DEF SyncRunsInv
  <1>1. ASSUME NEW id, NEW d, IsOfAJob(id, d)
        PROVE  \E j \in Jobs : /\ job'[j].state # "none"
                               /\ job'[j].id = id /\ job'[j].dim = d
    <2>1. PICK j \in Jobs : /\ job[j].state # "none"
                            /\ job[j].id = id /\ job[j].dim = d
      BY <1>1 DEF IsOfAJob
    <2> QED BY <1>0, <2>1, StepAddsOrKeeps, IdsStep
  <1>2. ASSUME NEW r \in Runs, run'[r].status # "none"
        PROVE  IsOfAJob(run[r].id, run[r].dim)'
    <2>1. CASE run'[r] = run[r]
      BY <1>0, <1>1, <1>2, <2>1 DEF RowsOfJobs, IsOfAJob
    <2>2. CASE ClosedFromOutside(r)
      BY <1>0, <1>1, <2>2
      DEF RowsOfJobs, IsOfAJob, ClosedFromOutside, KeyStays
    <2>3. ASSUME NEW l \in Lanes, Finishes(l, r)
          PROVE  IsOfAJob(run[r].id, run[r].dim)'
      <3>0. proc[l].at = "running" /\ proc[l].run = r
        BY <2>3 DEF Finishes
      <3>1. run[r].status # "none"
        BY <3>0 DEF SyncRunsInv, OnItsRow
      <3>2. IsOfAJob(run[r].id, run[r].dim)
        BY <1>0, <3>1 DEF RowsOfJobs
      <3> QED BY <1>1, <2>3, <3>2 DEF IsOfAJob, Finishes, KeyStays
    <2>4. ASSUME NEW l \in Lanes, Opens(l, r)
          PROVE  IsOfAJob(run[r].id, run[r].dim)'
      <3>1. proc[l].job \in Jobs /\ job[proc[l].job].state # "none"
        BY <1>0, <2>4 DEF Opens, AtWork
      <3>2. IsOfAJob(Held(l).id, Held(l).dim)
        BY <3>1 DEF IsOfAJob, Held
      <3>3. run'[r].id = Held(l).id /\ run'[r].dim = Held(l).dim
        BY <1>0, <2>4 DEF Opens, SyncRunsTypeOK
      <3> QED BY <1>1, <3>2, <3>3 DEF IsOfAJob
    <2> QED BY <2>1, <2>2, <2>3, <2>4, RowMoves
  <1>3. ASSUME NEW x \in listed' PROVE IsOfAJob(x[1], x[2])
    <2>1. CASE x \in listed
      BY <1>0, <2>1 DEF RowsOfJobs
    <2>2. CASE ReconcileList
      BY <1>0, <1>3, <2>2 DEF ReconcileList, RowsOfJobs
    <2>3. \/ listed' \subseteq listed
          \/ ReconcileList
      BY DEF SyncRunsNext, syncVars, EnqueueFlow, EnqueueCli, Hang,
             StalledCheck, Trim, OnJobFailed, EventLost, Crash,
             ReconcileStep, ReconcileCheck, ReconcileThrows,
             WorkerStep, Fetch, Converge, StartRun, RecorderThrows, FinishRun,
             Requeue, EndJob
    <2> QED BY <1>3, <2>1, <2>2, <2>3
  <1>4. \A x \in listed' : \E j \in Jobs :
          job'[j].state # "none" /\ job'[j].id = x[1] /\ job'[j].dim = x[2]
    BY <1>1, <1>3
  <1> QED BY <1>2, <1>4 DEF RowsOfJobs, IsOfAJob

-----------------------------------------------------------------------------
(* The strengthened invariant holds in every reachable state.              *)
THEOREM SyncRunsInvariant == SyncRunsSpec => []SyncRunsInv
  <1>1. SyncRunsInv /\ [SyncRunsNext]_syncVars => SyncRunsInv'
    BY StepTyped, AtWorkStep, OnItsRowStep, StepAddsOrKeeps, IdsStep,
       FailedStep, RowsStep DEF SyncRunsInv
  <1> QED BY <1>1, InitInv, PTL DEF SyncRunsSpec

(* Every variable of the lanes' workers, jobs and rows keeps its type.     *)
THEOREM SyncRunsTypeCorrect == SyncRunsSpec => []SyncRunsTypeOK
  <1>1. SyncRunsInv => SyncRunsTypeOK
    BY DEF SyncRunsInv
  <1> QED BY <1>1, SyncRunsInvariant, PTL

(* Whatever jobs, events and reconciliations do later, the outcome that an *)
(* attempt wrote on its row stays (sync-run.recorder.ts).                  *)
THEOREM OutcomesStay == SyncRunsSpec => ReportedOutcomeStays
  <1>1. ASSUME SyncRunsInv, [SyncRunsNext]_syncVars, NEW r \in Runs,
               run[r].status \in {"done", "failed"}
        PROVE  run'[r] = run[r]
    BY <1>1, RowMoves
    DEF Opens, Finishes, ClosedFromOutside, SyncRunsInv, OnItsRow
  <1>2. SyncRunsInv /\ [SyncRunsNext]_syncVars =>
          [\A r \in Runs : run[r].status \in {"done", "failed"} =>
             run'[r] = run[r]]_syncVars
    BY <1>1
  <1> QED BY <1>2, SyncRunsInvariant, PTL
          DEF SyncRunsSpec, ReportedOutcomeStays

(* A row of a living attempt is closed from outside only if a job of       *)
(* another lane bears the same number.                                     *)
LEMMA InterruptStep ==
  ASSUME SyncRunsInv, [SyncRunsNext]_syncVars, NEW r \in Runs,
         InterruptsLive(r)
  PROVE  \E j \in Jobs : /\ job[j].state # "none" /\ job[j].id = run[r].id
                         /\ Lane(j) # LaneOf[run[r].dim]
  <1>1. PICK l \in Lanes : proc[l].at = "running" /\ proc[l].run = r
    BY DEF InterruptsLive, Live
  <1> DEFINE i == proc[l].job
  <1>2. /\ i \in Jobs /\ Lane(i) = l /\ job[i].state \in {"wait", "active"}
        /\ run[r].id = job[i].id /\ run[r].dim = job[i].dim
    BY <1>1 DEF SyncRunsInv, AtWork, OnItsRow
  <1>3. LaneOf[run[r].dim] = l
    BY <1>2 DEF Lane
  <1>4. ClosedFromOutside(r)
    <2>1. \A m \in Lanes : ~Opens(m, r)
      BY DEF InterruptsLive, Opens
    <2>2. \A m \in Lanes : ~Finishes(m, r)
      <3>1. \A m \in Lanes : Finishes(m, r) => m = l
        <4>1. ASSUME NEW m \in Lanes, proc[m].at = "running", proc[m].run = r
              PROVE  m = LaneOf[run[r].dim]
          BY <4>1 DEF SyncRunsInv, AtWork, OnItsRow, Lane
        <4> QED BY <1>3, <4>1 DEF Finishes
      <3> QED BY <1>1, <3>1 DEF Finishes, InterruptsLive
    <2> QED BY <2>1, <2>2, RowMoves DEF InterruptsLive
  <1> HIDE DEF i
  <1>5. ASSUME NEW j \in Jobs, job[j].state # "none", job[j].id = run[r].id,
               j # i
        PROVE  Lane(j) # l
    BY <1>2, <1>5 DEF SyncRunsInv, IdsOfLane
  <1>6. ASSUME NEW m \in Lanes, proc[m].at = "fetched", Held(m).id = run[r].id
        PROVE  \E j \in Jobs : /\ job[j].state # "none"
                               /\ job[j].id = run[r].id /\ Lane(j) # l
    BY <1>1, <1>6 DEF SyncRunsInv, AtWork, Held
  <1>7. ASSUME NEW j \in failed, job[j].id = run[r].id
        PROVE  \E k \in Jobs : /\ job[k].state # "none"
                               /\ job[k].id = run[r].id /\ Lane(k) # l
    BY <1>2, <1>5, <1>7 DEF SyncRunsInv, FailedEnded, SyncRunsTypeOK
  <1>8. ASSUME NEW d \in Dims, <<run[r].id, d>> \in listed,
               ~jobMayStillRun(run[r].id, d)
        PROVE  \E j \in Jobs : /\ job[j].state # "none"
                               /\ job[j].id = run[r].id /\ Lane(j) # l
    <2>1. IsOfAJob(run[r].id, d)
      BY <1>8 DEF SyncRunsInv, RowsOfJobs
    <2>2. PICK j \in Jobs : /\ job[j].state # "none"
                            /\ job[j].id = run[r].id /\ job[j].dim = d
      BY <2>1 DEF IsOfAJob
    <2>3. j # i
      BY <1>2, <1>8, <2>2 DEF jobMayStillRun
    <2> QED BY <1>5, <2>2, <2>3
  <1> QED BY <1>3, <1>4, <1>6, <1>7, <1>8 DEF ClosedFromOutside, TriggeredBy

(* None of the three triggers closes the row of a living attempt, unless a *)
(* job of another lane bears its number: however late the `failed` events  *)
(* and the reconciliation are (sync-run.recorder.ts, marketdata-sync).     *)
THEOREM OnlyTwinsInterrupt == SyncRunsSpec => InterruptedHasTwin
  <1>1. SyncRunsInv /\ [SyncRunsNext]_syncVars =>
          [\A r \in Runs : InterruptsLive(r) =>
             \E j \in Jobs : /\ job[j].state # "none" /\ job[j].id = run[r].id
                             /\ Lane(j) # LaneOf[run[r].dim]]_syncVars
    BY InterruptStep
  <1> QED BY <1>1, SyncRunsInvariant, PTL DEF SyncRunsSpec, InterruptedHasTwin
-----------------------------------------------------------------------------
(* The rows of a fire.  A job is fetched once per attempt, and an attempt  *)
(* opens one row: a job that hung or was lost in a crash is deferred, and  *)
(* never processed again.  So the rows of a job, and the attempts it has   *)
(* left, make RetryMax, or one more once its present attempt has its row.  *)
RowsOf(j) == {r \in Runs : run[r].status # "none" /\ run[r].job = j}

BeforeItsRow(j) ==
  \/ job[j].state = "none"
  \/ job[j].state = "wait" /\ ~job[j].deferred
  \/ \E l \in Lanes : proc[l].at \in {"fetched", "converged"} /\ proc[l].job = j

AttemptRows ==
  \A j \in Jobs :
    /\ IsFiniteSet(RowsOf(j))
    /\ Cardinality(RowsOf(j)) + job[j].left
         <= IF BeforeItsRow(j) THEN RetryMax ELSE RetryMax + 1

RowsSayTrigger ==
  \A r \in Runs : run[r].status # "none" =>
    /\ run[r].job \in Jobs
    /\ job[run[r].job].state # "none"
    /\ job[run[r].job].by = run[r].by

FiresOfTicks == \A j \in Jobs : job[j].by = "tick" => job[j].fire = j

OneAttempt ==
  \A l \in Lanes : proc[l].at # "idle" =>
    Held(l).state = "active" \/ Held(l).deferred

AttemptsInv ==
  SyncRunsInv /\ AttemptRows /\ RowsSayTrigger /\ FiresOfTicks /\ OneAttempt

(* The attempt goes on, or there is none: what is left is left, and a job  *)
(* does not come back to the queue undeferred.                             *)
GoesOn(j) ==
  /\ job'[j].left = job[j].left
  /\ job[j].deferred => job'[j].deferred
  /\ job'[j].state = "wait" => job'[j].deferred \/ job[j].state = "wait"
  /\ job[j].state = "active" => job'[j].state = "active" \/ job'[j].deferred

(* The attempt ends; if the job may try again, one fewer is left.          *)
EndsAttempt(l, j) ==
  /\ EndJob(l) /\ proc[l].at = "ended" /\ proc[l].job = j
  /\ job[j].state = "active"
  /\ job[j].deferred => job'[j].deferred
  /\ \/ job'[j].state # "wait" /\ job'[j].left = job[j].left
     \/ job'[j].left = job[j].left - 1

(* Every step, seen from one job that was added.                           *)
LEMMA JobSide ==
  ASSUME SyncRunsInv, [SyncRunsNext]_syncVars,
         NEW j \in Jobs, job[j].state # "none"
  PROVE  GoesOn(j) \/ \E l \in Lanes : EndsAttempt(l, j)
  <1> DEFINE Goal == GoesOn(j) \/ \E l \in Lanes : EndsAttempt(l, j)
  <1>0. /\ SyncRunsTypeOK /\ AtWork
        /\ job \in [Jobs -> JobRecord] /\ \A i \in Jobs : job[i] \in JobRecord
    BY JobFields DEF SyncRunsInv, SyncRunsTypeOK
  <1>1. job'[j] = job[j] => Goal
    BY DEF GoesOn
  <1>2. ASSUME NEW i \in Jobs, NEW d, NEW id, NEW by, NEW fire,
               Added(i, d, id, by, fire), job[i].state = "none"
        PROVE  Goal
    <2>1. job'[j] = job[j]
      BY <1>0, <1>2 DEF Added
    <2> QED BY <1>1, <2>1
  <1>3. ASSUME NEW i \in Jobs, Unlocked(i) PROVE Goal
    <2>1. CASE i # j
      <3>1. job'[j] = job[j]
        BY <1>0, <1>3, <2>1 DEF Unlocked
      <3> QED BY <1>1, <3>1
    <2>2. CASE i = j
      <3>1. job'[j] = [job[j] EXCEPT !.state = "wait", !.deferred = TRUE]
        BY <1>0, <1>3, <2>2 DEF Unlocked
      <3>2. ASSUME NEW b \in JobRecord, NEW c,
                   c = [b EXCEPT !.state = "wait", !.deferred = TRUE]
            PROVE  c.deferred /\ c.left = b.left
        BY <3>2 DEF JobRecord
      <3>3. job'[j].deferred /\ job'[j].left = job[j].left
        BY <1>0, <3>1, <3>2
      <3> QED BY <3>3 DEF GoesOn
    <2> QED BY <2>1, <2>2
  <1>s. ASSUME NEW b, NEW c, NEW s, b \in JobRecord, c = [b EXCEPT !.state = s]
        PROVE  c.state = s /\ c.left = b.left /\ c.deferred = b.deferred
    BY <1>s DEF JobRecord
  <1>4. ASSUME NEW l \in Lanes, NEW i \in Jobs, Fetch(l, i) PROVE Goal
    <2>1. CASE i # j
      <3>1. job'[j] = job[j]
        BY <1>0, <1>4, <2>1 DEF Fetch, MoveToFailed
      <3> QED BY <1>1, <3>1
    <2>2. CASE i = j
      <3>1. job[j].state = "wait"
        BY <1>4, <2>2 DEF Fetch
      <3>2. \E s \in {"failed", "active"} : job'[j] = [job[j] EXCEPT !.state = s]
        BY <1>0, <1>4, <2>2 DEF Fetch, MoveToFailed
      <3>3. /\ job'[j].left = job[j].left /\ job'[j].deferred = job[j].deferred
            /\ job'[j].state \in {"failed", "active"}
        BY <1>0, <1>s, <3>2
      <3> QED BY <3>1, <3>3 DEF GoesOn
    <2> QED BY <2>1, <2>2
  <1>5. ASSUME NEW l \in Lanes, EndJob(l) PROVE Goal
    <2>1. CASE proc[l].job # j \/ ~HasLock(l)
      <3>1. job'[j] = job[j]
        BY <1>0, <1>5, <2>1 DEF EndJob, MoveToFailed
      <3> QED BY <1>1, <3>1
    <2>2. CASE proc[l].job = j /\ HasLock(l)
      <3>1. proc[l].at = "ended" /\ job[j].state = "active"
        BY <1>5, <2>2 DEF EndJob, HasLock, Held
      <3>2. \/ \E s \in {"failed", "completed"} :
                  job'[j] = [job[j] EXCEPT !.state = s]
            \/ job'[j] = [job[j] EXCEPT !.state = "wait", !.left = @ - 1]
        BY <1>0, <1>5, <2>2 DEF EndJob, MoveToFailed
      <3>3. ASSUME job'[j] = [job[j] EXCEPT !.state = "wait", !.left = @ - 1]
            PROVE  EndsAttempt(l, j)
        <4>1. ASSUME NEW b, NEW c, b \in JobRecord,
                     c = [b EXCEPT !.state = "wait", !.left = @ - 1]
              PROVE  c.left = b.left - 1 /\ c.deferred = b.deferred
          BY <4>1 DEF JobRecord
        <4>2. job'[j].left = job[j].left - 1 /\ job'[j].deferred = job[j].deferred
          BY <1>0, <3>3, <4>1
        <4> QED BY <1>5, <2>2, <3>1, <4>2 DEF EndsAttempt
      <3>4. ASSUME NEW s \in {"failed", "completed"},
                   job'[j] = [job[j] EXCEPT !.state = s]
            PROVE  EndsAttempt(l, j)
        <4>1. /\ job'[j].state = s /\ job'[j].left = job[j].left
              /\ job'[j].deferred = job[j].deferred
          BY <1>0, <1>s, <3>4
        <4> QED BY <1>5, <2>2, <3>1, <4>1 DEF EndsAttempt
      <3> QED BY <3>2, <3>3, <3>4
    <2> QED BY <2>1, <2>2
  <1>6. ASSUME NEW l \in Lanes, Requeue(l) PROVE Goal
    <2>1. CASE UNCHANGED job
      BY <1>1, <2>1
    <2> DEFINE i == CHOOSE i \in UnusedJobs : TRUE
    <2>2. CASE /\ UnusedJobs # {}
               /\ AddNumbered(i, Held(l).dim, RequeuedBy(Held(l).by),
                              Held(l).fire)
      BY <1>2, <2>2, AnUnusedJob DEF AddNumbered
    <2> QED BY <1>6, <2>1, <2>2 DEF Requeue
  <1>7. ASSUME NEW i \in Jobs, Trim(i) PROVE Goal
    <2>1. CASE i # j
      <3>1. job'[j] = job[j]
        BY <1>0, <1>7, <2>1 DEF Trim
      <3> QED BY <1>1, <3>1
    <2>2. CASE i = j
      <3>1. job'[j] = [job[j] EXCEPT !.state = "removed"]
        BY <1>0, <1>7, <2>2 DEF Trim
      <3>2. /\ job'[j].left = job[j].left /\ job'[j].deferred = job[j].deferred
            /\ job'[j].state = "removed"
        BY <1>0, <1>s, <3>1
      <3> QED BY <1>7, <2>2, <3>2 DEF GoesOn, Trim
    <2> QED BY <2>1, <2>2
  <1>8. ASSUME NEW l \in Lanes, Hang(l) PROVE Goal
    BY <1>0, <1>3, <1>8 DEF Hang, AtWork
  <1>9. ASSUME NEW d \in Dims, EnqueueFlow(d) \/ EnqueueCli(d) PROVE Goal
    BY <1>2, <1>9, AnUnusedJob DEF EnqueueFlow, EnqueueCli, AddNumbered
  <1>10. CASE UNCHANGED job
    BY <1>1, <1>10
  <1>11. Goal
    BY <1>3, <1>4, <1>5, <1>6, <1>7, <1>8, <1>9, <1>10
    DEF SyncRunsNext, WorkerStep, Converge, StartRun, RecorderThrows,
        FinishRun, StalledCheck, OnJobFailed, EventLost, Crash,
        ReconcileStep, ReconcileList, ReconcileCheck, ReconcileThrows, syncVars
  <1> QED BY <1>11
(* Every step, seen from one worker: it stays with its job, or takes one.  *)
LEMMA ProcSide ==
  ASSUME SyncRunsInv, [SyncRunsNext]_syncVars, NEW m \in Lanes,
         proc'[m].at # "idle"
  PROVE  \/ /\ proc[m].at # "idle" /\ proc'[m].job = proc[m].job
            /\ proc'[m].at \in {"fetched", "converged"} =>
                 proc[m].at \in {"fetched", "converged"}
         \/ \E j \in Jobs :
              /\ proc[m].at = "idle" /\ Lane(j) = m /\ proc'[m].job = j
              /\ job[j].state = "wait" /\ ~job[j].deferred
              /\ job'[j].state = "active"
  <1> DEFINE Stays == /\ proc[m].at # "idle" /\ proc'[m].job = proc[m].job
                      /\ proc'[m].at \in {"fetched", "converged"} =>
                           proc[m].at \in {"fetched", "converged"}
             Takes == \E j \in Jobs :
                        /\ proc[m].at = "idle" /\ Lane(j) = m /\ proc'[m].job = j
                        /\ job[j].state = "wait" /\ ~job[j].deferred
                        /\ job'[j].state = "active"
  <1>0. /\ SyncRunsTypeOK /\ proc \in [Lanes -> ProcRecord]
        /\ proc[m] \in ProcRecord
        /\ job \in [Jobs -> JobRecord] /\ \A i \in Jobs : job[i] \in JobRecord
    BY ProcFields, JobFields DEF SyncRunsInv, SyncRunsTypeOK
  <1>1. proc'[m] = proc[m] => Stays
    OBVIOUS
  <1>2. CASE WorkerStep(m)
    <2>1. ASSUME NEW j \in Jobs, Fetch(m, j) PROVE Stays \/ Takes
      <3>1. CASE job[j].deferred
        BY <1>1, <2>1, <3>1 DEF Fetch
      <3>2. CASE ~job[j].deferred
        <4>1. /\ proc'[m] = [proc[m] EXCEPT !.at = "fetched", !.job = j]
              /\ job'[j] = [job[j] EXCEPT !.state = "active"]
          BY <1>0, <2>1, <3>2 DEF Fetch
        <4>2. proc'[m].job = j /\ job'[j].state = "active"
          BY <1>0, <4>1 DEF ProcRecord, JobRecord
        <4> QED BY <2>1, <3>2, <4>2 DEF Fetch
      <3> QED BY <3>1, <3>2
    <2>2. ASSUME NEW a, proc'[m] = [proc[m] EXCEPT !.at = a], proc[m].at # "idle",
                 a \in {"fetched", "converged"} =>
                   proc[m].at \in {"fetched", "converged"}
          PROVE  Stays
      BY <1>0, <2>2 DEF ProcRecord
    <2>3. CASE Converge(m)
      <3>1. proc'[m] = [proc[m] EXCEPT !.at = "converged"]
        BY <1>0, <2>3 DEF Converge
      <3> QED BY <2>2, <2>3, <3>1 DEF Converge
    <2>4. CASE StartRun(m)
      <3>1. proc[m].at = "converged" /\ \E r : proc'[m] =
              [proc[m] EXCEPT !.at = "running", !.run = r]
        BY <1>0, <2>4 DEF StartRun
      <3> QED BY <1>0, <3>1 DEF ProcRecord
    <2>5. CASE RecorderThrows(m) \/ \E o \in Outcomes : FinishRun(m, o)
      <3>1. proc[m].at # "idle" /\ \E o \in Outcomes : proc'[m] =
              [proc[m] EXCEPT !.at = "ended", !.outcome = o]
        BY <1>0, <2>5 DEF RecorderThrows, FinishRun, Outcomes
      <3> QED BY <1>0, <3>1 DEF ProcRecord
    <2>6. CASE Requeue(m)
      <3>1. proc[m].at = "ended" /\ \E o \in Outcomes : proc'[m] =
              [proc[m] EXCEPT !.outcome = o]
        BY <1>0, <2>6 DEF Requeue, Outcomes
      <3> QED BY <1>0, <3>1 DEF ProcRecord
    <2>7. ~EndJob(m)
      BY <1>0 DEF EndJob, Idle
    <2> QED BY <1>2, <2>1, <2>3, <2>4, <2>5, <2>6, <2>7 DEF WorkerStep
  <1>3. ASSUME NEW l \in Lanes, l # m, WorkerStep(l) PROVE Stays
    <2>1. proc'[m] = proc[m]
      BY <1>0, <1>3
      DEF WorkerStep, Fetch, Converge, StartRun, RecorderThrows, FinishRun,
          Requeue, EndJob
    <2> QED BY <1>1, <2>1
  <1>4. ~Crash
    BY DEF Crash, Idle
  <1>5. CASE UNCHANGED proc
    BY <1>1, <1>5
  <1>6. Stays \/ Takes
    BY <1>2, <1>3, <1>4, <1>5
       DEF SyncRunsNext, syncVars, EnqueueFlow, EnqueueCli, Hang,
           StalledCheck, Trim, OnJobFailed, EventLost, ReconcileStep,
           ReconcileList, ReconcileCheck, ReconcileThrows
  <1> QED BY <1>6

(* A worker that is at work on a job is its only attempt: it has not been  *)
(* put back to be fetched again, but deferred.                             *)
LEMMA OneAttemptStep ==
  ASSUME SyncRunsInv, OneAttempt, [SyncRunsNext]_syncVars
  PROVE  OneAttempt'
  <1> SUFFICES ASSUME NEW m \in Lanes, proc'[m].at # "idle"
               PROVE  \/ job'[proc'[m].job].state = "active"
                      \/ job'[proc'[m].job].deferred
    BY DEF OneAttempt, Held
  <1> DEFINE j == proc[m].job
  <1>1. CASE proc[m].at # "idle" /\ proc'[m].job = j
    <2>1. /\ j \in Jobs /\ Lane(j) = m /\ job[j].state # "none"
          /\ job[j].state = "active" \/ job[j].deferred
      BY <1>1 DEF SyncRunsInv, AtWork, OneAttempt, Held
    <2>2. \A l \in Lanes : ~EndsAttempt(l, j)
      <3> SUFFICES ASSUME NEW l \in Lanes, EndsAttempt(l, j) PROVE FALSE
        OBVIOUS
      <3>1. l = m
        BY <2>1 DEF EndsAttempt, SyncRunsInv, AtWork
      <3> QED BY <3>1 DEF EndsAttempt, EndJob, Idle, SyncRunsInv, SyncRunsTypeOK
    <2> QED BY <1>1, <2>1, <2>2, JobSide DEF GoesOn
  <1> QED BY <1>1, ProcSide

(* Before an attempt has its row there was room for it, unless the step    *)
(* ends an attempt and takes one from those that are left.                 *)
LEMMA AttemptMoves ==
  ASSUME SyncRunsInv, OneAttempt, [SyncRunsNext]_syncVars,
         NEW j \in Jobs, job[j].state # "none"
  PROVE  \/ job'[j].left = job[j].left /\ (BeforeItsRow(j)' => BeforeItsRow(j))
         \/ /\ job'[j].left = job[j].left - 1 /\ ~BeforeItsRow(j)
            /\ UNCHANGED run
  <1>0. SyncRunsTypeOK /\ AtWork /\ IdsGiven /\ IdsOfLane
    BY DEF SyncRunsInv
  <1>1. job'[j].state # "none"
    BY <1>0, StepAddsOrKeeps, IdsStep
  <1>2. ASSUME NEW m \in Lanes, proc'[m].at \in {"fetched", "converged"},
               proc'[m].job = j
        PROVE  BeforeItsRow(j)
    BY <1>2, ProcSide DEF BeforeItsRow
  <1>3. ASSUME job'[j].state = "wait" => job'[j].deferred \/ BeforeItsRow(j),
               job'[j].left = job[j].left
        PROVE  job'[j].left = job[j].left /\ (BeforeItsRow(j)' => BeforeItsRow(j))
    BY <1>1, <1>2, <1>3 DEF BeforeItsRow
  <1>4. CASE GoesOn(j)
    BY <1>3, <1>4 DEF GoesOn, BeforeItsRow
  <1>5. ASSUME NEW l \in Lanes, EndsAttempt(l, j), job'[j].left = job[j].left - 1
        PROVE  ~BeforeItsRow(j) /\ UNCHANGED run
    <2>1. ASSUME NEW m \in Lanes, proc[m].at \in {"fetched", "converged"},
                 proc[m].job = j
          PROVE  FALSE
      BY <1>5, <2>1 DEF EndsAttempt, SyncRunsInv, AtWork
    <2> QED BY <1>5, <2>1 DEF EndsAttempt, BeforeItsRow, EndJob
  <1>6. ASSUME NEW l \in Lanes, EndsAttempt(l, j), job'[j].state # "wait",
               job'[j].left = job[j].left
        PROVE  job'[j].left = job[j].left /\ (BeforeItsRow(j)' => BeforeItsRow(j))
    BY <1>3, <1>6
  <1> QED BY <1>4, <1>5, <1>6, JobSide DEF EndsAttempt
(* Every step, seen from the rows of one job: they stay, or its attempt    *)
(* opens one more.                                                         *)
LEMMA RowsSide ==
  ASSUME SyncRunsInv, [SyncRunsNext]_syncVars, NEW j \in Jobs
  PROVE  \/ RowsOf(j)' = RowsOf(j)
         \/ \E l \in Lanes, r \in Runs :
              /\ Opens(l, r) /\ proc[l].job = j
              /\ RowsOf(j)' = RowsOf(j) \cup {r}
  <1>0. run \in [Runs -> RunRecord] /\ SyncRunsTypeOK
    BY DEF SyncRunsInv, SyncRunsTypeOK
  <1>1. ASSUME NEW l \in Lanes, NEW r \in Runs, Opens(l, r)
        PROVE  RowsOf(j)' = IF proc[l].job = j THEN RowsOf(j) \cup {r}
                                               ELSE RowsOf(j)
    <2>1. /\ \A q \in Runs \ {r} : run'[q] = run[q]
          /\ run'[r].status = "running" /\ run'[r].job = proc[l].job
          /\ run[r].status = "none"
      BY <1>0, <1>1 DEF Opens
    <2> QED BY <2>1 DEF RowsOf
  <1>2. ASSUME \A l \in Lanes, r \in Runs : ~Opens(l, r)
        PROVE  RowsOf(j)' = RowsOf(j)
    <2>1. ASSUME NEW r \in Runs
          PROVE  /\ run'[r].status # "none" <=> run[r].status # "none"
                 /\ run'[r].job = run[r].job
      <3>1. ASSUME NEW l \in Lanes, Finishes(l, r) PROVE run[r].status # "none"
        BY <3>1 DEF Finishes, SyncRunsInv, OnItsRow
      <3> QED BY <1>2, <3>1, RowMoves DEF Finishes, ClosedFromOutside, KeyStays
    <2> QED BY <2>1 DEF RowsOf
  <1> QED BY <1>1, <1>2

(* An attempt opens its row once.                                          *)
LEMMA OpeningUsesAttempt ==
  ASSUME SyncRunsInv, OneAttempt, [SyncRunsNext]_syncVars,
         NEW l \in Lanes, NEW r \in Runs, Opens(l, r),
         NEW j \in Jobs, proc[l].job = j
  PROVE  /\ job[j].state # "none"
         /\ BeforeItsRow(j) /\ ~BeforeItsRow(j)'
         /\ UNCHANGED job
  <1>0. proc \in [Lanes -> ProcRecord] /\ proc[l] \in ProcRecord
    BY DEF SyncRunsInv, SyncRunsTypeOK
  <1>1. /\ Lane(j) = l /\ job[j].state \in {"wait", "active"}
        /\ job[j].state = "active" \/ job[j].deferred
        /\ proc[l].at = "converged" /\ UNCHANGED job
    BY DEF Opens, SyncRunsInv, AtWork, OneAttempt, Held
  <1>2. proc'[l].at = "running" /\ \A m \in Lanes \ {l} : proc'[m] = proc[m]
    BY <1>0 DEF Opens, ProcRecord
  <1>3. ASSUME NEW m \in Lanes, proc'[m].at \in {"fetched", "converged"},
               proc'[m].job = j
        PROVE  FALSE
    <2>1. m # l /\ proc[m].at # "idle" /\ proc[m].job = j
      BY <1>2, <1>3
    <2> QED BY <1>1, <2>1 DEF SyncRunsInv, AtWork
  <1> QED BY <1>1, <1>3 DEF BeforeItsRow

(* The rows and the attempts of a job stay in balance.                     *)
LEMMA AttemptRowsStep ==
  ASSUME AttemptsInv, [SyncRunsNext]_syncVars
  PROVE  AttemptRows'
  <1>0. SyncRunsInv /\ OneAttempt /\ SyncRunsTypeOK /\ SyncRunsTypeOK'
    BY StepTyped DEF AttemptsInv, SyncRunsInv
  <1> SUFFICES ASSUME NEW j \in Jobs
               PROVE  /\ IsFiniteSet(RowsOf(j)')
                      /\ Cardinality(RowsOf(j)') + job'[j].left
                           <= IF BeforeItsRow(j)' THEN RetryMax ELSE RetryMax + 1
    BY DEF AttemptRows
  <1> DEFINE rows == Cardinality(RowsOf(j))
  <1>1. /\ IsFiniteSet(RowsOf(j)) /\ rows \in Nat
        /\ rows + job[j].left <= IF BeforeItsRow(j) THEN RetryMax ELSE RetryMax + 1
    BY FS_CardinalityType DEF AttemptsInv, AttemptRows
  <1>2. /\ job[j].left \in Nat /\ job'[j].left \in 1..RetryMax /\ RetryMax \in Nat
    <2>1. job \in [Jobs -> JobRecord] /\ job' \in [Jobs -> JobRecord]
      BY <1>0 DEF SyncRunsTypeOK
    <2>2. job[j] \in JobRecord /\ job'[j] \in JobRecord
      BY <2>1
    <2> QED BY <2>2, SyncRunsAssumption DEF JobRecord
  <1>3. CASE job[j].state = "none"
    <2>1. RowsOf(j) = {}
      BY <1>3 DEF AttemptsInv, RowsSayTrigger, RowsOf
    <2>2. \A l \in Lanes, r \in Runs : Opens(l, r) => proc[l].job # j
      BY <1>0, <1>3, OpeningUsesAttempt
    <2>3. RowsOf(j)' = {}
      BY <1>0, <2>1, <2>2, RowsSide
    <2> QED BY <1>2, <2>3, FS_EmptySet
  <1>4. ASSUME NEW l \in Lanes, NEW r \in Runs, Opens(l, r), proc[l].job = j,
               RowsOf(j)' = RowsOf(j) \cup {r}
        PROVE  /\ IsFiniteSet(RowsOf(j)')
               /\ Cardinality(RowsOf(j)') + job'[j].left
                    <= IF BeforeItsRow(j)' THEN RetryMax ELSE RetryMax + 1
    <2>1. BeforeItsRow(j) /\ ~BeforeItsRow(j)' /\ UNCHANGED job
      BY <1>0, <1>4, OpeningUsesAttempt
    <2>2. IsFiniteSet(RowsOf(j)') /\ Cardinality(RowsOf(j)') <= rows + 1
          /\ Cardinality(RowsOf(j)') \in Nat
      <3>1. IsFiniteSet(RowsOf(j) \cup {r})
            /\ Cardinality(RowsOf(j) \cup {r}) <= rows + 1
        BY <1>1, FS_AddElement
      <3>2. Cardinality(RowsOf(j) \cup {r}) \in Nat
        BY <3>1, FS_CardinalityType
      <3> QED BY <1>4, <3>1, <3>2
    <2> QED BY <1>1, <1>2, <2>1, <2>2
  <1>5. CASE job[j].state # "none" /\ RowsOf(j)' = RowsOf(j)
    BY <1>0, <1>1, <1>2, <1>5, AttemptMoves
  <1> QED BY <1>0, <1>3, <1>4, <1>5, RowsSide

(* A row keeps the job, and with it the trigger, that it was opened for.   *)
LEMMA TriggersStep ==
  ASSUME AttemptsInv, [SyncRunsNext]_syncVars
  PROVE  RowsSayTrigger' /\ FiresOfTicks'
  <1>0. /\ SyncRunsInv /\ SyncRunsTypeOK /\ RowsSayTrigger /\ AddsOrKeeps
        /\ job \in [Jobs -> JobRecord] /\ run \in [Runs -> RunRecord]
    BY StepAddsOrKeeps DEF AttemptsInv, SyncRunsInv, SyncRunsTypeOK
  <1>1. ASSUME NEW j \in Jobs, NEW d \in Dims, NEW by \in Triggers,
               NEW fire \in Jobs, Adds(j, d, by, fire)
        PROVE  /\ job[j].state = "none" /\ job'[j].by = by /\ job'[j].fire = fire
               /\ \A i \in Jobs \ {j} : job'[i] = job[i]
    BY <1>0, <1>1 DEF Adds, AddNumbered, Added
  <1>2. ASSUME NEW j \in Jobs, job[j].state # "none"
        PROVE  job'[j].state # "none" /\ job'[j].by = job[j].by
    BY <1>0, <1>1, <1>2 DEF AddsOrKeeps, Keeps
  <1>3. FiresOfTicks'
    BY <1>0, <1>1 DEF AddsOrKeeps, Keeps, FiresOfTicks, AttemptsInv
  <1>4. ASSUME NEW r \in Runs, run'[r].status # "none"
        PROVE  /\ run'[r].job \in Jobs
               /\ job'[run'[r].job].state # "none"
               /\ job'[run'[r].job].by = run'[r].by
    <2>1. ASSUME NEW l \in Lanes, Opens(l, r)
          PROVE  /\ run'[r].job \in Jobs
                 /\ job'[run'[r].job].state # "none"
                 /\ job'[run'[r].job].by = run'[r].by
      <3>1. /\ run'[r].job = proc[l].job /\ run'[r].by = Held(l).by
            /\ UNCHANGED job
        BY <1>0, <2>1 DEF Opens
      <3>2. proc[l].job \in Jobs /\ Held(l).state # "none"
        BY <1>0, <2>1 DEF Opens, SyncRunsInv, AtWork, Held
      <3> QED BY <3>1, <3>2 DEF Held
    <2>2. CASE \A l \in Lanes : ~Opens(l, r)
      <3>1. ASSUME NEW l \in Lanes, Finishes(l, r) PROVE run[r].status # "none"
        BY <1>0, <3>1 DEF Finishes, SyncRunsInv, OnItsRow
      <3>2. /\ run[r].status # "none"
            /\ run'[r].job = run[r].job /\ run'[r].by = run[r].by
        BY <1>0, <1>4, <2>2, <3>1, RowMoves
           DEF Finishes, ClosedFromOutside, KeyStays
      <3> QED BY <1>0, <1>2, <3>2 DEF RowsSayTrigger
    <2> QED BY <2>1, <2>2
  <1> QED BY <1>3, <1>4 DEF RowsSayTrigger

(* No job, no row, every attempt left: the balance holds at first.         *)
LEMMA AttemptsInit == SyncRunsInit => AttemptsInv
  <1> SUFFICES ASSUME SyncRunsInit PROVE AttemptsInv
    OBVIOUS
  <1>1. /\ \A j \in Jobs : /\ job[j].state = "none" /\ job[j].left = RetryMax
                           /\ job[j].fire = j
        /\ \A r \in Runs : run[r].status = "none"
        /\ \A l \in Lanes : proc[l].at = "idle"
    BY DEF SyncRunsInit, Idle
  <1>2. \A j \in Jobs : RowsOf(j) = {} /\ BeforeItsRow(j)
    BY <1>1 DEF RowsOf, BeforeItsRow
  <1>3. AttemptRows
    <2>1. IsFiniteSet({}) /\ Cardinality({}) + RetryMax <= RetryMax
      BY FS_EmptySet, SyncRunsAssumption
    <2> QED BY <1>1, <1>2, <2>1 DEF AttemptRows
  <1> QED BY <1>1, <1>3, InitInv
          DEF AttemptsInv, RowsSayTrigger, FiresOfTicks, OneAttempt

(* The invariant that counts the attempts is inductive.                    *)
THEOREM AttemptsInvariant == SyncRunsSpec => []AttemptsInv
  <1>1. SyncRunsInv /\ [SyncRunsNext]_syncVars => SyncRunsInv'
    BY StepTyped, AtWorkStep, OnItsRowStep, StepAddsOrKeeps, IdsStep,
       FailedStep, RowsStep DEF SyncRunsInv
  <1>2. AttemptsInv /\ [SyncRunsNext]_syncVars => AttemptsInv'
    BY <1>1, AttemptRowsStep, TriggersStep, OneAttemptStep DEF AttemptsInv
  <1> QED BY <1>2, AttemptsInit, PTL DEF SyncRunsSpec

(* One fire of a dimension makes at most RetryMax rows that count as its   *)
(* attempts, through retries, hangs, crashes and requeues: what the round  *)
(* counters read from sync_run does not exceed what the schedule allows.   *)
THEOREM FiresAreBounded == SyncRunsSpec => []TickRowsBounded
  <1>1. AttemptsInv => TickRowsBounded
    <2> SUFFICES ASSUME AttemptsInv, NEW f \in Jobs
                 PROVE  Cardinality({r \in Runs : /\ run[r].status # "none"
                                                  /\ run[r].by = "tick"
                                                  /\ job[run[r].job].fire = f})
                          <= RetryMax
      BY DEF TickRowsBounded
    <2> DEFINE rows == {r \in Runs : /\ run[r].status # "none"
                                     /\ run[r].by = "tick"
                                     /\ job[run[r].job].fire = f}
    <2>1. rows \subseteq RowsOf(f)
      BY DEF AttemptsInv, RowsSayTrigger, FiresOfTicks, RowsOf
    <2> HIDE DEF rows
    <2>2. /\ IsFiniteSet(RowsOf(f))
          /\ Cardinality(RowsOf(f)) + job[f].left <= RetryMax + 1
      <3>1. IsFiniteSet(RowsOf(f)) /\ Cardinality(RowsOf(f)) + job[f].left
              <= IF BeforeItsRow(f) THEN RetryMax ELSE RetryMax + 1
        BY DEF AttemptsInv, AttemptRows
      <3>2. Cardinality(RowsOf(f)) + job[f].left \in Int
        BY <3>1, FS_CardinalityType, JobFields DEF AttemptsInv, SyncRunsInv
      <3> QED BY <3>1, <3>2, SyncRunsAssumption
    <2>3. IsFiniteSet(rows) /\ Cardinality(rows) <= Cardinality(RowsOf(f))
      BY <2>1, <2>2, FS_Subset
    <2>4. job[f].left \in 1..RetryMax
      BY JobFields DEF AttemptsInv, SyncRunsInv
    <2>5. Cardinality(rows) <= RetryMax
      BY <2>2, <2>3, <2>4, FS_CardinalityType, SyncRunsAssumption
    <2> QED BY <2>5 DEF rows
  <1> QED BY <1>1, AttemptsInvariant, PTL
=============================================================================
