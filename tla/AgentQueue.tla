----------------------------- MODULE AgentQueue -----------------------------
(***************************************************************************)
(* The work queue of apps/server/src/agent-bridge: a table of events that  *)
(* workers outside the server poll, hold under a lease, extend (ack) and   *)
(* settle (result).                                                        *)
(*                                                                         *)
(* Time is kept relative: a ttl is the number of ticks left before         *)
(* `lease_expires_at < now()` becomes true, so a fresh lease of L ticks has*)
(* ttl L + 1 and 0 means expired.  A poll is one SQL statement, but one in *)
(* which SELECT ... FOR UPDATE SKIP LOCKED takes the row lock and the      *)
(* UPDATE commits later; the two halves are two steps here, and other      *)
(* polls, acks and results run in between as the row lock allows.  A       *)
(* worker may crash, lose any reply of the server, retry a call, and go on *)
(* using an event whose lease has long expired.                            *)
(***************************************************************************)
EXTENDS Naturals

CONSTANTS
  Events,       \* rows, by the outbox event they come from (source_event_id)
  Workers,      \* polling workers
  NoEvent,      \* "no event"
  LeaseSeconds, \* LEASE_SECONDS, in ticks
  AttemptsCap,  \* bound: the attempts counter saturates here
  MaxFaults     \* bound: lost replies, rollbacks and worker crashes

ASSUME AgentQueueAssumption ==
  /\ NoEvent \notin Events
  /\ LeaseSeconds \in Nat \ {0}
  /\ AttemptsCap \in Nat \ {0}
  /\ MaxFaults \in Nat

VARIABLES
  queue,     \* the agent_queue_event table
  arrivals,  \* rows inserted so far: the clock of created_at
  poll,      \* the poll statement each worker has running, with its row lock
  worker,    \* what each worker believes it holds, and until when
  faults     \* faults so far

queueVars == <<queue, arrivals, poll, worker, faults>>

-----------------------------------------------------------------------------
FreshLease == LeaseSeconds + 1
Ttl == 0..FreshLease

QueueRow == [status: {"absent", "pending", "claimed", "done", "failed"},
             ttl: Ttl, attempts: 0..AttemptsCap, createdAt: Nat]

(* `event` is the row a poll has locked or a worker holds, `ttl` the lease *)
(* it was promised, `late` whether the worker has acked after that lease   *)
(* had run out (the server does not look).                                 *)
Poll == [event: Events \cup {NoEvent}, ttl: Ttl]
Belief == [event: Events \cup {NoEvent}, ttl: Ttl, late: BOOLEAN]

NoPoll == [event |-> NoEvent, ttl |-> 0]
Nothing == [event |-> NoEvent, ttl |-> 0, late |-> FALSE]

QueueTypeOK ==
  /\ queue \in [Events -> QueueRow]
  /\ arrivals \in Nat
  /\ poll \in [Workers -> Poll]
  /\ worker \in [Workers -> Belief]
  /\ faults \in 0..MaxFaults

QueueInit ==
  /\ queue = [e \in Events |-> [status |-> "absent", ttl |-> 0,
                                attempts |-> 0, createdAt |-> 0]]
  /\ arrivals = 0
  /\ poll = [w \in Workers |-> NoPoll]
  /\ worker = [w \in Workers |-> Nothing]
  /\ faults = 0

Terminal(e) == queue[e].status \in {"done", "failed"}

(* Mutants of Claimable: an expired claim is not offered again; a claimed  *)
(* row is offered whatever its lease.                                      *)
ClaimableOnce(e) == queue[e].status = "pending"
ClaimableAnyLease(e) == queue[e].status \in {"pending", "claimed"}

(* The WHERE of the claim.                                                 *)
Claimable(e) ==
  \/ queue[e].status = "pending"
  \/ queue[e].status = "claimed" /\ queue[e].ttl = 0

(* Mutant of Locked: the subselect takes no row lock.                      *)
NotLocked(e) == FALSE

Locked(e) == \E w \in Workers : poll[w].event = e

Fault == faults < MaxFaults /\ faults' = faults + 1
NoFault == UNCHANGED faults

(* Mutant of Elapse: a lease goes on counting after it has expired.        *)
ElapsePastZero(t) == t - 1

Elapse(t) == IF t = 0 THEN 0 ELSE t - 1
OneMore(n) == IF n < AttemptsCap THEN n + 1 ELSE n

-----------------------------------------------------------------------------
(* EnqueueRequirementSubscriber.handle inserts the row of a source event   *)
(* that has none yet.                                                      *)
Enqueue(e) ==
  /\ queue[e].status = "absent"
  /\ queue' = [queue EXCEPT ![e] = [status |-> "pending", ttl |-> 0,
                                    attempts |-> 0, createdAt |-> arrivals + 1]]
  /\ arrivals' = arrivals + 1
  /\ UNCHANGED <<poll, worker, faults>>

(* The claim's subselect: the oldest claimable row no other statement has  *)
(* locked, now locked by this one.  now() is that of this moment.          *)
PollSelect(w, e) ==
  /\ worker[w].event = NoEvent
  /\ poll[w].event = NoEvent
  /\ Claimable(e)
  /\ ~Locked(e)
  /\ \A f \in Events :
       (Claimable(f) /\ ~Locked(f)) => queue[e].createdAt <= queue[f].createdAt
  /\ poll' = [poll EXCEPT ![w] = [event |-> e, ttl |-> FreshLease]]
  /\ UNCHANGED <<queue, arrivals, worker, faults>>

(* Mutant of Claim: attempts is not incremented.                           *)
ClaimUncounted(w, e) ==
  /\ poll[w].event = e
  /\ queue' = [queue EXCEPT ![e].status = "claimed", ![e].ttl = poll[w].ttl]
  /\ poll' = [poll EXCEPT ![w] = NoPoll]
  /\ UNCHANGED arrivals

(* The claim's UPDATE commits.                                             *)
Claim(w, e) ==
  /\ poll[w].event = e
  /\ queue' = [queue EXCEPT ![e].status = "claimed", ![e].ttl = poll[w].ttl,
                            ![e].attempts = OneMore(@)]
  /\ poll' = [poll EXCEPT ![w] = NoPoll]
  /\ UNCHANGED arrivals

PollCommit(w, e) ==
  /\ Claim(w, e)
  /\ worker' = [worker EXCEPT ![w] = [event |-> e, ttl |-> poll[w].ttl,
                                      late |-> FALSE]]
  /\ NoFault

(* The reply never reaches the worker.                                     *)
PollReplyLost(w, e) ==
  /\ Claim(w, e)
  /\ UNCHANGED worker
  /\ Fault

(* The server or its connection dies before the commit: rolled back.       *)
PollAbort(w, e) ==
  /\ poll[w].event = e
  /\ poll' = [poll EXCEPT ![w] = NoPoll]
  /\ UNCHANGED <<queue, arrivals, worker>>
  /\ Fault

-----------------------------------------------------------------------------
Holds(w, e) == e # NoEvent /\ worker[w].event = e

(* Mutant of ExtendLease: lease_expires_at is not written.                 *)
ExtendNothing(e) ==
  /\ ~Locked(e)
  /\ queue[e].status = "claimed"
  /\ UNCHANGED <<queue, arrivals, poll>>

(* ExtendLeaseUseCase.execute on a claimed row; whose claim it is, and     *)
(* whether that claim has expired, is not looked at.                       *)
ExtendLease(e) ==
  /\ ~Locked(e)
  /\ queue[e].status = "claimed"
  /\ queue' = [queue EXCEPT ![e].ttl = FreshLease]
  /\ UNCHANGED <<arrivals, poll>>

Ack(w, e) ==
  /\ Holds(w, e)
  /\ ExtendLease(e)
  /\ worker' = [worker EXCEPT ![w].ttl = FreshLease,
                              ![w].late = @ \/ worker[w].ttl = 0]
  /\ NoFault

AckReplyLost(w, e) ==
  /\ Holds(w, e)
  /\ ExtendLease(e)
  /\ UNCHANGED worker
  /\ Fault

(* Mutant of Complete: the row is found by its id alone.                   *)
CompleteAnyStatus(e, outcome) ==
  /\ ~Locked(e)
  /\ queue[e].status # "absent"
  /\ queue' = [queue EXCEPT ![e].status = outcome]
  /\ UNCHANGED <<arrivals, poll>>

(* CompleteEventUseCase.execute on a claimed row.                          *)
Complete(e, outcome) ==
  /\ ~Locked(e)
  /\ queue[e].status = "claimed"
  /\ queue' = [queue EXCEPT ![e].status = outcome]
  /\ UNCHANGED <<arrivals, poll>>

Result(w, e, outcome) ==
  /\ Holds(w, e)
  /\ Complete(e, outcome)
  /\ worker' = [worker EXCEPT ![w] = Nothing]
  /\ NoFault

(* The worker does not learn that its result was recorded, and may retry.  *)
ResultReplyLost(w, e, outcome) ==
  /\ Holds(w, e)
  /\ Complete(e, outcome)
  /\ UNCHANGED worker
  /\ Fault

(* An ack or a result for a row that is not claimed: 404, and the worker   *)
(* gives the event up.                                                     *)
Refused(w, e) ==
  /\ Holds(w, e)
  /\ ~Locked(e)
  /\ queue[e].status # "claimed"
  /\ worker' = [worker EXCEPT ![w] = Nothing]
  /\ UNCHANGED <<queue, arrivals, poll, faults>>

WorkerCrash(w) ==
  /\ worker[w].event # NoEvent
  /\ worker' = [worker EXCEPT ![w] = Nothing]
  /\ UNCHANGED <<queue, arrivals, poll>>
  /\ Fault

Tick ==
  /\ \/ \E e \in Events : queue[e].ttl > 0
     \/ \E w \in Workers : worker[w].ttl > 0
  /\ queue' = [e \in Events |-> [queue[e] EXCEPT !.ttl = Elapse(@)]]
  /\ poll' = [w \in Workers |-> [poll[w] EXCEPT !.ttl = Elapse(@)]]
  /\ worker' = [w \in Workers |-> [worker[w] EXCEPT !.ttl = Elapse(@)]]
  /\ UNCHANGED <<arrivals, faults>>

PollStep(w, e) ==
  PollSelect(w, e) \/ PollCommit(w, e) \/ PollReplyLost(w, e) \/ PollAbort(w, e)

WorkerStep(w, e) ==
  \/ Ack(w, e) \/ AckReplyLost(w, e)
  \/ \E o \in {"done", "failed"} : Result(w, e, o) \/ ResultReplyLost(w, e, o)
  \/ Refused(w, e)

QueueNext ==
  \/ \E e \in Events : Enqueue(e)
  \/ \E w \in Workers, e \in Events : PollStep(w, e) \/ WorkerStep(w, e)
  \/ \E w \in Workers : WorkerCrash(w)
  \/ Tick

QueueSpec == QueueInit /\ [][QueueNext]_queueVars

-----------------------------------------------------------------------------
(* Safety                                                                  *)

(* A poll statement in flight has a row of its own, and that row stays     *)
(* claimable until the statement commits: no two concurrent polls return   *)
(* the same event ("zero duplicate delivery"), and no ack or result slips  *)
(* in between a poll's choice of a row and its update.                     *)
ClaimsAreExclusive ==
  /\ \A w \in Workers : poll[w].event # NoEvent => Claimable(poll[w].event)
  /\ \A v, w \in Workers :
       (poll[v].event = poll[w].event /\ poll[v].event # NoEvent) => v = w

(* A worker is never promised more of a lease than the row grants: the row *)
(* stays invisible to polls at least until the lease that any holder was   *)
(* told about has run out, whoever acked and whichever replies were lost.  *)
BeliefWithinLease ==
  \A w \in Workers, e \in Events :
    Holds(w, e) => worker[w].ttl <= queue[e].ttl

(* Two workers believe at the same time that they hold an unexpired lease  *)
(* on one event only if one of them has acked after its own had expired:   *)
(* redelivery alone never doubles a live claim.                            *)
LiveClaimExclusive ==
  \A v, w \in Workers, e \in Events :
    (/\ v # w
     /\ Holds(v, e) /\ worker[v].ttl > 0
     /\ Holds(w, e) /\ worker[w].ttl > 0)
      => worker[v].late \/ worker[w].late

(* Once an outcome is recorded the row never changes again, whatever a late*)
(* poll, ack or result of any worker does: the first result wins.          *)
OutcomeIsFinal ==
  [][\A e \in Events : Terminal(e) => queue'[e].status = queue[e].status]_queueVars

(* The queue implements WorkQueue: entered once, handed out at least once  *)
(* before it is settled, settled at most once.                             *)
Promise == INSTANCE WorkQueue WITH
  entered   <- {e \in Events : queue[e].status # "absent"},
  handedOut <- {e \in Events : queue[e].attempts > 0},
  outcome   <- [e \in Events |-> IF Terminal(e) THEN queue[e].status ELSE "none"]

ImplementsWorkQueue == Promise!Spec

-----------------------------------------------------------------------------
(* Liveness.  Workers keep polling, finish what they hold or are refused,  *)
(* the database answers, time passes; crashes and lost replies are bounded *)
(* by MaxFaults.                                                           *)
Ends(w, e) == Refused(w, e) \/ \E o \in {"done", "failed"} : Result(w, e, o)

QueueFairness ==
  /\ WF_queueVars(Tick)
  /\ \A w \in Workers :
       /\ SF_queueVars(\E e \in Events : PollSelect(w, e))
       /\ WF_queueVars(\E e \in Events : PollCommit(w, e))
       /\ SF_queueVars(\E e \in Events : Ends(w, e))

QueueFairSpec == QueueSpec /\ QueueFairness

(* Every event that was enqueued gets an outcome, although workers crash   *)
(* while they hold it and replies are lost: its lease runs out and it is   *)
(* handed out again.                                                       *)
EventuallySettled ==
  \A e \in Events : queue[e].status = "pending" ~> Terminal(e)
=============================================================================
