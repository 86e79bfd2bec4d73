-------------------------- MODULE AgentQueue_proofs --------------------------
(***************************************************************************)
(* Proofs about AgentQueue, for any set of events and workers, any lease   *)
(* length and any number of faults.                                        *)
(*                                                                         *)
(* The invariants are not inductive by themselves.  QueueInv adds why a    *)
(* committing poll cannot cut a lease short: the row it has locked was     *)
(* claimable when it was chosen and has stayed so, hence has no lease left,*)
(* hence (BeliefWithinLease) no holder has any either; and a row that was  *)
(* never claimed has no lease at all (UnclaimedHasNoLease).                *)
(*                                                                         *)
(* The last part is about MockupReporting, which extends the queue.  A     *)
(* report is made between a check and an insert; what was true at the check*)
(* need not hold at the insert, but that the event was handed out does     *)
(* (HandedOutStays), because the queue never takes a claimed row back to   *)
(* pending (StepShapes).                                                   *)
(***************************************************************************)
EXTENDS MockupReporting, TLAPS

UnclaimedHasNoLease ==
  \A e \in Events : queue[e].status \in {"absent", "pending"} => queue[e].ttl = 0

QueueInv ==
  /\ QueueTypeOK
  /\ UnclaimedHasNoLease
  /\ ClaimsAreExclusive
  /\ BeliefWithinLease
  /\ LiveClaimExclusive

-----------------------------------------------------------------------------
(* A fresh lease is the longest, and elapsing keeps a ttl in range, keeps  *)
(* the order of two of them, and never revives one (Elapse).               *)
LEMMA TtlFacts ==
  /\ FreshLease \in Ttl /\ 0 \in Ttl
  /\ \A t \in Ttl : t \in Nat /\ t <= FreshLease /\ Elapse(t) \in Ttl
                     /\ (Elapse(t) > 0 => t > 0) /\ (t = 0 => Elapse(t) = 0)
  /\ \A t, u \in Ttl : t <= u => Elapse(t) <= Elapse(u)
  BY AgentQueueAssumption DEF FreshLease, Ttl, Elapse

(* A row some poll has locked has no lease left, and so nobody who holds it*)
(* has (PollSelect's WHERE, kept by the row lock).                         *)
LEMMA LockedIsExpired ==
  ASSUME QueueInv, NEW e \in Events, Locked(e)
  PROVE  /\ Claimable(e)
         /\ queue[e].ttl = 0
         /\ \A w \in Workers : Holds(w, e) => worker[w].ttl = 0
  <1>1. Claimable(e)
    BY AgentQueueAssumption DEF QueueInv, ClaimsAreExclusive, Locked
  <1>2. queue[e].ttl = 0
    BY <1>1 DEF Claimable, QueueInv, UnclaimedHasNoLease
  <1>3. ASSUME NEW w \in Workers, Holds(w, e) PROVE worker[w].ttl = 0
    <2>1. worker[w].ttl <= 0
      BY <1>2, <1>3 DEF QueueInv, BeliefWithinLease
    <2>2. worker[w].ttl \in Nat
      BY TtlFacts DEF QueueInv, QueueTypeOK, Belief
    <2> QED BY <2>1, <2>2
  <1> QED BY <1>1, <1>2, <1>3

(* The empty queue, with idle workers, satisfies the invariant.            *)
LEMMA InitInv == QueueInit => QueueInv
  <1> SUFFICES ASSUME QueueInit PROVE QueueInv
    OBVIOUS
  <1> USE DEF QueueInit
  <1>1. QueueTypeOK
    BY AgentQueueAssumption, TtlFacts
    DEF QueueTypeOK, QueueRow, Poll, Belief, NoPoll, Nothing
  <1>2. UnclaimedHasNoLease
    BY DEF UnclaimedHasNoLease
  <1>3. ClaimsAreExclusive
    BY DEF ClaimsAreExclusive, NoPoll
  <1>4. BeliefWithinLease /\ LiveClaimExclusive
    BY DEF BeliefWithinLease, LiveClaimExclusive, Holds, Nothing
  <1> QED BY <1>1, <1>2, <1>3, <1>4 DEF QueueInv

-----------------------------------------------------------------------------
(* One lemma per group of actions                                          *)

(* A new row is pending, has no lease, and nobody polls or holds it.       *)
LEMMA EnqueueInv ==
  ASSUME QueueInv, NEW e \in Events, Enqueue(e)
  PROVE  QueueInv'
  <1> USE DEF QueueInv, Enqueue
  <1>1. QueueTypeOK'
    BY AgentQueueAssumption, TtlFacts DEF QueueTypeOK, QueueRow
  <1>2. UnclaimedHasNoLease'
    BY DEF UnclaimedHasNoLease, QueueTypeOK
  <1>3. ClaimsAreExclusive'
    BY DEF ClaimsAreExclusive, Claimable, QueueTypeOK, Poll
  <1>4. BeliefWithinLease' /\ LiveClaimExclusive'
    <2>1. queue'[e].ttl = queue[e].ttl
      BY DEF UnclaimedHasNoLease, QueueTypeOK
    <2>2. \A f \in Events : queue'[f].ttl = queue[f].ttl
      BY <2>1 DEF QueueTypeOK
    <2> QED BY <2>2 DEF BeliefWithinLease, LiveClaimExclusive, Holds
  <1> QED BY <1>1, <1>2, <1>3, <1>4

(* The claim's subselect takes a claimable row that no statement has       *)
(* locked, so the locks stay exclusive.                                    *)
LEMMA PollSelectInv ==
  ASSUME QueueInv, NEW w \in Workers, NEW e \in Events, PollSelect(w, e)
  PROVE  QueueInv'
  <1> USE DEF QueueInv, PollSelect
  <1>1. QueueTypeOK'
    BY TtlFacts DEF QueueTypeOK, Poll
  <1>2. UnclaimedHasNoLease'
    BY DEF UnclaimedHasNoLease
  <1>3. ClaimsAreExclusive'
    BY DEF ClaimsAreExclusive, Claimable, Locked, QueueTypeOK, Poll
  <1>4. BeliefWithinLease' /\ LiveClaimExclusive'
    BY DEF BeliefWithinLease, LiveClaimExclusive, Holds
  <1> QED BY <1>1, <1>2, <1>3, <1>4

(* The UPDATE of a poll, whether the worker hears of it or not.            *)
LEMMA ClaimInv ==
  ASSUME QueueInv, NEW w \in Workers, NEW e \in Events, Claim(w, e),
         \/ worker' = [worker EXCEPT ![w] = [event |-> e, ttl |-> poll[w].ttl,
                                             late |-> FALSE]]
         \/ UNCHANGED worker,
         faults' \in 0..MaxFaults
  PROVE  QueueInv'
  <1> USE DEF QueueInv, Claim
  <1>0. Locked(e) /\ e # NoEvent
    BY AgentQueueAssumption DEF Locked
  <1>1. QueueTypeOK'
    <2>1. OneMore(queue[e].attempts) \in 0..AttemptsCap
      BY AgentQueueAssumption DEF OneMore, QueueTypeOK, QueueRow
    <2>0. poll[w].ttl \in Ttl
      BY DEF QueueTypeOK, Poll
    <2>2. queue' \in [Events -> QueueRow]
      <3>1. queue \in [Events -> QueueRow]
        BY DEF QueueTypeOK
      <3>2. [queue[e] EXCEPT !.status = "claimed", !.ttl = poll[w].ttl,
                             !.attempts = OneMore(queue[e].attempts)] \in QueueRow
        BY <2>0, <2>1, <3>1 DEF QueueRow
      <3>3. queue' = [queue EXCEPT ![e] =
                        [queue[e] EXCEPT !.status = "claimed", !.ttl = poll[w].ttl,
                                         !.attempts = OneMore(queue[e].attempts)]]
        BY <3>1
      <3> QED BY <3>1, <3>2, <3>3
    <2>3. poll' \in [Workers -> Poll]
      BY TtlFacts DEF QueueTypeOK, Poll, NoPoll
    <2>4. worker' \in [Workers -> Belief]
      <3>1. [event |-> e, ttl |-> poll[w].ttl, late |-> FALSE] \in Belief
        BY <2>0 DEF Belief
      <3>2. worker \in [Workers -> Belief]
        BY DEF QueueTypeOK
      <3> QED BY <3>1, <3>2
    <2> QED BY <2>2, <2>3, <2>4 DEF QueueTypeOK
  <1>2. UnclaimedHasNoLease'
    BY DEF UnclaimedHasNoLease, QueueTypeOK, QueueRow
  <1>3. ClaimsAreExclusive'
    BY <1>0 DEF ClaimsAreExclusive, Claimable, QueueTypeOK, QueueRow, Poll, NoPoll
  <1>4. ASSUME NEW v \in Workers, NEW f \in Events, Holds(v, f)'
        PROVE  /\ worker'[v].ttl <= queue'[f].ttl
               /\ v # w \/ UNCHANGED worker => Holds(v, f) /\ worker'[v] = worker[v]
               /\ f = e /\ (v # w \/ UNCHANGED worker) => worker'[v].ttl = 0
    <2>1. ASSUME v # w \/ UNCHANGED worker PROVE Holds(v, f) /\ worker'[v] = worker[v]
      BY <1>4, <2>1 DEF Holds, QueueTypeOK
    <2>2. ASSUME f = e, v # w \/ UNCHANGED worker PROVE worker'[v].ttl = 0
      BY <1>0, <2>1, <2>2, LockedIsExpired
    <2>3. worker'[v].ttl <= queue'[f].ttl
      <3>1. CASE f # e
        <4>1. v # w \/ UNCHANGED worker
          BY <1>4, <3>1 DEF Holds, QueueTypeOK
        <4> QED BY <3>1, <4>1, <2>1 DEF BeliefWithinLease, QueueTypeOK
      <3>2. CASE f = e /\ (v # w \/ UNCHANGED worker)
        <4>1. queue'[e].ttl = poll[w].ttl /\ poll[w].ttl \in Nat
          BY TtlFacts DEF QueueTypeOK, QueueRow, Poll
        <4> QED BY <3>2, <2>2, <4>1
      <3>3. CASE f = e /\ v = w /\ ~UNCHANGED worker
        <4>1. queue'[e].ttl = poll[w].ttl /\ poll[w].ttl \in Nat
          BY TtlFacts DEF QueueTypeOK, QueueRow, Poll
        <4>2. worker'[w].ttl = poll[w].ttl
          BY <3>3 DEF QueueTypeOK
        <4> QED BY <3>3, <4>1, <4>2
      <3> QED BY <3>1, <3>2, <3>3
    <2> QED BY <2>1, <2>2, <2>3
  <1>5. BeliefWithinLease'
    BY <1>4 DEF BeliefWithinLease
  <1>6. LiveClaimExclusive'
    <2> SUFFICES ASSUME NEW u \in Workers, NEW v \in Workers, NEW f \in Events, u # v,
                        Holds(u, f)', worker'[u].ttl > 0,
                        Holds(v, f)', worker'[v].ttl > 0
                 PROVE  worker'[u].late \/ worker'[v].late
      BY DEF LiveClaimExclusive
    <2>1. CASE f = e
      BY <2>1, <1>4
    <2>2. CASE f # e
      <3>1. worker'[u] = worker[u] /\ worker'[v] = worker[v]
        BY <2>2 DEF Holds, QueueTypeOK
      <3> QED BY <3>1 DEF LiveClaimExclusive, Holds
    <2> QED BY <2>1, <2>2
  <1> QED BY <1>1, <1>2, <1>3, <1>5, <1>6

(* A poll that is rolled back gives its lock up and changes no row.        *)
LEMMA PollAbortInv ==
  ASSUME QueueInv, NEW w \in Workers, NEW e \in Events, PollAbort(w, e)
  PROVE  QueueInv'
  <1> USE DEF QueueInv, PollAbort
  <1>1. QueueTypeOK'
    BY AgentQueueAssumption, TtlFacts DEF QueueTypeOK, Poll, NoPoll, Fault
  <1>2. UnclaimedHasNoLease'
    BY DEF UnclaimedHasNoLease
  <1>3. ClaimsAreExclusive'
    BY DEF ClaimsAreExclusive, Claimable, QueueTypeOK, Poll, NoPoll
  <1>4. BeliefWithinLease' /\ LiveClaimExclusive'
    BY DEF BeliefWithinLease, LiveClaimExclusive, Holds
  <1> QED BY <1>1, <1>2, <1>3, <1>4

(* An ack, heard of or not: only the sender's own belief can grow, and it  *)
(* becomes late if it had run out.                                         *)
LEMMA ExtendLeaseInv ==
  ASSUME QueueInv, NEW w \in Workers, NEW e \in Events, Holds(w, e), ExtendLease(e),
         \/ worker' = [worker EXCEPT ![w].ttl = FreshLease,
                                     ![w].late = @ \/ worker[w].ttl = 0]
         \/ UNCHANGED worker,
         faults' \in 0..MaxFaults
  PROVE  QueueInv'
  <1> USE DEF QueueInv, ExtendLease
  <1>1. QueueTypeOK'
    <2>1. queue' \in [Events -> QueueRow] /\ arrivals' \in Nat /\ poll' \in [Workers -> Poll]
      BY TtlFacts DEF QueueTypeOK, QueueRow
    <2>2. worker' \in [Workers -> Belief]
      <3> DEFINE b == [worker[w] EXCEPT !.ttl = FreshLease,
                                        !.late = @ \/ worker[w].ttl = 0]
      <3>1. worker \in [Workers -> Belief]
        BY DEF QueueTypeOK
      <3>2. (worker[w].late \/ worker[w].ttl = 0) \in BOOLEAN
        OBVIOUS
      <3>3. b \in Belief
        BY <3>1, <3>2, TtlFacts DEF Belief
      <3>4. worker' = [worker EXCEPT ![w] = b] \/ worker' = worker
        BY <3>1
      <3> QED BY <3>1, <3>3, <3>4
    <2> QED BY <2>1, <2>2 DEF QueueTypeOK
  <1>2. UnclaimedHasNoLease'
    BY DEF UnclaimedHasNoLease, QueueTypeOK, QueueRow
  <1>3. ClaimsAreExclusive'
    BY DEF ClaimsAreExclusive, Claimable, Locked, QueueTypeOK, QueueRow, Poll
  <1>4. \A v \in Workers : worker'[v].event = worker[v].event
    BY DEF QueueTypeOK, Belief
  <1>5. \A v \in Workers : worker'[v].ttl \in Ttl
    BY <1>1 DEF QueueTypeOK, Belief
  <1>6. BeliefWithinLease'
    <2> SUFFICES ASSUME NEW v \in Workers, NEW f \in Events, Holds(v, f)'
                 PROVE  worker'[v].ttl <= queue'[f].ttl
      BY DEF BeliefWithinLease
    <2>1. CASE f = e
      <3>1. queue'[e].ttl = FreshLease
        BY DEF QueueTypeOK, QueueRow
      <3> QED BY <2>1, <3>1, <1>5, TtlFacts
    <2>2. CASE f # e
      <3>1. v # w /\ worker'[v] = worker[v]
        BY <1>4, <2>2 DEF Holds, QueueTypeOK, Belief
      <3> QED BY <3>1, <2>2 DEF Holds, BeliefWithinLease, QueueTypeOK
    <2> QED BY <2>1, <2>2
  <1>7. LiveClaimExclusive'
    <2>1. \A v \in Workers : v # w => worker'[v] = worker[v]
      BY DEF QueueTypeOK, Belief
    <2>2. worker[w].late \/ worker[w].ttl = 0 => worker'[w].late \/ UNCHANGED worker
      BY DEF QueueTypeOK, Belief
    <2>3. worker[w].ttl = 0 \/ worker[w].ttl > 0
      BY TtlFacts DEF QueueTypeOK, Belief
    <2> SUFFICES ASSUME ~UNCHANGED worker,
                        NEW u \in Workers, NEW v \in Workers, NEW f \in Events, u # v,
                        Holds(u, f)', worker'[u].ttl > 0,
                        Holds(v, f)', worker'[v].ttl > 0
                 PROVE  worker'[u].late \/ worker'[v].late
      BY DEF LiveClaimExclusive, Holds
    <2>4. Holds(u, f) /\ Holds(v, f)
      BY <1>4 DEF Holds
    <2>5. CASE u = w
      BY <2>1, <2>2, <2>3, <2>4, <2>5 DEF LiveClaimExclusive
    <2>6. CASE v = w
      BY <2>1, <2>2, <2>3, <2>4, <2>6 DEF LiveClaimExclusive
    <2>7. CASE u # w /\ v # w
      BY <2>1, <2>4, <2>7 DEF LiveClaimExclusive
    <2> QED BY <2>5, <2>6, <2>7
  <1> QED BY <1>1, <1>2, <1>3, <1>6, <1>7

(* A result, a refusal, a crash: nobody's belief grows, no ttl changes, and*)
(* the status that changes, if any, is of a row no poll has locked.        *)
LEMMA GiveUpInv ==
  ASSUME QueueInv, NEW w \in Workers,
         \/ UNCHANGED queue
         \/ \E e \in Events, o \in {"done", "failed"} :
              ~Locked(e) /\ queue' = [queue EXCEPT ![e].status = o],
         worker' = [worker EXCEPT ![w] = Nothing] \/ UNCHANGED worker,
         UNCHANGED <<arrivals, poll>>,
         faults' \in 0..MaxFaults
  PROVE  QueueInv'
  <1> USE DEF QueueInv
  <1>1. QueueTypeOK'
    <2>1. queue' \in [Events -> QueueRow]
      BY DEF QueueTypeOK, QueueRow
    <2>2. Nothing \in Belief
      BY TtlFacts DEF Nothing, Belief
    <2>3. worker' \in [Workers -> Belief]
      BY <2>2 DEF QueueTypeOK
    <2> QED BY <2>1, <2>3 DEF QueueTypeOK
  <1>2. UnclaimedHasNoLease'
    BY DEF UnclaimedHasNoLease, QueueTypeOK, QueueRow
  <1>3. ClaimsAreExclusive'
    BY DEF ClaimsAreExclusive, Claimable, Locked, QueueTypeOK, QueueRow, Poll
  <1>4. \A e \in Events : queue'[e].ttl = queue[e].ttl
    BY DEF QueueTypeOK, QueueRow
  <1>5. \A v \in Workers, e \in Events :
          Holds(v, e)' => Holds(v, e) /\ worker'[v] = worker[v]
    BY DEF Holds, Nothing, QueueTypeOK
  <1>6. BeliefWithinLease'
    BY <1>4, <1>5 DEF BeliefWithinLease
  <1>7. LiveClaimExclusive'
    BY <1>5 DEF LiveClaimExclusive
  <1> QED BY <1>1, <1>2, <1>3, <1>6, <1>7

(* Time passes for the rows and for the workers alike: what a worker was   *)
(* promised still runs out no later than the row's lease.                  *)
LEMMA TickInv ==
  ASSUME QueueInv, Tick
  PROVE  QueueInv'
  <1> USE DEF QueueInv, Tick
  <1>1. \A e \in Events : /\ queue[e].ttl \in Ttl
                          /\ queue'[e].ttl = Elapse(queue[e].ttl)
                          /\ queue'[e].status = queue[e].status
    BY DEF QueueTypeOK, QueueRow
  <1>2. \A w \in Workers : /\ worker[w].ttl \in Ttl
                           /\ worker'[w].ttl = Elapse(worker[w].ttl)
                           /\ worker'[w].event = worker[w].event
                           /\ poll'[w].event = poll[w].event
    BY DEF QueueTypeOK, Belief, Poll
  <1>3. \A w \in Workers : worker'[w].late = worker[w].late
    BY DEF QueueTypeOK, Belief
  <1>4. QueueTypeOK'
    BY TtlFacts DEF QueueTypeOK, QueueRow, Belief, Poll
  <1>5. UnclaimedHasNoLease'
    BY <1>1, TtlFacts DEF UnclaimedHasNoLease
  <1>6. ClaimsAreExclusive'
    <2>1. \A w \in Workers : poll'[w].event # NoEvent =>
             /\ poll[w].event \in Events
             /\ poll'[w].event = poll[w].event
      BY <1>2 DEF QueueTypeOK, Poll
    <2>2. ASSUME NEW w \in Workers, poll'[w].event # NoEvent
          PROVE  \/ queue'[poll'[w].event].status = "pending"
                 \/ /\ queue'[poll'[w].event].status = "claimed"
                    /\ queue'[poll'[w].event].ttl = 0
      <3>1. PICK e \in Events : e = poll[w].event /\ e = poll'[w].event
        BY <2>1, <2>2
      <3>2. Claimable(e)
        BY <2>2, <3>1 DEF ClaimsAreExclusive
      <3> QED BY <1>1, <3>1, <3>2, TtlFacts DEF Claimable
    <2>3. \A v, w \in Workers :
             (poll'[v].event = poll'[w].event /\ poll'[v].event # NoEvent) => v = w
      BY <1>2 DEF ClaimsAreExclusive
    <2> QED BY <2>2, <2>3 DEF ClaimsAreExclusive, Claimable
  <1>7. BeliefWithinLease'
    BY <1>1, <1>2, TtlFacts DEF BeliefWithinLease, Holds
  <1>8. LiveClaimExclusive'
    <2>1. \A w \in Workers, e \in Events :
             Holds(w, e)' /\ worker'[w].ttl > 0 => Holds(w, e) /\ worker[w].ttl > 0
      BY <1>2, TtlFacts DEF Holds
    <2> QED BY <1>3, <2>1 DEF LiveClaimExclusive
  <1> QED BY <1>4, <1>5, <1>6, <1>7, <1>8

-----------------------------------------------------------------------------
(* Every step preserves QueueInv.                                          *)
LEMMA NextInv == QueueInv /\ [QueueNext]_queueVars => QueueInv'
  <1> SUFFICES ASSUME QueueInv, [QueueNext]_queueVars PROVE QueueInv'
    OBVIOUS
  <1>f. \A n : n = faults => n \in 0..MaxFaults /\ (n < MaxFaults => n + 1 \in 0..MaxFaults)
    BY AgentQueueAssumption DEF QueueInv, QueueTypeOK
  <1>1. ASSUME NEW e \in Events, Enqueue(e) PROVE QueueInv'
    BY <1>1, EnqueueInv
  <1>2. ASSUME NEW w \in Workers, NEW e \in Events, PollStep(w, e) PROVE QueueInv'
    <2>1. CASE PollSelect(w, e)
      BY <2>1, PollSelectInv
    <2>2. CASE PollCommit(w, e)
      BY <2>2, <1>f, ClaimInv DEF PollCommit, NoFault
    <2>3. CASE PollReplyLost(w, e)
      BY <2>3, <1>f, ClaimInv DEF PollReplyLost, Fault
    <2>4. CASE PollAbort(w, e)
      BY <2>4, PollAbortInv
    <2> QED BY <1>2, <2>1, <2>2, <2>3, <2>4 DEF PollStep
  <1>3. ASSUME NEW w \in Workers, NEW e \in Events, WorkerStep(w, e) PROVE QueueInv'
    <2>1. CASE Ack(w, e)
      BY <2>1, <1>f, ExtendLeaseInv DEF Ack, NoFault
    <2>2. CASE AckReplyLost(w, e)
      BY <2>2, <1>f, ExtendLeaseInv DEF AckReplyLost, Fault
    <2>3. ASSUME NEW o \in {"done", "failed"}, Result(w, e, o) PROVE QueueInv'
      BY <2>3, <1>f, GiveUpInv DEF Result, Complete, NoFault
    <2>4. ASSUME NEW o \in {"done", "failed"}, ResultReplyLost(w, e, o) PROVE QueueInv'
      BY <2>4, <1>f, GiveUpInv DEF ResultReplyLost, Complete, Fault
    <2>5. CASE Refused(w, e)
      BY <2>5, <1>f, GiveUpInv DEF Refused
    <2> QED BY <1>3, <2>1, <2>2, <2>3, <2>4, <2>5 DEF WorkerStep
  <1>4. ASSUME NEW w \in Workers, WorkerCrash(w) PROVE QueueInv'
    BY <1>4, <1>f, GiveUpInv DEF WorkerCrash, Fault
  <1>5. CASE Tick
    BY <1>5, TickInv
  <1>6. CASE UNCHANGED queueVars
    BY <1>6 DEF queueVars, QueueInv, QueueTypeOK, UnclaimedHasNoLease,
                ClaimsAreExclusive, Claimable, BeliefWithinLease, LiveClaimExclusive, Holds
  <1> QED BY <1>1, <1>2, <1>3, <1>4, <1>5, <1>6 DEF QueueNext

(* The inductive invariant of the queue: locks, leases and what the        *)
(* workers believe agree in every reachable state.                         *)
THEOREM QueueInvariant == QueueSpec => []QueueInv
  <1>1. QueueInit => QueueInv
    BY InitInv
  <1>2. QueueInv /\ [QueueNext]_queueVars => QueueInv'
    BY NextInv
  <1> QED BY <1>1, <1>2, PTL DEF QueueSpec

(* The queue, its polls and its workers are always well-formed.            *)
THEOREM QueueTypeCorrect == QueueSpec => []QueueTypeOK
  <1>1. QueueInv => QueueTypeOK
    BY DEF QueueInv
  <1> QED BY <1>1, QueueInvariant, PTL

(* No two concurrent polls ever claim one row, and none claims a row that  *)
(* has meanwhile been acked or settled (ClaimNextEventUseCase).            *)
THEOREM PollsClaimExclusively == QueueSpec => []ClaimsAreExclusive
  <1>1. QueueInv => ClaimsAreExclusive
    BY DEF QueueInv
  <1> QED BY <1>1, QueueInvariant, PTL

(* A row stays invisible to polls for as long as any worker was promised.  *)
THEOREM LeasesAreKept == QueueSpec => []BeliefWithinLease
  <1>1. QueueInv => BeliefWithinLease
    BY DEF QueueInv
  <1> QED BY <1>1, QueueInvariant, PTL

(* A live claim is doubled only by a late ack (ExtendLeaseUseCase, which   *)
(* does not look at the lease it extends).                                 *)
THEOREM OnlyLateAcksCollide == QueueSpec => []LiveClaimExclusive
  <1>1. QueueInv => LiveClaimExclusive
    BY DEF QueueInv
  <1> QED BY <1>1, QueueInvariant, PTL

-----------------------------------------------------------------------------
(* What each step does to the status and attempts of a row: the cases of   *)
(* the refinement and of OutcomeIsFinal.                                   *)
HandedOutIffClaimed ==
  \A e \in Events :
    queue[e].status \in {"claimed", "done", "failed"} <=> queue[e].attempts > 0

(* A row is claimed only by a claim, which counts an attempt.              *)
LEMMA HandedOutInv ==
  ASSUME QueueInv, HandedOutIffClaimed, [QueueNext]_queueVars
  PROVE  HandedOutIffClaimed'
  <1> USE DEF HandedOutIffClaimed
  <1>1. queue \in [Events -> QueueRow]
    BY DEF QueueInv, QueueTypeOK
  <1>2. CASE UNCHANGED queue
    BY <1>2
  <1>3. ASSUME NEW e \in Events, Enqueue(e) PROVE HandedOutIffClaimed'
    BY <1>1, <1>3 DEF Enqueue
  <1>4. ASSUME NEW w \in Workers, NEW e \in Events, Claim(w, e) PROVE HandedOutIffClaimed'
    <2>1. OneMore(queue[e].attempts) > 0
      BY <1>1, AgentQueueAssumption DEF OneMore, QueueRow
    <2> QED BY <1>1, <1>4, <2>1 DEF Claim, QueueRow
  <1>5. ASSUME NEW e \in Events, ExtendLease(e) PROVE HandedOutIffClaimed'
    BY <1>1, <1>5 DEF ExtendLease, QueueRow
  <1>6. ASSUME NEW e \in Events, NEW o \in {"done", "failed"}, Complete(e, o)
        PROVE  HandedOutIffClaimed'
    BY <1>1, <1>6 DEF Complete, QueueRow
  <1>7. CASE Tick
    BY <1>1, <1>7 DEF Tick, QueueRow
  <1> QED BY <1>2, <1>3, <1>4, <1>5, <1>6, <1>7
          DEF QueueNext, PollStep, PollSelect, PollCommit, PollReplyLost, PollAbort,
              WorkerStep, Ack, AckReplyLost, Result, ResultReplyLost, Refused,
              WorkerCrash, queueVars

(* Every step of the queue is one of these, seen as status and attempts.   *)
LEMMA StepShapes ==
  ASSUME QueueInv, HandedOutIffClaimed, [QueueNext]_queueVars
  PROVE  \/ \A f \in Events : /\ queue'[f].status = queue[f].status
                              /\ queue'[f].attempts = queue[f].attempts
         \/ \E e \in Events :
              /\ \A f \in Events \ {e} : queue'[f] = queue[f]
              /\ \/ /\ queue[e].status = "absent"
                    /\ queue'[e].status = "pending"
                    /\ queue'[e].attempts = 0 /\ ~(queue[e].attempts > 0)
                 \/ /\ queue[e].status \in {"pending", "claimed"}
                    /\ queue'[e].status = "claimed" /\ queue'[e].attempts > 0
                 \/ /\ queue[e].status = "claimed" /\ queue[e].attempts > 0
                    /\ queue'[e].status \in {"done", "failed"}
                    /\ queue'[e].attempts = queue[e].attempts
  <1> DEFINE Shape ==
        \/ \A f \in Events : /\ queue'[f].status = queue[f].status
                             /\ queue'[f].attempts = queue[f].attempts
        \/ \E e \in Events :
             /\ \A f \in Events \ {e} : queue'[f] = queue[f]
             /\ \/ /\ queue[e].status = "absent"
                   /\ queue'[e].status = "pending"
                   /\ queue'[e].attempts = 0 /\ ~(queue[e].attempts > 0)
                \/ /\ queue[e].status \in {"pending", "claimed"}
                   /\ queue'[e].status = "claimed" /\ queue'[e].attempts > 0
                \/ /\ queue[e].status = "claimed" /\ queue[e].attempts > 0
                   /\ queue'[e].status \in {"done", "failed"}
                   /\ queue'[e].attempts = queue[e].attempts
  <1>1. queue \in [Events -> QueueRow]
    BY DEF QueueInv, QueueTypeOK
  <1>2. CASE UNCHANGED queue
    BY <1>2
  <1>3. ASSUME NEW e \in Events, Enqueue(e) PROVE Shape
    <2>1. queue[e].status = "absent" /\ ~(queue[e].attempts > 0)
      BY <1>3 DEF Enqueue, HandedOutIffClaimed
    <2>2. /\ \A f \in Events \ {e} : queue'[f] = queue[f]
          /\ queue'[e].status = "pending" /\ queue'[e].attempts = 0
      BY <1>1, <1>3 DEF Enqueue
    <2> QED BY <2>1, <2>2
  <1>4. ASSUME NEW w \in Workers, NEW e \in Events, Claim(w, e) PROVE Shape
    <2>1. queue[e].status \in {"pending", "claimed"}
      BY <1>4, LockedIsExpired DEF Claim, Locked, Claimable
    <2>2. OneMore(queue[e].attempts) > 0
      BY <1>1, AgentQueueAssumption DEF OneMore, QueueRow
    <2>3. /\ \A f \in Events \ {e} : queue'[f] = queue[f]
          /\ queue'[e].status = "claimed" /\ queue'[e].attempts > 0
      BY <1>1, <1>4, <2>2 DEF Claim, QueueRow
    <2> QED BY <2>1, <2>3
  <1>5. ASSUME NEW e \in Events, ExtendLease(e) PROVE Shape
    BY <1>1, <1>5 DEF ExtendLease, QueueRow
  <1>6. ASSUME NEW e \in Events, NEW o \in {"done", "failed"}, Complete(e, o) PROVE Shape
    <2>1. queue[e].status = "claimed" /\ queue[e].attempts > 0
      BY <1>6 DEF Complete, HandedOutIffClaimed
    <2>2. /\ \A f \in Events \ {e} : queue'[f] = queue[f]
          /\ queue'[e].status = o /\ queue'[e].attempts = queue[e].attempts
      BY <1>1, <1>6 DEF Complete, QueueRow
    <2> QED BY <2>1, <2>2
  <1>7. CASE Tick
    BY <1>1, <1>7 DEF Tick, QueueRow
  <1> QED BY <1>2, <1>3, <1>4, <1>5, <1>6, <1>7
          DEF QueueNext, PollStep, PollSelect, PollCommit, PollReplyLost, PollAbort,
              WorkerStep, Ack, AckReplyLost, Result, ResultReplyLost, Refused,
              WorkerCrash, queueVars

(* A row has been counted as handed out exactly if it is, or was, claimed  *)
(* (attempts is incremented by the claim and by nothing else).             *)
THEOREM HandedOutInvariant == QueueSpec => [](QueueInv /\ HandedOutIffClaimed)
  <1>1. QueueInit => HandedOutIffClaimed
    <2>1. ~(0 > 0)
      OBVIOUS
    <2>2. ASSUME QueueInit, NEW e \in Events
          PROVE  queue[e].status = "absent" /\ queue[e].attempts = 0
      <3>1. queue[e] = [status |-> "absent", ttl |-> 0, attempts |-> 0, createdAt |-> 0]
        BY <2>2 DEF QueueInit
      <3> QED BY <3>1
    <2> QED BY <2>1, <2>2 DEF HandedOutIffClaimed
  <1>2. QueueInv /\ HandedOutIffClaimed /\ [QueueNext]_queueVars => HandedOutIffClaimed'
    BY HandedOutInv
  <1> QED BY <1>1, <1>2, QueueInvariant, PTL DEF QueueSpec

(* The first recorded outcome of an event is its last (CompleteEventUseCase*)
(* and every later poll, ack or result).                                   *)
THEOREM FirstResultWins == QueueSpec => OutcomeIsFinal
  <1> DEFINE Kept == \A e \in Events : Terminal(e) => queue'[e].status = queue[e].status
  <1>1. QueueInv /\ HandedOutIffClaimed /\ [QueueNext]_queueVars => [Kept]_queueVars
    BY StepShapes DEF Terminal
  <1>2. OutcomeIsFinal <=> [][Kept]_queueVars
    BY DEF OutcomeIsFinal
  <1> QED BY <1>1, <1>2, HandedOutInvariant, PTL DEF QueueSpec

-----------------------------------------------------------------------------
(* The refinement: seen through the mapping of AgentQueue, an insert is    *)
(* Enter, a claim is HandOut, a result is Settle; all else is a stutter.   *)
LEMMA QueueStepImplements ==
  ASSUME QueueInv, HandedOutIffClaimed, [QueueNext]_queueVars
  PROVE  [Promise!Next]_<<{e \in Events : queue[e].status # "absent"},
                          {e \in Events : queue[e].attempts > 0},
                          [e \in Events |-> IF Terminal(e) THEN queue[e].status
                                            ELSE "none"]>>
  <1> DEFINE In == {f \in Events : queue[f].status # "absent"}
             Out == {f \in Events : queue[f].attempts > 0}
             Res == [f \in Events |-> IF Terminal(f) THEN queue[f].status ELSE "none"]
  <1>1. CASE \A f \in Events : /\ queue'[f].status = queue[f].status
                               /\ queue'[f].attempts = queue[f].attempts
    BY <1>1 DEF Terminal
  <1>2. ASSUME NEW e \in Events, \A f \in Events \ {e} : queue'[f] = queue[f]
        PROVE  \A f \in Events \ {e} : /\ queue'[f].status = queue[f].status
                                        /\ queue'[f].attempts = queue[f].attempts
                                        /\ Terminal(f)' = Terminal(f)
    BY <1>2 DEF Terminal
  <1>3. ASSUME NEW e \in Events, \A f \in Events \ {e} : queue'[f] = queue[f],
               queue[e].status = "absent", queue'[e].status = "pending",
               queue'[e].attempts = 0, ~(queue[e].attempts > 0)
        PROVE  Promise!Enter(e)
    <2>1. In' = In \cup {e} /\ e \notin In /\ Out' = Out
      BY <1>2, <1>3
    <2>2. Res' = Res
      BY <1>2, <1>3 DEF Terminal
    <2> QED BY <2>1, <2>2 DEF Promise!Enter
  <1>4. ASSUME NEW e \in Events, \A f \in Events \ {e} : queue'[f] = queue[f],
               queue[e].status \in {"pending", "claimed"},
               queue'[e].status = "claimed", queue'[e].attempts > 0
        PROVE  Promise!HandOut(e)
    <2>1. In' = In /\ e \in In /\ Out' = Out \cup {e}
      BY <1>2, <1>4
    <2>2. Res' = Res /\ Res[e] = "none"
      BY <1>2, <1>4 DEF Terminal
    <2> QED BY <2>1, <2>2 DEF Promise!HandOut
  <1>5. ASSUME NEW e \in Events, \A f \in Events \ {e} : queue'[f] = queue[f],
               queue[e].status = "claimed", queue[e].attempts > 0,
               queue'[e].status \in {"done", "failed"},
               queue'[e].attempts = queue[e].attempts
        PROVE  \E o \in Promise!Outcomes : Promise!Settle(e, o)
    <2>1. In' = In /\ Out' = Out /\ e \in Out
      BY <1>2, <1>5
    <2>2. Res[e] = "none" /\ Res' = [Res EXCEPT ![e] = queue'[e].status]
      BY <1>2, <1>5 DEF Terminal
    <2> QED BY <1>5, <2>1, <2>2 DEF Promise!Settle, Promise!Outcomes
  <1> QED BY StepShapes, <1>1, <1>3, <1>4, <1>5 DEF Promise!Next

(* The agent queue implements WorkQueue: with leases, row locks, redelivery*)
(* and lost replies, an event is still entered once, handed out before it  *)
(* is settled, and settled at most once.                                   *)
THEOREM QueueImplementsWorkQueue == QueueSpec => ImplementsWorkQueue
  <1>1. QueueInit => Promise!Init
    BY DEF QueueInit, Promise!Init, Terminal
  <1>2. QueueInv /\ HandedOutIffClaimed /\ [QueueNext]_queueVars =>
          [Promise!Next]_<<{e \in Events : queue[e].status # "absent"},
                           {e \in Events : queue[e].attempts > 0},
                           [e \in Events |-> IF Terminal(e) THEN queue[e].status
                                             ELSE "none"]>>
    BY QueueStepImplements
  <1> QED BY <1>1, <1>2, HandedOutInvariant, PTL
          DEF QueueSpec, ImplementsWorkQueue, Promise!Spec

-----------------------------------------------------------------------------
(* Mockups                                                                 *)

WasHandedOut(e) == queue[e].attempts > 0 /\ queue[e].status \in {"claimed", "done", "failed"}

MockupInv ==
  /\ QueueInv
  /\ HandedOutIffClaimed
  /\ MockupTypeOK
  /\ MockupHasClaim

(* A step of the queue leaves an event that was handed out handed out.     *)
LEMMA HandedOutStays ==
  ASSUME QueueInv, HandedOutIffClaimed, [QueueNext]_queueVars,
         NEW e \in Events, WasHandedOut(e)
  PROVE  WasHandedOut(e)'
  <1>1. CASE \A f \in Events : /\ queue'[f].status = queue[f].status
                               /\ queue'[f].attempts = queue[f].attempts
    BY <1>1 DEF WasHandedOut
  <1>2. ASSUME NEW d \in Events, \A f \in Events \ {d} : queue'[f] = queue[f],
               d = e => queue'[d].attempts > 0 /\ queue'[d].status \in {"claimed", "done", "failed"}
        PROVE  WasHandedOut(e)'
    BY <1>2 DEF WasHandedOut
  <1> QED BY <1>1, <1>2, StepShapes DEF WasHandedOut

(* The empty queue, without mockups or reports, satisfies the invariant.   *)
LEMMA MockupInitInv == MockupInit => MockupInv
  <1> SUFFICES ASSUME MockupInit PROVE MockupInv
    OBVIOUS
  <1>1. QueueInv
    BY InitInv DEF MockupInit
  <1>2. HandedOutIffClaimed
    <2>1. ~(0 > 0)
      OBVIOUS
    <2>2. ASSUME NEW e \in Events
          PROVE  queue[e].status = "absent" /\ queue[e].attempts = 0
      <3>1. queue[e] = [status |-> "absent", ttl |-> 0, attempts |-> 0, createdAt |-> 0]
        BY DEF MockupInit, QueueInit
      <3> QED BY <3>1
    <2> QED BY <2>1, <2>2 DEF HandedOutIffClaimed
  <1>3. MockupTypeOK
    BY <1>1, MockupAssumption DEF QueueInv, MockupInit, MockupTypeOK
  <1>4. MockupHasClaim
    BY AgentQueueAssumption DEF MockupInit, MockupHasClaim
  <1> QED BY <1>1, <1>2, <1>3, <1>4 DEF MockupInv

(* The three steps of a report, between any two steps of the queue.        *)
LEMMA MockupNextInv == MockupInv /\ [MockupNext]_reportingVars => MockupInv'
  <1> SUFFICES ASSUME MockupInv, [MockupNext]_reportingVars PROVE MockupInv'
    OBVIOUS
  <1>0. QueueInv /\ HandedOutIffClaimed /\ MockupTypeOK /\ MockupHasClaim
    BY DEF MockupInv
  <1>1. [QueueNext]_queueVars
    BY DEF MockupNext, DeriveOwnership, RecordMockup, RecordFails, reportingVars
  <1>2. QueueInv' /\ HandedOutIffClaimed'
    BY <1>0, <1>1, NextInv, HandedOutInv
  <1>3. QueueTypeOK'
    BY <1>2 DEF QueueInv
  <1>4. \A e \in Events : WasHandedOut(e) => WasHandedOut(e)'
    BY <1>0, <1>1, HandedOutStays
  <1>5. CASE UNCHANGED mockupVars
    <2>1. MockupTypeOK'
      BY <1>0, <1>3, <1>5 DEF MockupTypeOK, mockupVars
    <2>2. MockupHasClaim'
      BY <1>0, <1>4, <1>5 DEF MockupHasClaim, WasHandedOut, mockupVars
    <2> QED BY <1>2, <2>1, <2>2 DEF MockupInv
  <1>6. ASSUME NEW w \in Workers, NEW e \in Events, DeriveOwnership(w, e)
        PROVE  MockupInv'
    <2>1. MockupTypeOK'
      BY <1>0, <1>3, <1>6 DEF MockupTypeOK, DeriveOwnership
    <2>2. WasHandedOut(e)
      BY <1>0, <1>6 DEF DeriveOwnership, IsClaimed, HandedOutIffClaimed, WasHandedOut
    <2>3. /\ mockups' = mockups
          /\ \A v \in Workers : report'[v] = report[v] \/ report'[v] = e
      BY <1>0, <1>6 DEF DeriveOwnership, MockupTypeOK
    <2>4. MockupHasClaim'
      BY <1>0, <1>4, <2>2, <2>3 DEF MockupHasClaim, WasHandedOut
    <2> QED BY <1>2, <2>1, <2>4 DEF MockupInv
  <1>7. ASSUME NEW w \in Workers, NEW e \in Events, RecordMockup(w, e)
        PROVE  MockupInv'
    <2>1. /\ mockups' \in [Events -> 0..MockupCap]
          /\ \A f \in Events \ {e} : mockups'[f] = mockups[f]
      BY <1>0, <1>7, MockupAssumption DEF RecordMockup, MockupTypeOK
    <2>2. MockupTypeOK'
      BY <1>0, <1>3, <1>7, <2>1 DEF MockupTypeOK, RecordMockup
    <2>3. WasHandedOut(e)
      BY <1>0, <1>7 DEF RecordMockup, MockupHasClaim, WasHandedOut
    <2>4. \A v \in Workers : report'[v] = report[v] \/ report'[v] = NoEvent
      BY <1>0, <1>7 DEF RecordMockup, MockupTypeOK
    <2>5. MockupHasClaim'
      BY <1>0, <1>4, <2>1, <2>3, <2>4, AgentQueueAssumption DEF MockupHasClaim, WasHandedOut
    <2> QED BY <1>2, <2>2, <2>5 DEF MockupInv
  <1>8. ASSUME NEW w \in Workers, RecordFails(w) PROVE MockupInv'
    <2>1. MockupTypeOK'
      BY <1>0, <1>3, <1>8 DEF MockupTypeOK, RecordFails
    <2>2. /\ mockups' = mockups
          /\ \A v \in Workers : report'[v] = report[v] \/ report'[v] = NoEvent
      BY <1>0, <1>8 DEF RecordFails, MockupTypeOK
    <2>3. MockupHasClaim'
      BY <1>0, <1>4, <2>2, AgentQueueAssumption DEF MockupHasClaim, WasHandedOut
    <2> QED BY <1>2, <2>1, <2>3 DEF MockupInv
  <1> QED BY <1>5, <1>6, <1>7, <1>8 DEF MockupNext, reportingVars

(* Queue, mockups and reports are always well-formed, and a mockup (or a   *)
(* report on its way to being one) belongs to an event that was handed out,*)
(* whatever the queue does between derive and create                       *)
(* (RecordMockupUseCase).                                                  *)
THEOREM MockupsAreClaimed == MockupSpec => [](MockupTypeOK /\ MockupHasClaim)
  <1>1. MockupInit => MockupInv
    BY MockupInitInv
  <1>2. MockupInv /\ [MockupNext]_reportingVars => MockupInv'
    BY MockupNextInv
  <1>3. MockupInv => MockupTypeOK /\ MockupHasClaim
    BY DEF MockupInv
  <1> QED BY <1>1, <1>2, <1>3, PTL DEF MockupSpec
=============================================================================
