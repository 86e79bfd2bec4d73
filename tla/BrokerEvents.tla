---------------------------- MODULE BrokerEvents ----------------------------
(***************************************************************************)
(* From the broker's order and deal pushes to the rows of one connection   *)
(* and market, over one trading day (src/services/futu-shim and            *)
(* src/apps/server/src/optionsdesk).  The shim keeps the last pushes of    *)
(* its process in a ring buffer; the server polls it with a cursor it      *)
(* holds in memory, and asks the broker for the whole day (a gap fill)     *)
(* when pushes may have been lost.  A backfill or reconciliation of the    *)
(* minute heartbeat may fetch and write the same rows meanwhile.           *)
(* An event is the number of a push: deal e, and the order at version e.   *)
(* One tick of the clock is fifteen minutes.                               *)
(***************************************************************************)
EXTENDS Integers, Sequences, FiniteSetsExt

CONSTANTS
  Capacity,     \* FUTU_TRADE_EVENT_BUFFER_SIZE
  MaxAttempts,  \* RECONCILE_MAX_ATTEMPTS, shared by the gap fills
  MaxEvents,    \* bound: pushes of the day
  MaxEpochs,    \* bound: starts of the shim
  MaxFaults     \* bound: server crashes and failing calls together

ASSUME BrokerAssumption ==
  /\ Capacity \in Nat \ {0} /\ MaxAttempts \in Nat \ {0}
  /\ MaxEvents \in Nat /\ MaxEpochs \in Nat \ {0} /\ MaxFaults \in Nat

VARIABLES
  emitted,  \* what has happened at the broker: events 1..emitted
  shim,     \* up, epoch, seq of the last push, the retained events
  cursor,   \* where the server has read to; epoch 0: nowhere (null)
  beat,     \* the event heartbeat: between which of its awaits it is
  sync,     \* the other writer: a day it has fetched and not yet written
  fill,     \* today's gap-fill rows, as the tally sees them
  deals,    \* broker_deal: the events whose deal has a row
  order,    \* broker_order: the version of the order's row
  faults,
  lost      \* history: the pushes whose last trace a step has taken

vars == <<emitted, shim, cursor, beat, sync, fill, deals, order, faults, lost>>

NoCursor == [epoch |-> 0, last |-> 0]

Idle == [pc |-> "idle"]

\* running: a row in that status, age ticks old; failed rows; wait: the last
\* failure is less than a tick ago; open: no success since it.
NoFill == [running |-> FALSE, age |-> 0, failed |-> 0, wait |-> FALSE,
           open |-> FALSE]

Init ==
  /\ emitted = 0
  /\ shim = [up |-> TRUE, epoch |-> 1, last |-> 0, buf |-> <<>>]
  /\ cursor = NoCursor
  /\ beat = Idle /\ sync = Idle
  /\ fill = NoFill
  /\ deals = {} /\ order = 0
  /\ faults = 0
  /\ lost = {}

Fault == faults < MaxFaults /\ faults' = faults + 1

Day == 1..emitted

\* A call to the broker goes through the shim and may fail without it.
CallFails == IF shim.up THEN Fault ELSE UNCHANGED faults

\* A cursor or batch of a process that is no more.
Stale(epoch) == epoch # shim.epoch \/ ~shim.up

AfterSeq == IF cursor.epoch = shim.epoch THEN cursor.last ELSE 0

------------------------------------------------------------------------------
\* History: the pushes that nothing in the server or the shim leads to.

\* A push of the running process that the cursor has not passed.
Unread(e) == shim.up /\ e > emitted - shim.last + AfterSeq

\* The trace a process that has ended leaves in the server.
RestartShows ==
  \/ cursor # NoCursor /\ Stale(cursor.epoch)
  \/ beat.pc = "batch" /\ Stale(beat.batch.epoch)

\* A gap fill is owed, and one that is about to write has the push.  Once the
\* attempts are used up the day is left to the next reconciliation.
Owed(e) ==
  \/ beat.pc = "decide" /\ beat.gap
  \/ (fill.running \/ fill.open) /\ (beat.pc = "write" => e \in beat.day)
  \/ fill.failed >= MaxAttempts

Untraced ==
  {e \in Day : ~(e \in deals \/ Unread(e) \/ RestartShows \/ Owed(e))}

\* What the step leaves without a trace is lost, if the step is one of those
\* that may take the last one.
LosesIf(takesTrace) ==
  lost' = IF takesTrace THEN lost \cup Untraced' ELSE lost

------------------------------------------------------------------------------
\* The shim

\* Mutant: the deque has no maxlen.
RetainedAll(buf) == buf

\* append: a full deque drops its oldest row.
Retained(buf) ==
  IF Len(buf) <= Capacity THEN buf ELSE SubSeq(buf, 2, Len(buf))

\* While no process runs, a push leaves nothing but the restart's trace.
Emit ==
  /\ emitted < MaxEvents
  /\ emitted' = emitted + 1
  /\ shim' = IF shim.up
             THEN [shim EXCEPT !.last = @ + 1,
                               !.buf = Retained(Append(@, emitted + 1))]
             ELSE shim
  /\ UNCHANGED <<cursor, beat, sync, fill, deals, order, faults>>
  /\ LosesIf(~shim.up /\ ~RestartShows)

\* The process ends, and what was not read yet is gone with its buffer.
ShimDown ==
  /\ shim.up /\ shim.epoch < MaxEpochs
  /\ shim' = [shim EXCEPT !.up = FALSE, !.last = 0, !.buf = <<>>]
  /\ UNCHANGED <<emitted, cursor, beat, sync, fill, deals, order, faults>>
  /\ LosesIf(cursor = NoCursor /\ beat.pc # "batch")

\* A new process is a new epoch.
ShimUp ==
  /\ ~shim.up
  /\ shim' = [shim EXCEPT !.up = TRUE, !.epoch = @ + 1]
  /\ UNCHANGED <<emitted, cursor, beat, sync, fill, deals, order, faults,
                 lost>>

Oldest == shim.last - Len(shim.buf) + 1

\* GET /trade/events: a cursor of another epoch reads from the start.
Read(after) ==
  [epoch |-> shim.epoch,
   rows |-> {shim.buf[i] : i \in {j \in DOMAIN shim.buf :
                                    Oldest + j - 1 > after}},
   next |-> IF shim.last > after THEN shim.last ELSE after,
   first |-> IF after + 1 > Oldest THEN after + 1 ELSE Oldest,
   dropped |-> shim.buf # <<>> /\ after + 1 < Oldest]

------------------------------------------------------------------------------
\* The event heartbeat: poll, write and move the cursor, decide on a gap fill

Poll ==
  /\ beat.pc = "idle" /\ shim.up
  /\ beat' = [pc |-> "batch", batch |-> Read(AfterSeq)]
  /\ UNCHANGED <<emitted, shim, cursor, sync, fill, deals, order, faults,
                 lost>>

PollFails ==
  /\ beat.pc = "idle" /\ CallFails
  /\ beat' = [pc |-> "decide", gap |-> FALSE]
  /\ UNCHANGED <<emitted, shim, cursor, sync, fill, deals, order, lost>>

\* Mutant: a restart of the shim is taken for a first read.
GapUnlessNewEpoch(batch) ==
  \/ batch.dropped
  \/ /\ batch.epoch = cursor.epoch
     /\ batch.rows # {} /\ batch.first > cursor.last + 1

\* decideCursor
Gap(batch) ==
  \/ batch.dropped
  \/ cursor # NoCursor
     /\ \/ batch.epoch # cursor.epoch
        \/ batch.rows # {} /\ batch.first > cursor.last + 1

NextCursor(batch) ==
  [epoch |-> batch.epoch,
   last |-> IF batch.rows # {} THEN batch.next
            ELSE IF batch.epoch = cursor.epoch THEN cursor.last ELSE 0]

\* Mutant: the update has no condition on vendorUpdatedAt.
Incoming(v) == v

\* writeOrders: insert, then update where vendorUpdatedAt < incoming.
Newer(v) == IF v > order THEN v ELSE order

WriteRows(rows) ==
  /\ deals' = deals \cup rows
  /\ order' = IF rows = {} THEN order ELSE Newer(Max(rows))

Consume ==
  /\ beat.pc = "batch"
  /\ WriteRows(beat.batch.rows)
  /\ cursor' = NextCursor(beat.batch)
  /\ beat' = [pc |-> "decide", gap |-> Gap(beat.batch)]
  /\ UNCHANGED <<emitted, shim, sync, fill, faults, lost>>

\* The deals may be in before the orders fail; the cursor stays.
ConsumeFails ==
  /\ beat.pc = "batch" /\ Fault
  /\ deals' \in {deals, deals \cup beat.batch.rows}
  /\ beat' = [pc |-> "decide", gap |-> FALSE]
  /\ UNCHANGED <<emitted, shim, cursor, sync, fill, order>>
  /\ LosesIf(cursor = NoCursor /\ Stale(beat.batch.epoch))

\* Mutant: only a new gap starts a gap fill.
MayFillOnGap(gap) == fill.failed < MaxAttempts /\ gap /\ ~fill.wait

\* decideGapfill
MayFill(gap) ==
  fill.failed < MaxAttempts /\ (gap \/ fill.open) /\ ~fill.wait

\* The row is created running; one that is running already wins.
Created == [fill EXCEPT !.running = TRUE, !.age = 0]

StartFill ==
  /\ beat.pc = "decide"
  /\ MayFill(beat.gap) /\ ~fill.running
  /\ fill' = Created
  /\ beat' = [pc |-> "fetch"]
  /\ UNCHANGED <<emitted, shim, cursor, sync, deals, order, faults, lost>>

SkipFill ==
  /\ beat.pc = "decide"
  /\ ~MayFill(beat.gap) \/ fill.running
  /\ beat' = Idle
  /\ UNCHANGED <<emitted, shim, cursor, sync, fill, deals, order, faults,
                 lost>>

\* The query of the day's rows or the insert throws, or the call after it.
\* The cursor has moved already, so that a new gap without a row is lost.
DecideFails ==
  /\ beat.pc = "decide" /\ Fault
  /\ fill' \in {fill} \cup
               IF MayFill(beat.gap) /\ ~fill.running THEN {Created} ELSE {}
  /\ beat' = Idle
  /\ UNCHANGED <<emitted, shim, cursor, sync, deals, order>>
  /\ LosesIf(beat.gap)

FillFetch ==
  /\ beat.pc = "fetch" /\ shim.up
  /\ beat' = [pc |-> "write", day |-> Day]
  /\ UNCHANGED <<emitted, shim, cursor, sync, fill, deals, order, faults,
                 lost>>

\* finish: only a row that is still running takes its outcome.
Finished == IF fill.running
            THEN [fill EXCEPT !.running = FALSE, !.open = FALSE]
            ELSE fill

FailedOnce(f) ==
  [f EXCEPT !.running = FALSE, !.failed = @ + 1, !.wait = TRUE,
            !.open = TRUE]

FillWrite ==
  /\ beat.pc = "write"
  /\ WriteRows(beat.day)
  /\ fill' = Finished
  /\ beat' = Idle
  /\ UNCHANGED <<emitted, shim, cursor, sync, faults, lost>>

FillFails ==
  /\ \/ beat.pc = "fetch" /\ CallFails /\ UNCHANGED deals
     \/ /\ beat.pc = "write" /\ Fault
        /\ deals' \in {deals, deals \cup beat.day}
  /\ fill' = IF fill.running THEN FailedOnce(fill) ELSE fill
  /\ beat' = Idle
  /\ UNCHANGED <<emitted, shim, cursor, sync, order, lost>>

\* finish itself fails: the row stays running until it is reclaimed.
OutcomeUnsaved ==
  /\ Fault
  /\ \/ beat.pc = "fetch" /\ UNCHANGED <<deals, order>>
     \/ beat.pc = "write" /\ WriteRows(beat.day)
     \/ /\ beat.pc = "write"
        /\ deals' \in {deals, deals \cup beat.day} /\ UNCHANGED order
  /\ beat' = Idle
  /\ UNCHANGED <<emitted, shim, cursor, sync, fill, lost>>

------------------------------------------------------------------------------
\* The minute heartbeat: stuck rows, and the other writers of the same rows

Reclaim ==
  /\ fill.running /\ fill.age = 2
  /\ fill' = FailedOnce(fill)
  /\ UNCHANGED <<emitted, shim, cursor, beat, sync, deals, order, faults,
                 lost>>

SyncFetch ==
  /\ sync.pc = "idle" /\ shim.up
  /\ sync' = [pc |-> "write", day |-> Day]
  /\ UNCHANGED <<emitted, shim, cursor, beat, fill, deals, order, faults,
                 lost>>

SyncWrite ==
  /\ sync.pc = "write"
  /\ WriteRows(sync.day)
  /\ sync' = Idle
  /\ UNCHANGED <<emitted, shim, cursor, beat, fill, faults, lost>>

------------------------------------------------------------------------------
\* The server restarts: cursor and heartbeats are memory.
KnowsOfGap ==
  \/ RestartShows
  \/ beat.pc = "decide" /\ beat.gap

ServerCrash ==
  /\ Fault
  /\ cursor # NoCursor \/ beat # Idle \/ sync # Idle
  /\ cursor' = NoCursor
  /\ beat' = Idle /\ sync' = Idle
  /\ UNCHANGED <<emitted, shim, fill, deals, order>>
  /\ LosesIf(KnowsOfGap)

\* A shim that restarts is back within a tick.
Tick ==
  /\ shim.up
  /\ fill.wait \/ (fill.running /\ fill.age < 2)
  /\ fill' = [fill EXCEPT !.wait = FALSE,
                          !.age = IF fill.running /\ @ < 2 THEN @ + 1 ELSE @]
  /\ UNCHANGED <<emitted, shim, cursor, beat, sync, deals, order, faults,
                 lost>>

EventBeat ==
  \/ Poll \/ PollFails
  \/ Consume \/ ConsumeFails
  \/ StartFill \/ SkipFill \/ DecideFails
  \/ FillFetch \/ FillWrite \/ FillFails \/ OutcomeUnsaved

Next ==
  \/ Emit \/ ShimDown \/ ShimUp
  \/ EventBeat
  \/ Reclaim \/ SyncFetch \/ SyncWrite
  \/ ServerCrash \/ Tick

Spec == Init /\ [][Next]_vars

FairSpec ==
  /\ Spec
  /\ WF_vars(ShimUp) /\ WF_vars(EventBeat) /\ WF_vars(Reclaim)
  /\ SF_vars(Tick)

------------------------------------------------------------------------------
\* Properties

\* Every variable has its type.
BrokerTypeOK ==
  /\ emitted \in 0..MaxEvents
  /\ shim \in [up : BOOLEAN, epoch : 1..MaxEpochs, last : 0..MaxEvents,
               buf : UNION {[1..n -> 1..MaxEvents] : n \in 0..Capacity}]
  /\ cursor \in [epoch : 0..MaxEpochs, last : 0..MaxEvents]
  /\ beat.pc \in {"idle", "batch", "decide", "fetch", "write"}
  /\ sync.pc \in {"idle", "write"}
  /\ fill \in [running : BOOLEAN, age : 0..2, failed : 0..MaxAttempts,
               wait : BOOLEAN, open : BOOLEAN]
  /\ deals \subseteq Day /\ order \in 0..emitted
  /\ faults \in 0..MaxFaults /\ lost \subseteq Day

\* The event is retained, and the cursor has not passed it.
Ahead(e) ==
  \E i \in DOMAIN shim.buf :
    shim.buf[i] = e /\ Oldest + i - 1 > AfterSeq

\* What a later poll will take for a gap.
GapShows ==
  \/ RestartShows
  \/ shim.buf # <<>> /\ AfterSeq + 1 < Oldest

Arriving(e) ==
  \/ Ahead(e)
  \/ beat.pc = "batch" /\ (e \in beat.batch.rows \/ Gap(beat.batch))
  \/ GapShows \/ Owed(e)

\* A push is forgotten only by the steps that are known to take its last
\* trace: each other push is written, or still to be read, or its loss is
\* about to be noticed, or a gap fill is owed, across restarts of the shim,
\* failing batches and fills, outcomes that are not saved and stuck runs
\* (broker-event-cursor.rules.ts 79-107, broker-sync-slot.rules.ts 154-169).
\* The steps are: a push or a restart of the shim while the server has read
\* nothing; the failure of its first batch once that shim is gone; a restart
\* of the server that knows of a gap; a gap whose query or insert fails.
NothingForgotten ==
  \A e \in Day : e \in deals \/ Arriving(e) \/ e \in lost

\* Both restarts are noticed, as the comments say: whatever restarts, a push
\* is written or the loss is still known (broker-event-cursor.rules.ts 16-18,
\* broker-account.scheduler.ts 90-93).
RestartsAreNoticed == \A e \in Day : e \in deals \/ Arriving(e)

\* A gap that is noticed has its fill, as FR-009 demands: the heartbeat that
\* detected it leaves a row that runs, a failure to be retried, or a day whose
\* attempts are used up (broker-account.scheduler.ts 187-195).
NoticedGapIsFilled ==
  [][EventBeat /\ beat.pc = "decide" /\ beat.gap
       => fill'.running \/ fill'.open \/ fill'.failed = MaxAttempts]_vars

\* The order's row never goes back to an older version, though the writers
\* fetch and write in any order (sync-broker-account.usecase.ts 496-552).
OrderNeverGoesBack == [][order' >= order]_vars

\* Every push is written in the end, by its batch or by a gap fill, unless the
\* day's attempts are used up or one of the steps above took its last trace.
EveryEventArrives ==
  \A e \in 1..MaxEvents :
    e <= emitted ~> e \in deals \/ e \in lost \/ fill.failed = MaxAttempts

=============================================================================
