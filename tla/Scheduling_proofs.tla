-------------------------- MODULE Scheduling_proofs --------------------------
(***************************************************************************)
(* Proofs about how dimensions come to run: the ticks that claim them      *)
(* (SyncTicks), for any dimensions, periods, lanes and number of           *)
(* overlapping ticks, and the flow that a lane's claims become (SyncFlow), *)
(* for any dimensions, priorities and dependencies.                        *)
(*                                                                         *)
(* That claims do not overlap follows from what the schedule knows of the  *)
(* past (ScheduleAhead): nextFireAt lies after the clock of every claim of *)
(* its dimension, so that a row that still has the value a tick has read,  *)
(* and is due for it (RowsDue), lies between the last claim and the tick.  *)
(*                                                                         *)
(* That a flow keeps the dependencies follows from the order it is built   *)
(* from: each beginning of the order has all upstreams of what it has      *)
(* (OrderPrefix), a chain keeps the order (KeptOf), and jobs leave the     *)
(* queue one after another (InTurn).                                       *)
(***************************************************************************)
EXTENDS SyncTicks, SyncFlow, FiniteSetTheorems, WellFoundedInduction,
        SequenceTheorems, TLAPS

-----------------------------------------------------------------------------
(* The ticks                                                               *)

ScheduleAhead ==
  \A c \in claims :
    /\ c.fire <= c.now
    /\ next[c.dim] # Never
    /\ c.now < next[c.dim]

RowsDue ==
  \A t \in Ticks : tick[t].at = "claiming" =>
    \A row \in tick[t].rows : row[2] # Never /\ row[2] <= tick[t].now

RowsUnset ==
  \A t \in Ticks : tick[t].at = "initialising" =>
    \A row \in tick[t].rows : row[2] = Never

IdleIsEmpty == \A t \in Ticks : tick[t].at = "none" => tick[t] = NoTick

RowsWhere ==
  \A t \in Ticks :
    tick[t].rows # {} => tick[t].at \in {"initialising", "claiming"}

TicksType ==
  /\ now \in 0..MaxTime
  /\ next \in [Dims -> Nat \cup {Never}]
  /\ tick \in [Ticks -> TickRecord]
  /\ \A t \in Ticks : tick[t].now <= now
  /\ claims \subseteq Claims /\ queued \subseteq Claims /\ held \subseteq Claims
  /\ faults \in 0..MaxFaults /\ resets \in 0..MaxResets

TicksInv ==
  /\ TicksType
  /\ IdleIsEmpty
  /\ RowsWhere
  /\ RowsDue
  /\ RowsUnset
  /\ ScheduleAhead
  /\ ClaimsDoNotOverlap
  /\ NothingLostWithoutFault

-----------------------------------------------------------------------------
(* The next fire is a time, and later than the clock it is computed from.  *)
LEMMA NextIsLater ==
  ASSUME NEW d \in Dims, NEW n \in Nat
  PROVE  computeNext(d, n) \in Nat /\ computeNext(d, n) > n
  <1>1. Period[d] \in Nat \ {0}
    BY SyncTicksAssumption
  <1>2. n % Period[d] \in 0..(Period[d] - 1)
    BY <1>1
  <1> QED BY <1>1, <1>2 DEF computeNext

LEMMA ClaimTyping ==
  ASSUME NEW d \in Dims, NEW f \in Nat, NEW n \in Nat, NEW t \in Ticks
  PROVE  [dim |-> d, fire |-> f, now |-> n, tick |-> t] \in Claims
  BY DEF Claims

LEMMA InitInv == TicksInit => TicksInv
  BY SyncTicksAssumption
  DEF TicksInit, TicksInv, TicksType, TicksTypeOK, NoTick, TickRecord, Phases,
      IdleIsEmpty, RowsWhere, RowsDue, RowsUnset, ScheduleAhead, ClaimsDoNotOverlap,
      NothingLostWithoutFault

LEMMA TypeIsCorrect == TicksType => TicksTypeOK
  <1> SUFFICES ASSUME TicksType PROVE TicksTypeOK
    OBVIOUS
  <1>1. \A t \in Ticks : tick[t] \in TickRecord
    BY DEF TicksType
  <1>2. \A t \in Ticks : /\ tick[t].at \in Phases /\ tick[t].now \in Nat
                         /\ tick[t].rows \subseteq Dims \X (Nat \cup {Never})
                         /\ tick[t].won \subseteq Claims
    BY <1>1 DEF TickRecord
  <1> QED BY <1>2, SyncTicksAssumption DEF TicksType, TicksTypeOK

(* Replacing a tick by a well-typed one.                                   *)
LEMMA TickTyping ==
  ASSUME TicksType, NEW t \in Ticks, NEW v \in TickRecord, v.now <= now,
         tick' = [tick EXCEPT ![t] = v], UNCHANGED now
  PROVE  /\ tick' \in [Ticks -> TickRecord]
         /\ \A u \in Ticks : tick'[u].now <= now'
  BY DEF TicksType

LEMMA NoTickTyped == NoTick \in TickRecord /\ NoTick.now = 0
  BY DEF NoTick, TickRecord, Phases

LEMMA TypePreserved == TicksInv /\ [TicksNext]_tickVars => TicksType'
  <1> SUFFICES ASSUME TicksInv, [TicksNext]_tickVars PROVE TicksType'
    OBVIOUS
  <1>0. TicksType /\ now \in Nat
    BY SyncTicksAssumption DEF TicksInv, TicksType
  <1>a. \A t \in Ticks :
          /\ tick[t] \in TickRecord /\ tick[t].at \in Phases
          /\ tick[t].now \in Nat /\ tick[t].now <= now
          /\ tick[t].rows \subseteq Dims \X (Nat \cup {Never})
          /\ tick[t].won \subseteq Claims
    <2>1. \A t \in Ticks : tick[t] \in TickRecord /\ tick[t].now <= now
      BY <1>0 DEF TicksType
    <2> QED BY <2>1 DEF TickRecord
  <1>1. ASSUME NEW t \in Ticks, TickStart(t) PROVE TicksType'
    <2> DEFINE v == [NoTick EXCEPT !.at = "started", !.now = now]
    <2>0. v.now = now
      BY NoTickTyped DEF TickRecord
    <2>a. v \in TickRecord
      BY <1>0, NoTickTyped DEF TickRecord, Phases
    <2>1. v \in TickRecord /\ v.now <= now
      BY <1>0, <2>0, <2>a
    <2>2. tick' = [tick EXCEPT ![t] = v] /\ UNCHANGED now
      BY <1>1 DEF TickStart
    <2> HIDE DEF v
    <2> QED BY <1>0, <1>1, <2>1, <2>2, TickTyping DEF TicksType, TickStart
  <1>2. ASSUME NEW t \in Ticks, ReadUnmaterialized(t) PROVE TicksType'
    <2> DEFINE seen == {<<d, next[d]>> : d \in {d \in Dims : next[d] = Never}}
               v == [tick[t] EXCEPT !.at = "initialising", !.rows = seen]
    <2>1. seen \subseteq Dims \X (Nat \cup {Never})
      BY <1>0 DEF TicksType
    <2>2. v \in TickRecord /\ v.now <= now
      BY <1>a, <2>1 DEF TickRecord, Phases
    <2>3. tick' = [tick EXCEPT ![t] = v] /\ UNCHANGED now
      BY <1>0, <1>2 DEF ReadUnmaterialized, TicksType
    <2> HIDE DEF v
    <2> QED BY <1>0, <1>2, <2>2, <2>3, TickTyping
            DEF TicksType, ReadUnmaterialized
  <1>3. ASSUME NEW t \in Ticks, ReadDue(t) PROVE TicksType'
    <2> DEFINE seen == {<<d, next[d]>> : d \in {d \in Dims :
                                                  Due(d, tick[t].now)}}
               v == [tick[t] EXCEPT !.at = "claiming", !.rows = seen]
    <2>1. seen \subseteq Dims \X (Nat \cup {Never})
      BY <1>0 DEF TicksType
    <2>2. v \in TickRecord /\ v.now <= now
      BY <1>a, <2>1 DEF TickRecord, Phases
    <2>3. tick' = [tick EXCEPT ![t] = v] /\ UNCHANGED now
      BY <1>0, <1>3 DEF ReadDue, TicksType
    <2> HIDE DEF v
    <2> QED BY <1>0, <1>3, <2>2, <2>3, TickTyping DEF TicksType, ReadDue
  <1>4. ASSUME NEW t \in Ticks, NEW row \in tick[t].rows, UpdateRow(t, row)
        PROVE  TicksType'
    <2> DEFINE d == row[1]
               claim == [dim |-> d, fire |-> row[2], now |-> tick[t].now,
                         tick |-> t]
               v == [tick[t] EXCEPT !.rows = @ \ {row}]
               w == [tick[t] EXCEPT !.rows = @ \ {row},
                                    !.won = @ \cup {claim}]
    <2>1. d \in Dims /\ row[2] \in Nat \cup {Never} /\ tick[t].now \in Nat
      BY <1>a
    <2>2. computeNext(d, tick[t].now) \in Nat
      BY <2>1, NextIsLater
    <2>3. v \in TickRecord /\ v.now <= now
      BY <1>a DEF TickRecord
    <2>4. tick' = [tick EXCEPT ![t] = v] \/ tick' = [tick EXCEPT ![t] = w]
      BY <1>0, <1>4 DEF UpdateRow, RowSkipped, TicksType
    <2>5. faults' \in 0..MaxFaults
      BY <1>0, <1>4, SyncTicksAssumption DEF UpdateRow, Fault, TicksType
    <2>6. next' \in [Dims -> Nat \cup {Never}]
      BY <1>0, <1>4, <2>1, <2>2 DEF UpdateRow, TicksType
    <2>7. UNCHANGED <<now, queued, held, resets>>
      BY <1>4 DEF UpdateRow
    <2>8. CASE tick' = [tick EXCEPT ![t] = v] /\ UNCHANGED claims
      <3> HIDE DEF v
      <3> QED BY <1>0, <2>3, <2>5, <2>6, <2>7, <2>8, TickTyping DEF TicksType
    <2>9. CASE ~(tick' = [tick EXCEPT ![t] = v] /\ UNCHANGED claims)
      <3>1. /\ tick' = [tick EXCEPT ![t] = w] /\ claims' = claims \cup {claim}
            /\ tick[t].at # "initialising"
        BY <1>0, <1>4, <2>9 DEF UpdateRow, RowSkipped, TicksType
      <3>2. tick[t].at = "claiming"
        BY <1>4, <3>1 DEF TicksInv, RowsWhere
      <3>3. row[2] \in Nat
        BY <2>1, <3>2 DEF TicksInv, RowsDue
      <3>4. claim \in Claims
        BY <2>1, <3>3, ClaimTyping
      <3> HIDE DEF claim
      <3>5. w \in TickRecord /\ w.now <= now
        BY <1>a, <3>4 DEF TickRecord
      <3> HIDE DEF w
      <3> QED BY <1>0, <2>5, <2>6, <2>7, <3>1, <3>4, <3>5, TickTyping
              DEF TicksType
    <2> QED BY <2>8, <2>9
  <1>5. ASSUME NEW t \in Ticks, Gate(t) PROVE TicksType'
    <2> PICK toFire \in SUBSET FireNowOf(tick[t].won) :
               /\ tick' = [tick EXCEPT ![t].at = "gated", ![t].won = toFire]
               /\ held' = held \cup (FireNowOf(tick[t].won) \ toFire)
      BY <1>5 DEF Gate
    <2> DEFINE v == [tick[t] EXCEPT !.at = "gated", !.won = toFire]
    <2>1. FireNowOf(tick[t].won) \subseteq Claims
      BY <1>a DEF FireNowOf
    <2>2. v \in TickRecord /\ v.now <= now
      BY <1>a, <2>1 DEF TickRecord, Phases
    <2>3. tick' = [tick EXCEPT ![t] = v]
      BY <1>0 DEF TicksType
    <2> HIDE DEF v
    <2> QED BY <1>0, <1>5, <2>1, <2>2, <2>3, TickTyping DEF TicksType, Gate
  <1>6. ASSUME NEW t \in Ticks, NEW l \in Lanes, EnqueueLane(t, l)
        PROVE  TicksType'
    <2> DEFINE v == [tick[t] EXCEPT !.won = Remaining(t, l)]
    <2>1. InLane(t, l) \subseteq Claims /\ Remaining(t, l) \subseteq Claims
      BY <1>a DEF InLane, Remaining
    <2>2. v \in TickRecord /\ v.now <= now
      BY <1>a, <2>1 DEF TickRecord
    <2>3. tick' = [tick EXCEPT ![t] = v]
      BY <1>0, <1>6 DEF EnqueueLane, TicksType
    <2> HIDE DEF v
    <2> QED BY <1>0, <1>6, <2>1, <2>2, <2>3, TickTyping
            DEF TicksType, EnqueueLane
  <1>7. ASSUME NEW t \in Ticks, TickEnd(t) \/ TickThrows(t)
        PROVE  TicksType'
    <2>1. tick' = [tick EXCEPT ![t] = NoTick] /\ UNCHANGED now
      BY <1>7 DEF TickEnd, TickThrows
    <2>2. faults' \in 0..MaxFaults
      BY <1>0, <1>7, SyncTicksAssumption
      DEF TickEnd, TickThrows, Fault, TicksType
    <2>3. NoTick.now <= now
      BY <1>0, NoTickTyped
    <2> QED BY <1>0, <1>7, <2>1, <2>2, <2>3, NoTickTyped, TickTyping
            DEF TicksType, TickEnd, TickThrows
  <1>8. CASE Crash
    <2>1. /\ tick' \in [Ticks -> TickRecord]
          /\ \A u \in Ticks : tick'[u].now <= now
      BY <1>0, <1>8, NoTickTyped DEF Crash
    <2> QED BY <1>0, <1>8, <2>1, SyncTicksAssumption DEF Crash, Fault, TicksType
  <1>9. ASSUME NEW d \in Dims, Reset(d) PROVE TicksType'
    BY <1>0, <1>9, SyncTicksAssumption DEF Reset, TicksType
  <1>10. CASE Time
    BY <1>0, <1>a, <1>10, SyncTicksAssumption DEF Time, TicksType
  <1>11. CASE UNCHANGED tickVars
    BY <1>0, <1>11 DEF tickVars, TicksType
  <1> QED BY <1>1, <1>2, <1>3, <1>4, <1>5, <1>6, <1>7, <1>8, <1>9, <1>10, <1>11
          DEF TicksNext, TickGoesOn

-----------------------------------------------------------------------------
(* What the ticks hold.                                                    *)
LEMMA TicksHold ==
  TicksInv /\ [TicksNext]_tickVars
    => IdleIsEmpty' /\ RowsWhere' /\ RowsDue' /\ RowsUnset'
  <1> SUFFICES ASSUME TicksInv, [TicksNext]_tickVars
               PROVE  IdleIsEmpty' /\ RowsWhere' /\ RowsDue' /\ RowsUnset'
    OBVIOUS
  <1> DEFINE Good(v) ==
        /\ v.at = "none" => v = NoTick
        /\ v.rows # {} => v.at \in {"initialising", "claiming"}
        /\ v.at = "claiming" =>
             \A row \in v.rows : row[2] # Never /\ row[2] <= v.now
        /\ v.at = "initialising" => \A row \in v.rows : row[2] = Never
  <1>0. tick \in [Ticks -> TickRecord] /\ \A t \in Ticks : Good(tick[t])
    BY DEF TicksInv, TicksType, IdleIsEmpty, RowsWhere, RowsDue, RowsUnset
  <1>a. \A t \in Ticks : tick[t] \in TickRecord
    BY <1>0
  <1>b. Good(NoTick)
    BY DEF NoTick
  <1>c. SUFFICES ASSUME NEW u \in Ticks PROVE Good(tick'[u])
    BY DEF IdleIsEmpty, RowsWhere, RowsDue, RowsUnset
  <1>1. ASSUME NEW t \in Ticks, TickStart(t) PROVE Good(tick'[u])
    <2>1. Good([NoTick EXCEPT !.at = "started", !.now = now])
      BY DEF NoTick
    <2> QED BY <1>0, <1>1, <2>1 DEF TickStart
  <1>2. ASSUME NEW t \in Ticks, ReadUnmaterialized(t) PROVE Good(tick'[u])
    <2>1. Good([tick[t] EXCEPT !.at = "initialising",
                  !.rows = {<<d, next[d]>> : d \in
                              {d \in Dims : next[d] = Never}}])
      BY <1>a DEF TickRecord
    <2> QED BY <1>0, <1>2, <2>1 DEF ReadUnmaterialized
  <1>3. ASSUME NEW t \in Ticks, ReadDue(t) PROVE Good(tick'[u])
    <2>1. Good([tick[t] EXCEPT !.at = "claiming",
                  !.rows = {<<d, next[d]>> : d \in
                              {d \in Dims : Due(d, tick[t].now)}}])
      BY <1>a DEF TickRecord, Due
    <2> QED BY <1>0, <1>3, <2>1 DEF ReadDue
  <1>4. ASSUME NEW t \in Ticks, NEW row \in tick[t].rows, UpdateRow(t, row)
        PROVE  Good(tick'[u])
    <2>1. \A W : Good([tick[t] EXCEPT !.rows = @ \ {row}, !.won = W])
      BY <1>0, <1>a DEF TickRecord, NoTick
    <2>2. Good([tick[t] EXCEPT !.rows = @ \ {row}])
      BY <1>0, <1>a DEF TickRecord, NoTick
    <2>3. \/ tick' = RowSkipped(t, row)
          \/ \E W : tick' = [tick EXCEPT ![t].rows = @ \ {row}, ![t].won = W]
      BY <1>4 DEF UpdateRow
    <2>4. CASE tick' = RowSkipped(t, row)
      <3>1. tick' = [tick EXCEPT ![t] = [tick[t] EXCEPT !.rows = @ \ {row}]]
        BY <2>4 DEF RowSkipped
      <3> HIDE DEF Good
      <3> QED BY <1>0, <2>2, <3>1
    <2>5. ASSUME NEW W,
                 tick' = [tick EXCEPT ![t].rows = @ \ {row}, ![t].won = W]
          PROVE  Good(tick'[u])
      <3>1. tick' = [tick EXCEPT ![t] = [tick[t] EXCEPT !.rows = @ \ {row},
                                                        !.won = W]]
        BY <1>0, <2>5
      <3> HIDE DEF Good
      <3> QED BY <1>0, <2>1, <3>1
    <2> QED BY <2>3, <2>4, <2>5
  <1>5. ASSUME NEW t \in Ticks, Gate(t) PROVE Good(tick'[u])
    <2>1. \A W : tick[t].rows = {}
                   => Good([tick[t] EXCEPT !.at = "gated", !.won = W])
      BY <1>a DEF TickRecord
    <2> QED BY <1>0, <1>5, <2>1 DEF Gate
  <1>6. ASSUME NEW t \in Ticks, NEW l \in Lanes, EnqueueLane(t, l)
        PROVE  Good(tick'[u])
    <2>1. \A W : tick[t].at = "gated" => Good([tick[t] EXCEPT !.won = W])
      BY <1>0, <1>a DEF TickRecord
    <2> QED BY <1>0, <1>6, <2>1 DEF EnqueueLane
  <1>7. ASSUME NEW t \in Ticks, TickEnd(t) \/ TickThrows(t)
        PROVE  Good(tick'[u])
    BY <1>0, <1>7, <1>b DEF TickEnd, TickThrows
  <1>8. CASE Crash
    BY <1>8, <1>b DEF Crash
  <1>9. ASSUME UNCHANGED tick PROVE Good(tick'[u])
    BY <1>0, <1>9
  <1> HIDE DEF Good
  <1> QED BY <1>1, <1>2, <1>3, <1>4, <1>5, <1>6, <1>7, <1>8, <1>9
          DEF TicksNext, TickGoesOn, Reset, Time, tickVars

-----------------------------------------------------------------------------
(* A claim that is won starts after every other claim of its dimension.    *)
LEMMA ClaimsAhead ==
  TicksInv /\ [TicksNext]_tickVars => ScheduleAhead' /\ ClaimsDoNotOverlap'
  <1> SUFFICES ASSUME TicksInv, [TicksNext]_tickVars
               PROVE  ScheduleAhead' /\ ClaimsDoNotOverlap'
    OBVIOUS
  <1>0. /\ next \in [Dims -> Nat \cup {Never}]
        /\ \A t \in Ticks : tick[t].now \in Nat
        /\ \A t \in Ticks : tick[t].rows \subseteq Dims \X (Nat \cup {Never})
        /\ \A c \in claims : c.dim \in Dims /\ c.fire \in Nat /\ c.now \in Nat
    <2>1. \A t \in Ticks : tick[t] \in TickRecord
      BY DEF TicksInv, TicksType
    <2> QED BY <2>1 DEF TicksInv, TicksType, TickRecord, Claims
  <1>1. ASSUME UNCHANGED <<next, claims>>
        PROVE  ScheduleAhead' /\ ClaimsDoNotOverlap'
    BY <1>1 DEF TicksInv, ScheduleAhead, ClaimsDoNotOverlap
  <1>2. ASSUME NEW t \in Ticks, NEW row \in tick[t].rows, UpdateRow(t, row)
        PROVE  ScheduleAhead' /\ ClaimsDoNotOverlap'
    <2> DEFINE d == row[1]
               n == tick[t].now
               claim == [dim |-> d, fire |-> row[2], now |-> n, tick |-> t]
    <2>1. d \in Dims /\ n \in Nat /\ row[2] \in Nat \cup {Never}
      BY <1>0
    <2>2. computeNext(d, n) \in Nat /\ computeNext(d, n) > n
      BY <2>1, NextIsLater
    <2>3. CASE UNCHANGED <<next, claims>>
      BY <1>1, <2>3
    <2>4. CASE ~UNCHANGED <<next, claims>>
      <3>1. Unchanged(row) /\ next' = [next EXCEPT ![d] = computeNext(d, n)]
        BY <1>2, <2>4 DEF UpdateRow
      <3>2. next[d] = row[2]
        BY <3>1 DEF Unchanged
      <3>3. next'[d] # Never /\ next'[d] = computeNext(d, n)
        BY <1>0, <2>1, <2>2, <3>1, SyncTicksAssumption
      <3>4. CASE tick[t].at = "initialising"
        <4>1. claims' = claims
          BY <1>2, <3>1, <3>4, <2>4 DEF UpdateRow
        <4>2. row[2] = Never
          BY <3>4 DEF TicksInv, RowsUnset
        <4>3. \A c \in claims : c.dim # d
          BY <3>2, <4>2 DEF TicksInv, ScheduleAhead
        <4> QED BY <1>0, <3>1, <4>1, <4>3
                DEF TicksInv, ScheduleAhead, ClaimsDoNotOverlap
      <3>5. CASE tick[t].at # "initialising"
        <4>1. claims' = claims \cup {claim}
          BY <1>2, <2>4, <3>1, <3>5 DEF UpdateRow
        <4>2. tick[t].at = "claiming"
          BY <3>5 DEF TicksInv, RowsWhere
        <4>3. row[2] # Never /\ row[2] <= n
          BY <4>2 DEF TicksInv, RowsDue
        <4>4. \A c \in claims : c.dim = d => c.now < row[2] /\ c.now < n
          BY <1>0, <2>1, <3>2, <4>3 DEF TicksInv, ScheduleAhead
        <4>5. ScheduleAhead'
          <5> SUFFICES ASSUME NEW c \in claims'
                       PROVE  /\ c.fire <= c.now /\ next'[c.dim] # Never
                              /\ c.now < next'[c.dim]
            BY DEF ScheduleAhead
          <5>1. CASE c = claim
            BY <2>1, <2>2, <3>3, <4>3, <5>1
          <5>2. CASE c \in claims /\ c.dim = d
            BY <1>0, <2>1, <2>2, <3>3, <4>4, <5>2 DEF TicksInv, ScheduleAhead
          <5>3. CASE c \in claims /\ c.dim # d
            BY <1>0, <3>1, <5>3 DEF TicksInv, ScheduleAhead
          <5> QED BY <4>1, <5>1, <5>2, <5>3
        <4>6. ClaimsDoNotOverlap'
          <5> SUFFICES ASSUME NEW c \in claims', NEW e \in claims',
                              c # e, c.dim = e.dim
                       PROVE  c.now < e.fire \/ e.now < c.fire
            BY DEF ClaimsDoNotOverlap
          <5>1. CASE c \in claims /\ e \in claims
            BY <5>1 DEF TicksInv, ClaimsDoNotOverlap
          <5>2. CASE c = claim /\ e \in claims
            BY <4>4, <5>2
          <5>3. CASE c \in claims /\ e = claim
            BY <4>4, <5>3
          <5> QED BY <4>1, <5>1, <5>2, <5>3
        <4> QED BY <4>5, <4>6
      <3> QED BY <3>4, <3>5
    <2> QED BY <2>3, <2>4
  <1>3. ASSUME NEW d \in Dims, Reset(d)
        PROVE  ScheduleAhead' /\ ClaimsDoNotOverlap'
    BY <1>0, <1>3 DEF Reset, TicksInv, ScheduleAhead, ClaimsDoNotOverlap
  <1>4. CASE TicksNext
    BY <1>1, <1>2, <1>3, <1>4
    DEF TicksNext, TickGoesOn, TickStart, ReadUnmaterialized, ReadDue, Gate,
        EnqueueLane, TickEnd, TickThrows, Crash, Time
  <1> QED BY <1>1, <1>4 DEF tickVars

(* Without a fault, a claim stays with its tick until it is queued or held.*)
LEMMA ClaimsKept ==
  TicksInv /\ [TicksNext]_tickVars => NothingLostWithoutFault'
  <1> SUFFICES ASSUME TicksInv, [TicksNext]_tickVars, faults' = 0,
                      NEW c \in claims', c.dim \in FireNow
               PROVE  \/ c \in queued' \/ c \in held'
                      \/ \E t \in Ticks : c \in tick'[t].won
    BY DEF NothingLostWithoutFault
  <1>0. /\ tick \in [Ticks -> TickRecord] /\ faults \in Nat
        /\ \A t \in Ticks : tick[t] \in TickRecord
    BY SyncTicksAssumption DEF TicksInv, TicksType
  <1>a. ~Crash /\ \A t \in Ticks : ~TickThrows(t)
    BY <1>0 DEF Crash, TickThrows, Fault
  <1>b. faults = 0
    <2>1. \A t \in Ticks : \A row \in tick[t].rows :
            UpdateRow(t, row) => UNCHANGED faults
      BY <1>0 DEF UpdateRow, Fault
    <2> QED BY <1>a, <2>1
            DEF TicksNext, TickGoesOn, TickStart, ReadUnmaterialized, ReadDue,
                Gate, EnqueueLane, TickEnd, Reset, Time, tickVars
  <1>c. c \in claims => \/ c \in queued \/ c \in held
                        \/ \E t \in Ticks : c \in tick[t].won
    BY <1>b DEF TicksInv, NothingLostWithoutFault
  <1>d. \A t \in Ticks : tick[t].at = "none" => tick[t].won = {}
    BY DEF TicksInv, IdleIsEmpty, NoTick
  <1>1. ASSUME NEW t \in Ticks, TickStart(t) \/ TickEnd(t)
        PROVE  \/ c \in queued' \/ c \in held'
               \/ \E u \in Ticks : c \in tick'[u].won
    <2>1. tick[t].won = {}
      BY <1>1, <1>d DEF TickStart, TickEnd
    <2>2. \A u \in Ticks : u # t => tick'[u] = tick[u]
      BY <1>0, <1>1 DEF TickStart, TickEnd
    <2> QED BY <1>1, <1>c, <2>1, <2>2 DEF TickStart, TickEnd
  <1>2. ASSUME NEW t \in Ticks, ReadUnmaterialized(t) \/ ReadDue(t)
        PROVE  \/ c \in queued' \/ c \in held'
               \/ \E u \in Ticks : c \in tick'[u].won
    <2>1. \A u \in Ticks : tick'[u].won = tick[u].won
      BY <1>0, <1>2 DEF ReadUnmaterialized, ReadDue, TickRecord
    <2> QED BY <1>2, <1>c, <2>1 DEF ReadUnmaterialized, ReadDue
  <1>3. ASSUME NEW t \in Ticks, NEW row \in tick[t].rows, UpdateRow(t, row)
        PROVE  \/ c \in queued' \/ c \in held'
               \/ \E u \in Ticks : c \in tick'[u].won
    <2>1. \A u \in Ticks : tick[u].won \subseteq tick'[u].won
      BY <1>0, <1>3 DEF UpdateRow, RowSkipped, TickRecord
    <2>2. c \in claims \/ c \in tick'[t].won
      BY <1>0, <1>3 DEF UpdateRow, TickRecord
    <2> QED BY <1>3, <1>c, <2>1, <2>2 DEF UpdateRow
  <1>4. ASSUME NEW t \in Ticks, Gate(t)
        PROVE  \/ c \in queued' \/ c \in held'
               \/ \E u \in Ticks : c \in tick'[u].won
    <2>1. \A u \in Ticks : u # t => tick'[u] = tick[u]
      BY <1>0, <1>4 DEF Gate
    <2>2. c \in tick[t].won => c \in held' \/ c \in tick'[t].won
      BY <1>0, <1>4 DEF Gate, FireNowOf, TickRecord
    <2>3. queued' = queued /\ claims' = claims /\ held \subseteq held'
      BY <1>4 DEF Gate
    <2> QED BY <1>c, <2>1, <2>2, <2>3
  <1>5. ASSUME NEW t \in Ticks, NEW l \in Lanes, EnqueueLane(t, l)
        PROVE  \/ c \in queued' \/ c \in held'
               \/ \E u \in Ticks : c \in tick'[u].won
    <2>1. \A u \in Ticks : u # t => tick'[u] = tick[u]
      BY <1>0, <1>5 DEF EnqueueLane
    <2>2. c \in tick[t].won => c \in queued' \/ c \in tick'[t].won
      BY <1>0, <1>5 DEF EnqueueLane, Remaining, TickRecord
    <2>3. held' = held /\ claims' = claims /\ queued \subseteq queued'
      BY <1>5 DEF EnqueueLane
    <2> QED BY <1>c, <2>1, <2>2, <2>3
  <1>6. ASSUME UNCHANGED <<tick, queued, held>>, claims' \subseteq claims
        PROVE  \/ c \in queued' \/ c \in held'
               \/ \E u \in Ticks : c \in tick'[u].won
    BY <1>6, <1>c
  <1> QED BY <1>a, <1>1, <1>2, <1>3, <1>4, <1>5, <1>6
          DEF TicksNext, TickGoesOn, Reset, Time, tickVars

-----------------------------------------------------------------------------
(* The inductive invariant of the schedule.                                *)
THEOREM TicksInvariant == TicksSpec => []TicksInv
  <1>1. TicksInv /\ [TicksNext]_tickVars => TicksInv'
    BY TypePreserved, TicksHold, ClaimsAhead, ClaimsKept DEF TicksInv
  <1> QED BY InitInv, <1>1, PTL DEF TicksSpec

(* Schedule, ticks and claims are well-formed, and nextFireAt is a time or *)
(* NULL (SyncTickDriver.claim).                                            *)
THEOREM TicksTypeCorrect == TicksSpec => []TicksTypeOK
  <1>1. TicksInv => TicksTypeOK
    BY TypeIsCorrect DEF TicksInv
  <1> QED BY TicksInvariant, <1>1, PTL

(* No fire is claimed twice, for any number of overlapping ticks, however  *)
(* slow: the claims of a dimension are disjoint in time                    *)
(* (SyncTickDriver.claim).                                                 *)
THEOREM FiresAreClaimedOnce == TicksSpec => []ClaimsDoNotOverlap
  <1>1. TicksInv => ClaimsDoNotOverlap
    BY DEF TicksInv
  <1> QED BY TicksInvariant, <1>1, PTL

(* Only faults lose a claim between its update and its queue               *)
(* (SyncTickDriver.tick).                                                  *)
THEOREM ClaimsAreNotLost == TicksSpec => []NothingLostWithoutFault
  <1>1. TicksInv => NothingLostWithoutFault
    BY DEF TicksInv
  <1> QED BY TicksInvariant, <1>1, PTL

-----------------------------------------------------------------------------
(* Recursion                                                               *)

LEMMA LeastIs ==
  ASSUME NEW S \in SUBSET Nat, S # {}
  PROVE  \E m \in S : \A k \in S : m <= k
  <1> DEFINE R == {p \in Nat \X Nat : p[1] < p[2]}
  <1>1. IsWellFoundedOn(R, Nat)
    <2>1. OpToRel(<, Nat) = R
      BY DEF OpToRel
    <2> QED BY <2>1, NatLessThanWellFounded
  <1>2. PICK x \in S : \A y \in S : ~(<<y, x>> \in R)
    BY <1>1, WFMin
  <1>3. ASSUME NEW y \in S PROVE x <= y
    <2>1. x \in Nat /\ y \in Nat
      OBVIOUS
    <2>2. y < x => <<y, x>> \in R
      BY <2>1
    <2> QED BY <1>2, <2>1, <2>2
  <1> QED BY <1>3

(* Values that start in the first set of a series, and go from each set to *)
(* the next, are in all of them.                                           *)
LEMMA StaysIn ==
  ASSUME NEW N \in Nat, NEW X, NEW e, e[0] \in X[0],
         \A n \in 1..N : e[n - 1] \in X[n - 1] => e[n] \in X[n]
  PROVE  \A n \in 0..N : e[n] \in X[n]
  <1> DEFINE Wrong == {n \in 0..N : e[n] \notin X[n]}
  <1>1. SUFFICES ASSUME Wrong # {} PROVE FALSE
    OBVIOUS
  <1>2. PICK m \in Wrong : \A k \in Wrong : m <= k
    <2>1. Wrong \in SUBSET Nat
      OBVIOUS
    <2> HIDE DEF Wrong
    <2> QED BY <1>1, <2>1, LeastIs
  <1>3. m \in 1..N /\ m - 1 \in 0..N /\ m - 1 \notin Wrong
    BY <1>2
  <1>4. e[m - 1] \in X[m - 1]
    BY <1>3
  <1> QED BY <1>2, <1>3, <1>4

(* A function that is given by its first value and by a step from each     *)
(* value to the next exists, with values in the sets that the steps lead   *)
(* through.                                                                *)
LEMMA Iterates ==
  ASSUME NEW N \in Nat, NEW Y, NEW X \in [0..N -> SUBSET Y],
         NEW x0 \in X[0], NEW step,
         \A n \in 1..N : \A s \in X[n - 1] : step[<<n, s>>] \in X[n]
  PROVE  \E g \in [0..N -> Y] :
           /\ g[0] = x0 /\ \A n \in 0..N : g[n] \in X[n]
           /\ \A n \in 1..N : g[n] = step[<<n, g[n - 1]>>]
  <1> DEFINE Iteration(g, m) ==
               /\ g \in [0..m -> Y]
               /\ g[0] = x0 /\ \A n \in 0..m : g[n] \in X[n]
               /\ \A n \in 1..m : g[n] = step[<<n, g[n - 1]>>]
             B == {m \in 0..N : \A g : ~Iteration(g, m)}
  <1>1. SUFFICES ASSUME B # {} PROVE FALSE
    BY DEF B
  <1>2. PICK m \in B : \A k \in B : m <= k
    <2>1. B \in SUBSET Nat
      OBVIOUS
    <2> HIDE DEF B
    <2> QED BY <1>1, <2>1, LeastIs
  <1>3. CASE m = 0
    <2> DEFINE g == [n \in 0..0 |-> x0]
    <2>1. 0..0 = {0} /\ x0 \in Y
      OBVIOUS
    <2>2. g \in [0..0 -> Y] /\ g[0] = x0
      BY <2>1
    <2> HIDE DEF g
    <2>3. Iteration(g, 0)
      BY <2>1, <2>2
    <2> QED BY <1>3, <2>3
  <1>4. CASE m # 0
    <2>1. m \in 1..N /\ m - 1 \in 0..N /\ m - 1 \notin B
      BY <1>2, <1>4
    <2>2. PICK g : Iteration(g, m - 1)
      BY <2>1
    <2> DEFINE v == step[<<m, g[m - 1]>>]
               h == [n \in 0..m |-> IF n = m THEN v ELSE g[n]]
    <2>3. g[m - 1] \in X[m - 1]
      BY <2>1, <2>2
    <2>4. v \in X[m] /\ v \in Y
      BY <2>1, <2>3
    <2>5. \A n \in 0..m : n # m => n \in 0..m - 1
      BY <2>1
    <2>6. h \in [0..m -> Y]
      BY <2>2, <2>4, <2>5
    <2>7. h[m] = v /\ \A n \in 0..m - 1 : h[n] = g[n]
      BY <2>1
    <2> HIDE DEF h
    <2>8. h[0] = x0 /\ \A n \in 0..m : h[n] \in X[n]
      BY <2>1, <2>2, <2>4, <2>5, <2>7
    <2>9. \A n \in 1..m : h[n] = step[<<n, h[n - 1]>>]
      <3> TAKE n \in 1..m
      <3>1. n - 1 \in 0..m - 1
        BY <2>1
      <3>2. CASE n = m
        BY <3>1, <3>2, <2>7
      <3>3. CASE n # m
        <4>1. n \in 1..m - 1 /\ n \in 0..m - 1
          BY <2>1, <3>3
        <4> QED BY <3>1, <4>1, <2>2, <2>7
      <3> QED BY <3>2, <3>3
    <2>10. Iteration(h, m)
      BY <2>6, <2>8, <2>9
    <2> QED BY <1>2, <2>10
  <1> QED BY <1>3, <1>4

-----------------------------------------------------------------------------
(* The order                                                               *)

TypedGraph ==
  /\ mode \in [Keys \X Keys -> Modes] /\ priority \in [Keys -> Priorities]
  /\ won \in SUBSET Keys /\ won # {}

(* Among the ready one has the highest priority and, of these, the first   *)
(* name: the one that the fewest precede.                                  *)
LEMMA PickIsReady ==
  ASSUME TypedGraph, NEW S \in SUBSET Keys, S # {}
  PROVE  pick(S) \in S
  <1> DEFINE Before(d) == {e \in S : Precedes(e, d)}
             C == {Cardinality(Before(d)) : d \in S}
  <1>1. IsFiniteSet(S)
    BY SyncFlowAssumption, FS_Subset
  <1>2. \A d \in S : IsFiniteSet(Before(d)) /\ Cardinality(Before(d)) \in Nat
    BY <1>1, FS_Subset, FS_CardinalityType
  <1>3. C \in SUBSET Nat /\ C # {}
    BY <1>2
  <1>4. PICK c \in C : \A k \in C : c <= k
    BY <1>3, LeastIs
  <1>5. PICK d \in S : c = Cardinality(Before(d))
    BY <1>4
  <1>6. \A x \in S : x \in Nat /\ priority[x] \in Int
    BY SyncFlowAssumption DEF TypedGraph
  <1>7. ASSUME NEW e \in S \ {d} PROVE Precedes(d, e)
    <2> SUFFICES ASSUME ~Precedes(d, e) PROVE FALSE
      OBVIOUS
    <2>1. Precedes(e, d)
      BY <1>6 DEF Precedes
    <2>2. Before(e) \subseteq Before(d)
      BY <1>6, <2>1 DEF Precedes
    <2>3. e \in Before(d) /\ e \notin Before(e)
      BY <1>6, <2>1 DEF Precedes
    <2>4. Cardinality(Before(e)) < Cardinality(Before(d))
      <3>1. Before(e) # Before(d)
        BY <2>3
      <3> HIDE DEF Before
      <3> QED BY <2>2, <3>1, <1>2, FS_Subset
    <2>5. c <= Cardinality(Before(e)) /\ c \in Nat
      BY <1>4, <1>3
    <2> QED BY <2>4, <2>5, <1>2, <1>5
  <1> QED BY <1>7 DEF pick

(* The beginning of an order: no dimension twice, and each after all of    *)
(* its upstreams.                                                          *)
OrderPrefix(s, n) ==
  /\ s \in Seq(Keys) /\ Len(s) = n
  /\ \A i, j \in 1..n : s[i] = s[j] => i = j
  /\ \A i \in 1..n : \A u \in Keys :
       Edge(u, s[i]) => \E k \in 1..i - 1 : s[k] = u

LEMMA PrefixSize ==
  ASSUME NEW s \in Seq(Keys), \A i, j \in 1..Len(s) : s[i] = s[j] => i = j
  PROVE  /\ ToSet(s) \in SUBSET Keys /\ IsFiniteSet(ToSet(s))
         /\ Cardinality(ToSet(s)) = Len(s)
  <1>1. Len(s) \in Nat /\ DOMAIN s = 1..Len(s) /\ s \in [1..Len(s) -> Keys]
    BY LenProperties
  <1>2. ToSet(s) = {s[i] : i \in 1..Len(s)}
    BY <1>1 DEF ToSet
  <1>3. s \in Surjection(1..Len(s), ToSet(s))
    BY <1>1, <1>2 DEF Surjection
  <1>4. s \in Injection(1..Len(s), ToSet(s))
    BY <1>3 DEF Injection, IsInjective, Surjection
  <1>5. IsFiniteSet(1..Len(s)) /\ Cardinality(1..Len(s)) = Len(s)
    BY <1>1, FS_Interval
  <1> QED BY <1>1, <1>2, <1>3, <1>4, <1>5, FS_Surjection

LEMMA KeysAreFinite == IsFiniteSet(Keys) /\ Cardinality(Keys) \in Nat
  BY SyncFlowAssumption, FS_CardinalityType

(* While the order is not complete, some dimension is ready: the graph has *)
(* no cycle.                                                               *)
LEMMA OneMore ==
  ASSUME TypedGraph, Acyclic, NEW n \in 1..Cardinality(Keys), NEW s,
         OrderPrefix(s, n - 1)
  PROVE  OrderPrefix(Append(s, pick(Ready(ToSet(s)))), n)
  <1> DEFINE Left == Keys \ ToSet(s)
             d == pick(Ready(ToSet(s)))
  <1>1. n \in Nat /\ n - 1 \in Nat /\ n <= Cardinality(Keys)
    BY KeysAreFinite
  <1>2. s \in Seq(Keys) /\ Len(s) = n - 1
    BY DEF OrderPrefix
  <1>3. /\ ToSet(s) \in SUBSET Keys /\ IsFiniteSet(ToSet(s))
        /\ Cardinality(ToSet(s)) = n - 1
    BY <1>2, PrefixSize DEF OrderPrefix
  <1>4. Left # {} /\ Left \in SUBSET Keys
    <2>1. Left = {} => ToSet(s) = Keys
      BY <1>3
    <2>2. ToSet(s) # Keys
      BY <1>1, <1>3
    <2> QED BY <2>1, <2>2
  <1>5. Ready(ToSet(s)) # {} /\ Ready(ToSet(s)) \in SUBSET Keys
    BY <1>4 DEF Ready, Acyclic
  <1>6. d \in Ready(ToSet(s))
    BY <1>5, PickIsReady
  <1>7. /\ d \in Keys /\ d \notin ToSet(s)
        /\ \A u \in Keys : Edge(u, d) => u \in ToSet(s)
    BY <1>6 DEF Ready
  <1>8. DOMAIN s = 1..n - 1
    BY <1>2, LenProperties
  <1>9. \A u : u \in ToSet(s) <=> \E k \in 1..n - 1 : s[k] = u
    BY <1>8 DEF ToSet
  <1> HIDE DEF d
  <1> DEFINE t == Append(s, d)
  <1>10. /\ t \in Seq(Keys) /\ Len(t) = n
         /\ t[n] = d /\ \A k \in 1..n - 1 : t[k] = s[k]
    BY <1>1, <1>2, <1>7, AppendProperties
  <1> HIDE DEF t
  <1>11. \A i \in 1..n : i = n \/ i \in 1..n - 1
    BY <1>1
  <1>12. \A i, j \in 1..n : t[i] = t[j] => i = j
    BY <1>7, <1>9, <1>10, <1>11 DEF OrderPrefix
  <1>13. ASSUME NEW i \in 1..n, NEW u \in Keys, Edge(u, t[i])
         PROVE  \E k \in 1..i - 1 : t[k] = u
    <2>1. CASE i = n
      BY <2>1, <1>7, <1>9, <1>10, <1>13
    <2>2. CASE i \in 1..n - 1
      <3>1. PICK k \in 1..i - 1 : s[k] = u
        BY <2>2, <1>10, <1>13 DEF OrderPrefix
      <3>2. k \in 1..n - 1
        BY <2>2, <1>1
      <3> QED BY <3>1, <3>2, <1>10
    <2> QED BY <2>1, <2>2, <1>11
  <1>14. OrderPrefix(t, n)
    BY <1>10, <1>12, <1>13 DEF OrderPrefix
  <1> QED BY <1>14 DEF t, d

(* The order exists, and is complete.                                      *)
LEMMA ExecutionOrderIs ==
  ASSUME TypedGraph, Acyclic
  PROVE  \A n \in 0..Cardinality(Keys) : OrderPrefix(executionOrder[n], n)
  <1> DEFINE N == Cardinality(Keys)
             X == [n \in 0..N |-> {s \in Seq(Keys) : OrderPrefix(s, n)}]
             step == [p \in (1..N) \X Seq(Keys) |->
                        Append(p[2], pick(Ready(ToSet(p[2]))))]
             IsOrder(f) ==
               f = [n \in 0..N |->
                      IF n = 0 THEN <<>>
                      ELSE Append(f[n - 1], pick(Ready(ToSet(f[n - 1]))))]
  <1>1. N \in Nat
    BY KeysAreFinite
  <1>2. OrderPrefix(<<>>, 0)
    <2>1. <<>> \in Seq(Keys) /\ Len(<<>>) = 0 /\ 1..0 = {}
      OBVIOUS
    <2> QED BY <2>1 DEF OrderPrefix
  <1>3. \A n \in 1..N : n - 1 \in 0..N
    BY <1>1
  <1> HIDE DEF N
  <1>4. X \in [0..N -> SUBSET Seq(Keys)] /\ <<>> \in X[0]
    BY <1>1, <1>2
  <1>5. ASSUME NEW n \in 1..N, NEW s \in X[n - 1]
        PROVE  /\ step[<<n, s>>] \in X[n]
               /\ step[<<n, s>>] = Append(s, pick(Ready(ToSet(s))))
    <2>1. s \in Seq(Keys) /\ OrderPrefix(s, n - 1)
      BY <1>3, <1>5
    <2>2. OrderPrefix(Append(s, pick(Ready(ToSet(s)))), n)
      BY <2>1, OneMore DEF N
    <2>3. Append(s, pick(Ready(ToSet(s)))) \in Seq(Keys)
      BY <2>2 DEF OrderPrefix
    <2>4. step[<<n, s>>] = Append(s, pick(Ready(ToSet(s))))
      BY <2>1
    <2>5. n \in 0..N
      BY <1>1
    <2> QED BY <2>2, <2>3, <2>4, <2>5
  <1>6. \A n \in 0..N : \A s \in X[n] : OrderPrefix(s, n)
    OBVIOUS
  <1> HIDE DEF X, step
  <1>7. PICK g \in [0..N -> Seq(Keys)] :
          /\ g[0] = <<>> /\ \A n \in 0..N : g[n] \in X[n]
          /\ \A n \in 1..N : g[n] = step[<<n, g[n - 1]>>]
    <2>1. \A n \in 1..N : \A s \in X[n - 1] : step[<<n, s>>] \in X[n]
      BY <1>5
    <2> QED BY <1>1, <1>4, <2>1, Iterates
  <1>8. \A n \in 1..N : g[n] = Append(g[n - 1], pick(Ready(ToSet(g[n - 1]))))
    BY <1>3, <1>5, <1>7
  <1>9. IsOrder(g)
    <2> DEFINE h == [n \in 0..N |->
                      IF n = 0 THEN <<>>
                      ELSE Append(g[n - 1], pick(Ready(ToSet(g[n - 1]))))]
    <2>1. \A n \in 0..N : n = 0 \/ n \in 1..N
      BY <1>1
    <2>2. \A n \in 0..N : g[n] = h[n]
      BY <2>1, <1>7, <1>8
    <2>3. g = h
      BY <2>2, <1>7
    <2> QED BY <2>3
  <1>10. executionOrder = CHOOSE f : IsOrder(f)
    BY DEF executionOrder, N
  <1>11. IsOrder(executionOrder)
    <2> HIDE DEF IsOrder
    <2> QED BY <1>9, <1>10
  <1> DEFINE e == executionOrder
  <1>12. e[0] = <<>> /\ \A n \in 1..N :
           e[n] = Append(e[n - 1], pick(Ready(ToSet(e[n - 1]))))
    <2> SUFFICES ASSUME NEW f, IsOrder(f)
                 PROVE  f[0] = <<>> /\ \A n \in 1..N :
                          f[n] = Append(f[n - 1], pick(Ready(ToSet(f[n - 1]))))
      BY <1>11
    <2>1. 0 \in 0..N /\ \A n \in 1..N : n \in 0..N /\ n # 0
      BY <1>1
    <2> QED BY <2>1
  <1> HIDE DEF e
  <1> HIDE DEF IsOrder
  <1>13. \A n \in 0..N : e[n] \in X[n]
    <2>1. \A n \in 1..N : e[n - 1] \in X[n - 1] => e[n] \in X[n]
      BY <1>3, <1>5, <1>12
    <2> QED BY <1>1, <1>4, <1>12, <2>1, StaysIn
  <1> QED BY <1>6, <1>13 DEF e, N

LEMMA OrderIs ==
  ASSUME TypedGraph, Acyclic
  PROVE  /\ OrderPrefix(deriveExecutionOrder, Cardinality(Keys))
         /\ ToSet(deriveExecutionOrder) = Keys
  <1> DEFINE o == deriveExecutionOrder
             N == Cardinality(Keys)
  <1>1. OrderPrefix(o, N)
    BY ExecutionOrderIs, KeysAreFinite DEF deriveExecutionOrder
  <1> HIDE DEF o
  <1>2. /\ o \in Seq(Keys) /\ Len(o) = N
        /\ \A i, j \in 1..Len(o) : o[i] = o[j] => i = j
    BY <1>1 DEF OrderPrefix
  <1>3. ToSet(o) \in SUBSET Keys /\ Cardinality(ToSet(o)) = N
    BY <1>2, PrefixSize
  <1>4. ToSet(o) = Keys
    BY <1>3, SyncFlowAssumption, FS_Subset
  <1> QED BY <1>1, <1>4 DEF o

-----------------------------------------------------------------------------
(* The chain                                                               *)

(* What the chain keeps of the first n of an order: what is won, in turn.  *)
KeptOf(c, o, n) ==
  /\ c \in Seq(won)
  /\ \A k \in 1..n : o[k] \in won => \E i \in 1..Len(c) : c[i] = o[k]
  /\ \A i \in 1..Len(c) : \E a \in 1..n : c[i] = o[a]
  /\ \A i, j \in 1..Len(c) :
       i < j => \E a, b \in 1..n : a < b /\ c[i] = o[a] /\ c[j] = o[b]

LEMMA KeepsOneMore ==
  ASSUME NEW o \in Seq(Keys), NEW n \in 1..Len(o), NEW c, KeptOf(c, o, n - 1)
  PROVE  KeptOf(IF o[n] \in won THEN Append(c, o[n]) ELSE c, o, n)
  <1>1. n \in Nat /\ n \in 1..n /\ \A k \in 1..n - 1 : k \in 1..n /\ k < n
    BY LenProperties
  <1>2. \A k \in 1..n : k = n \/ k \in 1..n - 1
    BY <1>1
  <1>3. CASE o[n] \notin won
    BY <1>1, <1>2, <1>3 DEF KeptOf
  <1>4. CASE o[n] \in won
    <2> DEFINE t == Append(c, o[n])
               m == Len(c) + 1
    <2>1. c \in Seq(won) /\ Len(c) \in Nat
      BY DEF KeptOf
    <2>2. /\ t \in Seq(won) /\ Len(t) = m /\ t[m] = o[n]
          /\ \A i \in 1..m - 1 : t[i] = c[i]
      BY <2>1, <1>4, AppendProperties
    <2> HIDE DEF t
    <2>3. /\ m \in Nat /\ m \in 1..m
          /\ \A i \in 1..m : i = m \/ i \in 1..m - 1
          /\ \A i \in 1..m - 1 : i \in 1..m /\ i < m /\ i \in 1..Len(c)
          /\ \A i \in 1..Len(c) : i \in 1..m - 1
      BY <2>1
    <2> HIDE DEF m
    <2>4. \A k \in 1..n : o[k] \in won => \E i \in 1..Len(t) : t[i] = o[k]
      <3> SUFFICES ASSUME NEW k \in 1..n, o[k] \in won
                   PROVE  \E i \in 1..m : t[i] = o[k]
        BY <2>2
      <3>1. CASE k = n
        BY <3>1, <2>2, <2>3
      <3>2. CASE k \in 1..n - 1
        <4>1. PICK i \in 1..Len(c) : c[i] = o[k]
          BY <3>2 DEF KeptOf
        <4>2. i \in 1..m - 1 /\ i \in 1..m
          BY <4>1, <2>1 DEF m
        <4>3. t[i] = o[k]
          BY <4>1, <4>2, <2>2
        <4> QED BY <4>2, <4>3
      <3> QED BY <3>1, <3>2, <1>2
    <2>5. \A i \in 1..Len(t) : \E a \in 1..n : t[i] = o[a]
      <3> SUFFICES ASSUME NEW i \in 1..m PROVE \E a \in 1..n : t[i] = o[a]
        BY <2>2
      <3>1. CASE i = m
        BY <3>1, <1>1, <2>2
      <3>2. CASE i \in 1..m - 1
        <4>1. PICK a \in 1..n - 1 : c[i] = o[a]
          BY <3>2, <2>3 DEF KeptOf
        <4> QED BY <4>1, <3>2, <1>1, <2>2
      <3> QED BY <3>1, <3>2, <2>3
    <2>6. \A i, j \in 1..Len(t) : i < j =>
            \E a, b \in 1..n : a < b /\ t[i] = o[a] /\ t[j] = o[b]
      <3> SUFFICES ASSUME NEW i \in 1..m, NEW j \in 1..m, i < j
                   PROVE  \E a, b \in 1..n :
                            a < b /\ t[i] = o[a] /\ t[j] = o[b]
        BY <2>2
      <3>1. i \in 1..m - 1
        BY <2>3
      <3>2. CASE j = m
        <4>1. PICK a \in 1..n - 1 : c[i] = o[a]
          BY <3>1, <2>3 DEF KeptOf
        <4> QED BY <4>1, <3>1, <3>2, <1>1, <2>2
      <3>3. CASE j \in 1..m - 1
        <4>1. PICK a \in 1..n - 1, b \in 1..n - 1 :
                a < b /\ c[i] = o[a] /\ c[j] = o[b]
          BY <3>1, <3>3, <2>3 DEF KeptOf
        <4> QED BY <4>1, <3>1, <3>3, <1>1, <2>2
      <3> QED BY <3>2, <3>3, <2>3
    <2>7. KeptOf(t, o, n)
      BY <2>2, <2>4, <2>5, <2>6 DEF KeptOf
    <2> QED BY <1>4, <2>7 DEF t
  <1> QED BY <1>3, <1>4

LEMMA ChainIs ==
  ASSUME NEW o \in Seq(Keys)
  PROVE  KeptOf(sortedWonChain(o), o, Len(o))
  <1> DEFINE N == Len(o)
             Y == Seq(won)
             X == [n \in 0..N |-> {s \in Y : KeptOf(s, o, n)}]
             next1(n, s) == IF o[n] \in won THEN Append(s, o[n]) ELSE s
             step == [p \in (1..N) \X Y |-> next1(p[1], p[2])]
             IsKept(f) ==
               f = [n \in 0..N |->
                      IF n = 0 THEN <<>>
                      ELSE IF o[n] \in won THEN Append(f[n - 1], o[n])
                      ELSE f[n - 1]]
  <1>1. N \in Nat
    BY LenProperties
  <1>2. KeptOf(<<>>, o, 0)
    <2>1. <<>> \in Seq(won) /\ Len(<<>>) = 0 /\ 1..0 = {}
      OBVIOUS
    <2> QED BY <2>1 DEF KeptOf
  <1>3. \A n \in 1..N : n - 1 \in 0..N /\ n \in 0..N /\ n # 0
    BY <1>1
  <1>4. X \in [0..N -> SUBSET Y] /\ <<>> \in X[0]
    BY <1>1, <1>2
  <1>5. ASSUME NEW n \in 1..N, NEW s \in X[n - 1]
        PROVE  step[<<n, s>>] \in X[n] /\ step[<<n, s>>] = next1(n, s)
    <2>1. s \in Y /\ KeptOf(s, o, n - 1)
      BY <1>3, <1>5
    <2>2. KeptOf(next1(n, s), o, n)
      BY <2>1, KeepsOneMore
    <2>3. next1(n, s) \in Y
      BY <2>2 DEF KeptOf
    <2>4. step[<<n, s>>] = next1(n, s)
      BY <2>1
    <2> HIDE DEF next1, step
    <2> QED BY <2>2, <2>3, <2>4, <1>3
  <1>6. \A n \in 0..N : \A s \in X[n] : KeptOf(s, o, n)
    OBVIOUS
  <1> HIDE DEF X, step
  <1>7. PICK g \in [0..N -> Y] :
          /\ g[0] = <<>> /\ \A n \in 0..N : g[n] \in X[n]
          /\ \A n \in 1..N : g[n] = step[<<n, g[n - 1]>>]
    <2>1. \A n \in 1..N : \A s \in X[n - 1] : step[<<n, s>>] \in X[n]
      BY <1>5
    <2> HIDE DEF N, Y, next1
    <2> QED BY <1>1, <1>4, <2>1, Iterates
  <1>8. \A n \in 1..N : g[n] = next1(n, g[n - 1])
    BY <1>3, <1>5, <1>7
  <1>9. IsKept(g)
    <2> DEFINE h == [n \in 0..N |->
                      IF n = 0 THEN <<>>
                      ELSE IF o[n] \in won THEN Append(g[n - 1], o[n])
                      ELSE g[n - 1]]
    <2>1. \A n \in 0..N : n = 0 \/ n \in 1..N
      BY <1>1
    <2>2. \A n \in 0..N : g[n] = h[n]
      BY <2>1, <1>7, <1>8
    <2>3. g = h
      BY <2>2, <1>7
    <2> QED BY <2>3
  <1> DEFINE e == CHOOSE f : IsKept(f)
  <1>10. sortedWonChain(o) = e[N]
    BY DEF sortedWonChain
  <1>11. IsKept(e)
    <2> HIDE DEF IsKept
    <2> QED BY <1>9
  <1>12. e[0] = <<>> /\ \A n \in 1..N : e[n] = next1(n, e[n - 1])
    <2> SUFFICES ASSUME NEW f, IsKept(f)
                 PROVE  f[0] = <<>> /\ \A n \in 1..N : f[n] = next1(n, f[n - 1])
      <3> HIDE DEF e, IsKept, next1
      <3> QED BY <1>11
    <2>1. 0 \in 0..N
      BY <1>1
    <2> QED BY <2>1, <1>3
  <1> HIDE DEF e, IsKept, next1
  <1>13. \A n \in 0..N : e[n] \in X[n]
    <2>1. \A n \in 1..N : e[n - 1] \in X[n - 1] => e[n] \in X[n]
      BY <1>3, <1>5, <1>12
    <2> QED BY <1>1, <1>4, <1>12, <2>1, StaysIn
  <1>14. N \in 0..N
    BY <1>1
  <1> QED BY <1>6, <1>10, <1>13, <1>14
-----------------------------------------------------------------------------
(* The flow                                                                *)

OnlyQueuedHasChain == phase # "queued" => chain = <<>>

(* A flow has each won dimension once, in an order that keeps the          *)
(* dependencies.                                                           *)
ChainOfWon ==
  phase = "queued" =>
    /\ \A i, j \in 1..Len(chain) : chain[i] = chain[j] => i = j
    /\ \A d \in won : \E i \in 1..Len(chain) : chain[i] = d
    /\ Expressible(chain)

(* Nothing runs before there is a flow.                                    *)
NoneRanBefore == phase = "won" => \A d \in Keys : status[d] = "waiting"

(* A job that has left the queue has all jobs below it behind it.          *)
InTurn ==
  \A i \in 1..Len(chain) : status[chain[i]] # "waiting" =>
    \A k \in 1..i - 1 : status[chain[k]] \in {"ok", "failed", "dropped"}

FlowInv ==
  /\ TypedGraph
  /\ phase \in {"won", "queued", "refused"}
  /\ chain \in Seq(won)
  /\ status \in [Keys -> {"waiting", "running", "ok", "failed", "dropped"}]
  /\ OnlyQueuedHasChain
  /\ ChainOfWon
  /\ NoneRanBefore
  /\ InTurn
  /\ RefusedForCause

LEMMA ChainIsSeq ==
  ASSUME FlowInv
  PROVE  /\ Len(chain) \in Nat /\ DOMAIN chain = 1..Len(chain)
         /\ \A i \in 1..Len(chain) : chain[i] \in won /\ chain[i] \in Keys
         /\ phase # "queued" => Len(chain) = 0
  BY LenProperties DEF FlowInv, TypedGraph, OnlyQueuedHasChain

(* What a chain kept of the order, and the order, say of each other.       *)
LEMMA KeptIsChain ==
  ASSUME TypedGraph, Acyclic,
         NEW c, c = sortedWonChain(deriveExecutionOrder)
  PROVE  /\ c \in Seq(won) /\ c # <<>>
         /\ \A i, j \in 1..Len(c) : c[i] = c[j] => i = j
         /\ \A d \in won : \E i \in 1..Len(c) : c[i] = d
         /\ \A i, j \in 1..Len(c) : Edge(c[i], c[j]) => i < j
         /\ \A i, k, j \in 1..Len(c) : i < k /\ k < j =>
              \E a, b, e \in DOMAIN deriveExecutionOrder :
                /\ a < b /\ b < e
                /\ c[i] = deriveExecutionOrder[a]
                /\ c[k] = deriveExecutionOrder[b]
                /\ c[j] = deriveExecutionOrder[e]
  <1> DEFINE o == deriveExecutionOrder
             N == Len(o)
  <1>1. o \in Seq(Keys) /\ ToSet(o) = Keys /\ OrderPrefix(o, N)
    BY OrderIs DEF OrderPrefix
  <1>2. KeptOf(c, o, N)
    BY <1>1, ChainIs
  <1> HIDE DEF o
  <1>3. N \in Nat /\ DOMAIN o = 1..N
    BY <1>1, LenProperties
  <1>4. c \in Seq(won) /\ Len(c) \in Nat
    BY <1>2 DEF KeptOf
  <1> HIDE DEF N
  <1>5. \A a, b \in 1..N : o[a] = o[b] => a = b
    BY <1>1 DEF OrderPrefix
  <1>6. \A d \in won : \E i \in 1..Len(c) : c[i] = d
    <2> TAKE d \in won
    <2>1. d \in Keys
      BY DEF TypedGraph
    <2>2. PICK k \in 1..N : o[k] = d
      BY <2>1, <1>1, <1>3 DEF ToSet
    <2> QED BY <2>2, <1>2 DEF KeptOf
  <1>7. c # <<>>
    <2>1. PICK d : d \in won
      BY DEF TypedGraph
    <2>2. Len(c) # 0
      BY <2>1, <1>4, <1>6
    <2> QED BY <2>2
  <1>8. \A i, j \in 1..Len(c) : i < j => c[i] # c[j]
    <2> TAKE i, j \in 1..Len(c)
    <2> HAVE i < j
    <2>1. PICK a \in 1..N, b \in 1..N : a < b /\ c[i] = o[a] /\ c[j] = o[b]
      BY <1>2 DEF KeptOf
    <2> QED BY <2>1, <1>3, <1>5
  <1>9. \A i, j \in 1..Len(c) : c[i] = c[j] => i = j
    <2> TAKE i, j \in 1..Len(c)
    <2>1. i < j \/ i = j \/ j < i
      BY <1>4
    <2> QED BY <2>1, <1>8
  <1>10. ASSUME NEW i \in 1..Len(c), NEW j \in 1..Len(c), Edge(c[i], c[j])
         PROVE  i < j
    <2> SUFFICES ASSUME ~(i < j) PROVE FALSE
      OBVIOUS
    <2>1. j < i \/ i = j
      BY <1>4
    <2>2. PICK b \in 1..N : \E a \in 1..N : a <= b /\ c[j] = o[a] /\ c[i] = o[b]
      <3>1. CASE j < i
        BY <3>1, <1>2, <1>3 DEF KeptOf
      <3>2. CASE i = j
        <4>1. PICK b \in 1..N : c[i] = o[b]
          BY <1>2 DEF KeptOf
        <4> QED BY <3>2, <4>1, <1>3
      <3> QED BY <2>1, <3>1, <3>2
    <2>3. PICK a \in 1..N : a <= b /\ c[j] = o[a] /\ c[i] = o[b]
      BY <2>2
    <2>4. o[b] \in Keys /\ Edge(o[b], o[a])
      BY <2>2, <2>3, <1>10, <1>1, <1>3 DEF ToSet
    <2>5. PICK k \in 1..a - 1 : o[k] = o[b]
      BY <2>4, <1>1 DEF OrderPrefix, N
    <2>6. k \in 1..N /\ k < b
      BY <2>2, <2>3, <2>5, <1>3
    <2> QED BY <2>2, <2>5, <2>6, <1>5, <1>3
  <1>11. ASSUME NEW i \in 1..Len(c), NEW k \in 1..Len(c), NEW j \in 1..Len(c),
                i < k, k < j
         PROVE  \E a, b, e \in DOMAIN o :
                  a < b /\ b < e /\ c[i] = o[a] /\ c[k] = o[b] /\ c[j] = o[e]
    <2>1. PICK a \in 1..N, b \in 1..N : a < b /\ c[i] = o[a] /\ c[k] = o[b]
      BY <1>2, <1>11 DEF KeptOf
    <2>2. PICK f \in 1..N, e \in 1..N : f < e /\ c[k] = o[f] /\ c[j] = o[e]
      BY <1>2, <1>11 DEF KeptOf
    <2>3. f = b
      BY <2>1, <2>2, <1>5
    <2>4. a \in DOMAIN o /\ b \in DOMAIN o /\ e \in DOMAIN o
      BY <2>1, <2>2, <1>3
    <2> QED BY <2>1, <2>2, <2>3, <2>4
  <1>12. \A i, k, j \in 1..Len(c) : i < k /\ k < j =>
           \E a, b, e \in DOMAIN o :
             a < b /\ b < e /\ c[i] = o[a] /\ c[k] = o[b] /\ c[j] = o[e]
    BY <1>11
  <1>13. \A i, j \in 1..Len(c) : Edge(c[i], c[j]) => i < j
    BY <1>10
  <1> HIDE <1>10, <1>11
  <1> QED BY <1>4, <1>6, <1>7, <1>9, <1>12, <1>13 DEF o

LEMMA SameOrder ==
  ASSUME UNCHANGED <<mode, priority>>
  PROVE  /\ deriveExecutionOrder' = deriveExecutionOrder
         /\ Acyclic' <=> Acyclic
  BY DEF deriveExecutionOrder, executionOrder, pick, Ready, Edge, Precedes,
         Acyclic

LEMMA FlowInitially == FlowInit => FlowInv
  <1> SUFFICES ASSUME FlowInit PROVE FlowInv
    OBVIOUS
  <1>1. phase = "won" /\ chain = <<>> /\ TypedGraph
    <2>1. won \in SUBSET Keys /\ won # {}
      BY DEF FlowInit
    <2> QED BY <2>1 DEF FlowInit, TypedGraph
  <1>2. status \in [Keys -> {"waiting", "running", "ok", "failed", "dropped"}]
    BY DEF FlowInit
  <1>3. chain \in Seq(won) /\ Len(chain) = 0
    BY <1>1
  <1>4. InTurn /\ NoneRanBefore
    BY <1>3 DEF InTurn, NoneRanBefore, FlowInit
  <1> QED BY <1>1, <1>2, <1>3, <1>4
          DEF FlowInv, OnlyQueuedHasChain, ChainOfWon, RefusedForCause

LEMMA FlowAssembles ==
  ASSUME FlowInv, assembleSyncFlow
  PROVE  FlowInv'
  <1>1. /\ phase = "won" /\ UNCHANGED <<mode, priority, won, status>>
        /\ TypedGraph
    BY DEF assembleSyncFlow, FlowInv
  <1>2. TypedGraph'
    BY <1>1 DEF TypedGraph
  <1>3. PICK c \in IF ~Acyclic THEN {<<>>}
                   ELSE {sortedWonChain(o) : o \in {deriveExecutionOrder}} :
          IF c # <<>> /\ Expressible(c)
          THEN phase' = "queued" /\ chain' = c
          ELSE phase' = "refused" /\ chain' = <<>>
    BY DEF assembleSyncFlow
  <1>4. Acyclic => c = sortedWonChain(deriveExecutionOrder)
    BY <1>3
  <1>5. ~Acyclic => c = <<>>
    BY <1>3
  <1> DEFINE chained ==
        /\ c \in Seq(won) /\ c # <<>>
        /\ \A i, j \in 1..Len(c) : c[i] = c[j] => i = j
        /\ \A d \in won : \E i \in 1..Len(c) : c[i] = d
        /\ \A i, j \in 1..Len(c) : Edge(c[i], c[j]) => i < j
        /\ \A i, k, j \in 1..Len(c) : i < k /\ k < j =>
             \E a, b, e \in DOMAIN deriveExecutionOrder :
               /\ a < b /\ b < e
               /\ c[i] = deriveExecutionOrder[a]
               /\ c[k] = deriveExecutionOrder[b]
               /\ c[j] = deriveExecutionOrder[e]
  <1>6. Acyclic => chained
    BY <1>1, <1>4, KeptIsChain
  <1>7. \A d \in Keys : status'[d] = "waiting"
    BY <1>1 DEF FlowInv, NoneRanBefore
  <1>8. /\ status' \in
             [Keys -> {"waiting", "running", "ok", "failed", "dropped"}]
        /\ deriveExecutionOrder' = deriveExecutionOrder /\ (Acyclic' <=> Acyclic)
    BY <1>1, SameOrder DEF FlowInv
  <1>9. CASE c # <<>> /\ Expressible(c)
    <2>1. phase' = "queued" /\ chain' = c /\ chained
      BY <1>3, <1>5, <1>6, <1>9
    <2>2. (chain \in Seq(won))'
      BY <2>1, <1>1
    <2>3. Expressible(chain)'
      BY <1>9, <1>1, <2>1 DEF Expressible, Edge
    <2>4. ChainOfWon'
      BY <1>1, <2>1, <2>3 DEF ChainOfWon
    <2>5. \A i \in 1..Len(c) : c[i] \in Keys
      BY <2>1, <1>1, LenProperties DEF TypedGraph
    <2>6. InTurn'
      BY <1>7, <2>1, <2>5 DEF InTurn
    <2> HIDE DEF chained
    <2> QED BY <1>2, <1>8, <2>1, <2>2, <2>4, <2>6
            DEF FlowInv, OnlyQueuedHasChain, NoneRanBefore, RefusedForCause
  <1>10. CASE ~(c # <<>> /\ Expressible(c))
    <2>1. phase' = "refused" /\ chain' = <<>>
      BY <1>3, <1>10
    <2>2. (chain \in Seq(won))' /\ Len(chain') = 0
      BY <2>1
    <2>3. InTurn'
      BY <2>2 DEF InTurn
    <2> DEFINE Separated(o) ==
                 \E a, b, e \in DOMAIN o :
                   /\ a < b /\ b < e /\ mode[<<o[a], o[e]>>] = "hard"
                   /\ {o[a], o[b], o[e]} \subseteq won
    <2>4. ASSUME Acyclic PROVE Separated(deriveExecutionOrder)
      <3>1. chained /\ ~Expressible(c)
        BY <2>4, <1>6, <1>10
      <3>2. /\ DOMAIN c = 1..Len(c) /\ Len(c) \in Nat
            /\ \A i \in 1..Len(c) : c[i] \in won
        BY <3>1, LenProperties
      <3>3. PICK i \in 1..Len(c), j \in 1..Len(c) :
              mode[<<c[i], c[j]>>] = "hard" /\ j # i + 1
        BY <3>1, <3>2 DEF Expressible
      <3>4. i < j
        BY <3>1, <3>3 DEF Edge
      <3>5. i + 1 \in 1..Len(c) /\ i < i + 1 /\ i + 1 < j
        BY <3>2, <3>3, <3>4
      <3>6. PICK a, b, e \in DOMAIN deriveExecutionOrder :
              /\ a < b /\ b < e
              /\ c[i] = deriveExecutionOrder[a]
              /\ c[i + 1] = deriveExecutionOrder[b]
              /\ c[j] = deriveExecutionOrder[e]
        BY <3>1, <3>5
      <3> DEFINE o == deriveExecutionOrder
      <3> HIDE DEF chained, o
      <3>7. a \in DOMAIN o /\ b \in DOMAIN o /\ e \in DOMAIN o /\ a < b /\ b < e
        BY <3>6 DEF o
      <3>8. {o[a], o[b], o[e]} \subseteq won /\ mode[<<o[a], o[e]>>] = "hard"
        BY <3>2, <3>3, <3>5, <3>6 DEF o
      <3>9. Separated(o)
        BY <3>7, <3>8
      <3> QED BY <3>9 DEF o
    <2>5. RefusedForCause'
      BY <1>1, <1>8, <2>4 DEF RefusedForCause
    <2> QED BY <1>2, <1>8, <2>1, <2>2, <2>3, <2>5
            DEF FlowInv, OnlyQueuedHasChain, ChainOfWon, NoneRanBefore
  <1> QED BY <1>9, <1>10

(* What BullMQ does with a job: only its status changes.                   *)
LEMMA StatusStep ==
  ASSUME FlowInv, NEW i \in DOMAIN chain,
         NEW from \in {"waiting", "running"},
         NEW to \in {"running", "ok", "failed", "dropped"},
         SetStatus(i, from, to),
         from = "waiting" => ChildEnded(i),
         from = "running" => to # "running"
  PROVE  FlowInv'
  <1>1. /\ UNCHANGED <<mode, priority, won, phase, chain>>
        /\ phase = "queued" /\ status[chain[i]] = from
        /\ status' = [status EXCEPT ![chain[i]] = to]
    BY DEF SetStatus
  <1>2. /\ i \in 1..Len(chain)
        /\ Len(chain) \in Nat /\ DOMAIN chain = 1..Len(chain)
        /\ \A k \in 1..Len(chain) : chain[k] \in Keys
    BY ChainIsSeq
  <1>3. status' \in [Keys -> {"waiting", "running", "ok", "failed", "dropped"}]
    BY <1>1, <1>2 DEF FlowInv
  <1>4. /\ status'[chain[i]] = to
        /\ \A k \in 1..Len(chain) :
             k # i => status'[chain[k]] = status[chain[k]]
    BY <1>1, <1>2 DEF FlowInv, ChainOfWon
  <1>5. \A k \in 1..i - 1 : status[chain[k]] \in {"ok", "failed", "dropped"}
    <2>1. CASE from = "running"
      BY <2>1, <1>1, <1>2 DEF FlowInv, InTurn
    <2>2. CASE from = "waiting"
      <3> TAKE k \in 1..i - 1
      <3>1. i - 1 \in 1..Len(chain) /\ k \in 1..Len(chain)
        BY <1>2
      <3>2. status[chain[i - 1]] \in {"ok", "failed", "dropped"}
        BY <2>2, <3>1, <1>2 DEF ChildEnded, Children
      <3>3. CASE k = i - 1
        BY <3>2, <3>3
      <3>4. CASE k # i - 1
        <4>1. k \in 1..(i - 1) - 1
          BY <3>4, <1>2
        <4>2. status[chain[i - 1]] # "waiting"
          BY <3>2
        <4> QED BY <3>1, <4>1, <4>2 DEF FlowInv, InTurn
      <3> QED BY <3>3, <3>4
    <2> QED BY <2>1, <2>2
  <1>6. ASSUME NEW j \in 1..Len(chain), status'[chain[j]] # "waiting",
               NEW k \in 1..j - 1
        PROVE  status'[chain[k]] \in {"ok", "failed", "dropped"}
    <2>1. k \in 1..Len(chain)
      BY <1>2
    <2>2. status[chain[k]] \in {"ok", "failed", "dropped"}
      <3>1. CASE j = i
        BY <3>1, <1>5, <1>6
      <3>2. CASE j # i
        BY <3>2, <1>4, <1>6 DEF FlowInv, InTurn
      <3> QED BY <3>1, <3>2
    <2>3. k # i
      BY <1>1, <2>2
    <2> QED BY <1>4, <2>1, <2>2, <2>3
  <1>7. InTurn'
    BY <1>1, <1>6 DEF InTurn
  <1>8. ChainOfWon'
    BY <1>1 DEF FlowInv, ChainOfWon, Expressible, Edge
  <1>9. TypedGraph'
    BY <1>1 DEF FlowInv, TypedGraph
  <1> QED BY <1>1, <1>3, <1>7, <1>8, <1>9
          DEF FlowInv, OnlyQueuedHasChain, NoneRanBefore, RefusedForCause

LEMMA FlowNextPreserves ==
  ASSUME FlowInv, [FlowNext]_flowVars
  PROVE  FlowInv'
  <1>1. CASE UNCHANGED flowVars
    <2>1. UNCHANGED <<mode, priority, won, phase, chain, status>>
      BY <1>1 DEF flowVars
    <2> QED BY <2>1, SameOrder
            DEF FlowInv, TypedGraph, OnlyQueuedHasChain, ChainOfWon,
                NoneRanBefore, InTurn, RefusedForCause, Expressible, Edge
  <1>2. CASE assembleSyncFlow
    BY <1>2, FlowAssembles
  <1>3. ASSUME NEW i \in DOMAIN chain, JobStarts(i) PROVE FlowInv'
    BY <1>3, StatusStep DEF JobStarts
  <1>4. ASSUME NEW i \in DOMAIN chain, JobDropped(i) PROVE FlowInv'
    <2>1. \A k \in Children(i) : k = i - 1
      BY DEF Children
    <2>2. ChildEnded(i)
      BY <1>4, <2>1 DEF JobDropped, FailedByChild, ChildEnded
    <2> QED BY <1>4, <2>2, StatusStep DEF JobDropped
  <1>5. ASSUME NEW i \in DOMAIN chain, NEW s \in {"ok", "failed"}, JobEnds(i, s)
        PROVE  FlowInv'
    BY <1>5, StatusStep DEF JobEnds
  <1> QED BY <1>1, <1>2, <1>3, <1>4, <1>5 DEF FlowNext

(* The inductive invariant of the flow.                                   *)
THEOREM FlowInvariant == FlowSpec => []FlowInv
  <1>1. FlowInit => FlowInv
    BY FlowInitially
  <1>2. FlowInv /\ [FlowNext]_flowVars => FlowInv'
    BY FlowNextPreserves
  <1> QED BY <1>1, <1>2, PTL DEF FlowSpec

(* Every variable keeps its type: what is queued are won dimensions, each  *)
(* at most once.                                                           *)
THEOREM FlowTypeCorrect == FlowSpec => []FlowTypeOK
  <1>1. FlowInv => FlowTypeOK
    <2> SUFFICES ASSUME FlowInv PROVE FlowTypeOK
      OBVIOUS
    <2>1. ToSet(chain) \subseteq won
      BY ChainIsSeq DEF ToSet
    <2>2. IsInjective(chain)
      BY ChainIsSeq DEF IsInjective, FlowInv, ChainOfWon
    <2>3. won \subseteq Keys
      BY DEF FlowInv, TypedGraph
    <2> QED BY <2>1, <2>2, <2>3 DEF FlowTypeOK, FlowInv, TypedGraph
  <1> QED BY <1>1, FlowInvariant, PTL

(* The assembler refuses only for a cycle, or for a hard dependency with a *)
(* won dimension between its ends in the derived order                     *)
(* (sync-flow-assembler.ts, assertAcyclic and assertEdgesExpressible): the *)
(* check of the direction of edges never fires, whatever the graph.        *)
THEOREM RefusedOnlyForCause == FlowSpec => []RefusedForCause
  <1>1. FlowInv => RefusedForCause
    BY DEF FlowInv
  <1> QED BY <1>1, FlowInvariant, PTL

(* A dimension before another in the graph is below it in the chain, and   *)
(* directly below it if the dependency is hard.                            *)
LEMMA UpstreamIsBelow ==
  ASSUME FlowInv, NEW i \in DOMAIN chain, phase = "queued",
         NEW u \in won, Edge(u, chain[i])
  PROVE  \E k \in 1..i - 1 :
           chain[k] = u /\ (mode[<<u, chain[i]>>] = "hard" => k = i - 1)
  <1>1. DOMAIN chain = 1..Len(chain) /\ Len(chain) \in Nat
    BY ChainIsSeq
  <1>2. PICK k \in DOMAIN chain : chain[k] = u
    BY <1>1 DEF FlowInv, ChainOfWon
  <1>3. k < i /\ (mode[<<u, chain[i]>>] = "hard" => i = k + 1)
    BY <1>2 DEF FlowInv, ChainOfWon, Expressible
  <1>4. k \in 1..i - 1 /\ (i = k + 1 => k = i - 1)
    BY <1>1, <1>2, <1>3
  <1> QED BY <1>2, <1>3, <1>4

LEMMA StartImplements ==
  ASSUME FlowInv, NEW i \in DOMAIN chain, JobStarts(i)
  PROVE  Abstract!Start(chain[i])
  <1>1. /\ ChildEnded(i) /\ ~FailedByChild(i) /\ phase = "queued"
        /\ status[chain[i]] = "waiting"
        /\ status' = [status EXCEPT ![chain[i]] = "running"]
    BY DEF JobStarts, SetStatus
  <1>2. /\ DOMAIN chain = 1..Len(chain) /\ Len(chain) \in Nat
        /\ chain[i] \in won
    BY ChainIsSeq
  <1>3. ASSUME NEW u \in won, Edge(u, chain[i])
        PROVE  /\ status[u] \in {"ok", "failed", "dropped"}
               /\ mode[<<u, chain[i]>>] = "hard" => status[u] = "ok"
    <2>1. PICK k \in 1..i - 1 :
            chain[k] = u /\ (mode[<<u, chain[i]>>] = "hard" => k = i - 1)
      BY <1>1, <1>3, UpstreamIsBelow
    <2>2. /\ i - 1 \in DOMAIN chain /\ k \in DOMAIN chain
          /\ k # i - 1 => k \in 1..(i - 1) - 1
          /\ (i - 1) + 1 = i
      BY <1>2, <2>1
    <2>3. i - 1 \in Children(i)
      BY <2>2 DEF Children
    <2>4. status[chain[i - 1]] \in {"ok", "failed", "dropped"}
      BY <1>1, <2>3 DEF ChildEnded
    <2>5. status[u] \in {"ok", "failed", "dropped"}
      BY <1>2, <2>1, <2>2, <2>4 DEF FlowInv, InTurn
    <2>6. mode[<<u, chain[i]>>] = "hard" => status[u] = "ok"
      BY <1>1, <2>1, <2>2, <2>3, <2>4 DEF FailedByChild, failParentOnFailure
    <2> QED BY <2>5, <2>6
  <1>4. \A u \in Keys : Abstract!Before(u, chain[i]) =>
          status[u] \in {"ok", "failed", "dropped"}
    BY <1>3 DEF Abstract!Before, Edge
  <1>5. \A u \in Keys : Abstract!Hard(u, chain[i]) => status[u] = "ok"
    BY <1>3 DEF Abstract!Hard, Edge
  <1> QED BY <1>1, <1>2, <1>4, <1>5 DEF Abstract!Start, Abstract!Ended

LEMMA DropImplements ==
  ASSUME FlowInv, NEW i \in DOMAIN chain, JobDropped(i)
  PROVE  Abstract!Drop(chain[i])
  <1>1. /\ FailedByChild(i)
        /\ status[chain[i]] = "waiting"
        /\ status' = [status EXCEPT ![chain[i]] = "dropped"]
    BY DEF JobDropped, SetStatus
  <1>2. PICK k \in Children(i) :
          status[chain[k]] \in {"failed", "dropped"} /\ failParentOnFailure(k)
    BY <1>1 DEF FailedByChild
  <1>3. k \in DOMAIN chain /\ k = i - 1
    BY <1>2 DEF Children
  <1>4. /\ chain[k] \in won /\ chain[k] \in Keys /\ chain[i] \in won
        /\ k + 1 = i
    BY <1>3, ChainIsSeq
  <1>5. Abstract!Hard(chain[k], chain[i])
    BY <1>2, <1>4 DEF Abstract!Hard, failParentOnFailure
  <1> QED BY <1>1, <1>2, <1>4, <1>5 DEF Abstract!Drop

(* The flow of BullMQ implements the round of synchronisation: whatever    *)
(* the graph, a won dimension runs at most once, after all it depends on   *)
(* has ended, not at all if a hard dependency did not succeed, and is      *)
(* dropped for nothing else (sync-flow-assembler.ts, assembleSyncFlow).    *)
THEOREM FlowImplementsDimensionRuns == FlowSpec => ImplementsDimensionRuns
  <1>1. FlowInit => Abstract!Init
    BY DEF FlowInit, Abstract!Init
  <1>2. ASSUME FlowInv, [FlowNext]_flowVars
        PROVE  [Abstract!Next]_<<mode, won, status>>
    <2>1. CASE UNCHANGED flowVars
      BY <2>1 DEF flowVars
    <2>2. CASE assembleSyncFlow
      BY <2>2 DEF assembleSyncFlow
    <2>3. ASSUME NEW i \in DOMAIN chain, JobStarts(i)
          PROVE  Abstract!Next
      BY <1>2, <2>3, StartImplements, ChainIsSeq
         DEF Abstract!Next, JobStarts, SetStatus
    <2>4. ASSUME NEW i \in DOMAIN chain, JobDropped(i)
          PROVE  Abstract!Next
      BY <1>2, <2>4, DropImplements, ChainIsSeq
         DEF Abstract!Next, JobDropped, SetStatus
    <2>5. ASSUME NEW i \in DOMAIN chain, NEW s \in {"ok", "failed"},
                 JobEnds(i, s)
          PROVE  Abstract!Next
      <3>1. Abstract!End(chain[i], s) /\ UNCHANGED <<mode, won>>
        BY <2>5 DEF Abstract!End, JobEnds, SetStatus
      <3>2. chain[i] \in Keys
        BY <1>2, ChainIsSeq
      <3> QED BY <3>1, <3>2 DEF Abstract!Next
    <2> QED BY <1>2, <2>1, <2>2, <2>3, <2>4, <2>5 DEF FlowNext
  <1> QED BY <1>1, <1>2, FlowInvariant, PTL
          DEF FlowSpec, ImplementsDimensionRuns, Abstract!Spec
=============================================================================
