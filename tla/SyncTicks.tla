----------------------------- MODULE SyncTicks ------------------------------
(***************************************************************************)
(* The schedule of the market data synchronisation (sync-tick-driver.ts).  *)
(* Every minute a tick reads the dimensions that are due, advances the     *)
(* nextFireAt of each with an update conditional on the value it has read, *)
(* drops what a gate holds back (no trading day, paused, no event in the   *)
(* calendar) and queues the rest, one flow per lane.  A tick goes by the   *)
(* clock it has read at its start.  Ticks overlap: nothing stops the next  *)
(* minute's tick while one is slow.  An operator may set nextFireAt to     *)
(* NULL to have it computed anew, the process may die between a claim and  *)
(* its queueing, and calls may fail.                                       *)
(***************************************************************************)
EXTENDS Integers, FiniteSets

CONSTANTS
  Dims,        \* enabled dimensions
  Period,      \* cronExpr: a dimension is due at the multiples of its period
  BadCron,     \* dimensions whose cronExpr does not parse
  FireNow,     \* dimensions whose misfirePolicy is fire-now
  Lanes, LaneOf,
  Ticks,       \* ticks that may be under way at a time
  Never,       \* NULL
  MaxTime,     \* bound: the clock stops
  MaxFaults,   \* bound: crashes and failed calls
  MaxResets    \* bound: operators' resets

ASSUME SyncTicksAssumption ==
  /\ Period \in [Dims -> Nat \ {0}] /\ LaneOf \in [Dims -> Lanes]
  /\ FireNow \subseteq Dims /\ BadCron \subseteq Dims
  /\ Never \notin Nat
  /\ MaxTime \in Nat /\ MaxFaults \in Nat /\ MaxResets \in Nat

VARIABLES
  now,         \* the clock
  next,        \* sync_dimension.nextFireAt
  tick,        \* the ticks under way
  claims,      \* history: the claims won, since the last reset
  queued,      \* the claims whose job has been queued
  held,        \* the claims that a gate has held back
  faults, resets

tickVars == <<now, next, tick, claims, queued, held, faults, resets>>

-----------------------------------------------------------------------------
Phases == {"none", "started", "initialising", "claiming", "gated"}
Claims == [dim: Dims, fire: Nat, now: Nat, tick: Ticks]

(* `rows` are the rows read and not yet updated, with the value read.      *)
TickRecord == [at: Phases, now: Nat, rows: SUBSET (Dims \X (Nat \cup {Never})),
               won: SUBSET Claims]
NoTick == [at |-> "none", now |-> 0, rows |-> {}, won |-> {}]

(* Every variable has its type.                                            *)
TicksTypeOK ==
  /\ now \in 0..MaxTime
  /\ next \in [Dims -> Nat \cup {Never}]
  /\ \A t \in Ticks : tick[t].at \in Phases /\ tick[t].now \in 0..now
  /\ \A t \in Ticks : tick[t].rows \subseteq Dims \X (Nat \cup {Never})
  /\ \A t \in Ticks : tick[t].won \subseteq Claims
  /\ claims \cup queued \cup held \subseteq Claims
  /\ faults \in 0..MaxFaults /\ resets \in 0..MaxResets

TicksInit ==
  /\ now = 0
  /\ next = [d \in Dims |-> Never]
  /\ tick = [t \in Ticks |-> NoTick]
  /\ claims = {} /\ queued = {} /\ held = {}
  /\ faults = 0 /\ resets = 0

Fault == faults < MaxFaults /\ faults' = faults + 1

(* Mutant of computeNext: at a fire, that fire is the next one.            *)
NextNotStrict(d, n) == n + ((Period[d] - (n % Period[d])) % Period[d])

(* The next fire strictly after n; a cronExpr that does not parse throws.  *)
computeNext(d, n) == n + (Period[d] - (n % Period[d]))

-----------------------------------------------------------------------------
(* handleCron: the tick reads the clock.                                   *)
TickStart(t) ==
  /\ tick[t].at = "none"
  /\ tick' = [tick EXCEPT ![t] = [NoTick EXCEPT !.at = "started", !.now = now]]
  /\ UNCHANGED <<now, next, claims, queued, held, faults, resets>>

(* claim (a): the rows whose nextFireAt is NULL.                           *)
ReadUnmaterialized(t) ==
  /\ tick[t].at = "started"
  /\ tick' = [tick EXCEPT ![t].at = "initialising",
                          ![t].rows = {<<d, next[d]>> : d \in
                                         {d \in Dims : next[d] = Never}}]
  /\ UNCHANGED <<now, next, claims, queued, held, faults, resets>>

(* Mutant of Due: a dimension without schedule is due.                     *)
DueOrNull(d, n) == next[d] = Never \/ next[d] <= n

Due(d, n) == next[d] # Never /\ next[d] <= n

(* claim (b): the rows that are due.                                       *)
ReadDue(t) ==
  /\ tick[t].at = "initialising" /\ tick[t].rows = {}
  /\ tick' = [tick EXCEPT ![t].at = "claiming",
                          ![t].rows = {<<d, next[d]>> : d \in
                                         {d \in Dims : Due(d, tick[t].now)}}]
  /\ UNCHANGED <<now, next, claims, queued, held, faults, resets>>

(* Mutant of Unchanged: the update is not conditional.                     *)
AnyValue(row) == TRUE

(* The condition of both updates: nextFireAt is what was read.             *)
Unchanged(row) == next[row[1]] = row[2]

(* Mutant of RowSkipped: a row that fails ends the tick.                   *)
TickAborted(t, row) == [tick EXCEPT ![t] = NoTick]

RowSkipped(t, row) == [tick EXCEPT ![t].rows = @ \ {row}]

(* One row's conditional update, from the tick's own clock.  A row whose   *)
(* update throws, as for a bad cronExpr, is left as it is; the other rows  *)
(* go on.                                                                  *)
UpdateRow(t, row) ==
  LET d == row[1]
      claim == [dim |-> d, fire |-> row[2], now |-> tick[t].now, tick |-> t]
  IN
  /\ row \in tick[t].rows
  /\ IF Unchanged(row) /\ d \notin BadCron
     THEN \/ /\ next' = [next EXCEPT ![d] = computeNext(d, tick[t].now)]
             /\ IF tick[t].at = "initialising"
                THEN /\ tick' = RowSkipped(t, row)
                     /\ UNCHANGED claims
                ELSE /\ tick' = [tick EXCEPT ![t].rows = @ \ {row},
                                             ![t].won = @ \cup {claim}]
                     /\ claims' = claims \cup {claim}
             /\ UNCHANGED faults
          \/ /\ Fault
             /\ tick' = RowSkipped(t, row)
             /\ UNCHANGED <<next, claims>>
     ELSE /\ tick' = RowSkipped(t, row)
          /\ UNCHANGED <<next, claims, faults>>
  /\ UNCHANGED <<now, queued, held, resets>>

(* claim (c): what goes on to be queued.                                   *)
FireNowOf(won) == {c \in won : c.dim \in FireNow}

(* resolveAsOf, tradingDayGate and freshnessGate hold back what they may.  *)
Gate(t) ==
  /\ tick[t].at = "claiming" /\ tick[t].rows = {}
  /\ \E toFire \in SUBSET FireNowOf(tick[t].won) :
       /\ tick' = [tick EXCEPT ![t].at = "gated", ![t].won = toFire]
       /\ held' = held \cup (FireNowOf(tick[t].won) \ toFire)
  /\ UNCHANGED <<now, next, claims, queued, faults, resets>>

InLane(t, l) == {c \in tick[t].won : LaneOf[c.dim] = l}

(* Mutant of Remaining: only one lane's flow is queued.                    *)
NothingRemains(t, l) == {}

Remaining(t, l) == tick[t].won \ InLane(t, l)

(* One flow per lane, one after the other.                                 *)
EnqueueLane(t, l) ==
  /\ tick[t].at = "gated" /\ InLane(t, l) # {}
  /\ queued' = queued \cup InLane(t, l)
  /\ tick' = [tick EXCEPT ![t].won = Remaining(t, l)]
  /\ UNCHANGED <<now, next, claims, held, faults, resets>>

TickEnd(t) ==
  /\ tick[t].at = "gated" /\ tick[t].won = {}
  /\ tick' = [tick EXCEPT ![t] = NoTick]
  /\ UNCHANGED <<now, next, claims, queued, held, faults, resets>>

(* A read, a gate, the assembly of a flow or its queueing throws: what the *)
(* tick has won and not yet queued is lost; the next fires come.           *)
TickThrows(t) ==
  /\ tick[t].at # "none" /\ Fault
  /\ tick' = [tick EXCEPT ![t] = NoTick]
  /\ UNCHANGED <<now, next, claims, queued, held, resets>>

Crash ==
  /\ Fault
  /\ tick' = [t \in Ticks |-> NoTick]
  /\ UNCHANGED <<now, next, claims, queued, held, resets>>

(* An operator wants the schedule computed anew; claims before it no       *)
(* longer count.                                                           *)
Reset(d) ==
  /\ resets < MaxResets /\ resets' = resets + 1
  /\ next' = [next EXCEPT ![d] = Never]
  /\ claims' = {c \in claims : c.dim # d}
  /\ UNCHANGED <<now, tick, queued, held, faults>>

Time ==
  /\ now < MaxTime /\ now' = now + 1
  /\ UNCHANGED <<next, tick, claims, queued, held, faults, resets>>

TickGoesOn(t) ==
  \/ ReadUnmaterialized(t) \/ ReadDue(t) \/ Gate(t) \/ TickEnd(t)
  \/ \E row \in tick[t].rows : UpdateRow(t, row)
  \/ \E l \in Lanes : EnqueueLane(t, l)

TicksNext ==
  \/ \E t \in Ticks : TickStart(t) \/ TickGoesOn(t) \/ TickThrows(t)
  \/ \E d \in Dims : Reset(d)
  \/ Crash \/ Time

TicksSpec == TicksInit /\ [][TicksNext]_tickVars

(* The cron fires every minute, and a tick that has started goes on.       *)
TicksFairSpec ==
  /\ TicksSpec
  /\ \A t \in Ticks : WF_tickVars(TickStart(t)) /\ WF_tickVars(TickGoesOn(t))

-----------------------------------------------------------------------------
(* A claim of a dimension covers the time from the fire it claims to the   *)
(* clock of its tick.  However ticks overlap and however slow they are, no *)
(* two claims of a dimension overlap: no fire is claimed twice, and fires  *)
(* missed during an outage are caught up by one claim, not one by one.     *)
ClaimsDoNotOverlap ==
  \A c, e \in claims :
    c # e /\ c.dim = e.dim => c.now < e.fire \/ e.now < c.fire

(* A claim advances the schedule before its job is queued, so a fault in   *)
(* between loses the fire.  Nothing else does: while nothing fails, every  *)
(* claim of a fire-now dimension is queued, held back by a gate or still   *)
(* in its tick's hands.                                                    *)
NothingLostWithoutFault ==
  faults = 0 =>
    \A c \in claims : c.dim \in FireNow =>
      c \in queued \cup held \cup UNION {tick[t].won : t \in Ticks}

(* A dimension that is due, or has no schedule yet, does not stay so, even *)
(* if another dimension's cronExpr is broken.                              *)
Waiting(d) == next[d] = Never \/ Due(d, now)
EveryDueIsClaimed ==
  \A d \in Dims \ BadCron : Waiting(d) ~> ~Waiting(d)
=============================================================================
