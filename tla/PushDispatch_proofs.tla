------------------------ MODULE PushDispatch_proofs ------------------------
(***************************************************************************)
(* Proofs about PushDispatch, for any rows, rounds and number of attempts. *)
(*                                                                         *)
(* Why do the calls to the gateway stay bounded although a round writes    *)
(* back a counter it read before?  Count with the calls made those that    *)
(* may still be made: the rounds that have taken a row and not called for  *)
(* it yet.  A call only moves one from the second kind to the first.  A    *)
(* round that overlaps another adds one and pays for it with a fault; what *)
(* a round knows of a row when it takes it (Accounted) stays true, so that *)
(* an old count it writes back is paid for as well.                        *)
(***************************************************************************)
EXTENDS PushDispatch, FiniteSetTheorems, WellFoundedInduction, TLAPS

Row == [status : Statuses \ {"none"}, account : Accounts, device : Devices,
        attempts : 0..MaxAttempts, wait : Nat]

Shapes ==
  /\ binding \in [Devices -> Accounts \cup {NoAccount}]
  /\ delivery \in [Rows -> Row \cup {NoDelivery}]
  /\ round \in [Rounds -> Round]
  /\ sends \in [Rows -> Nat] /\ accepted \in [Rows -> Nat]
  /\ faults \in 0..MaxFaults

(* A round that is idle has no rows; the rows of a round exist, were read  *)
(* with attempts to spare, and end before their device is unregistered.    *)
RoundsHold ==
  \A r \in Rounds :
    /\ (round[r].rows = {}) <=> (round[r].step = "idle")
    /\ round[r].step = "idle" => round[r] = Idle
    /\ \A d \in round[r].rows : /\ delivery[d] # NoDelivery
                                /\ round[r].snapshot[d] < MaxAttempts
    /\ round[r].step = "mark" => round[r].result \in Results
    /\ round[r].step = "unregister" => ~Pending(Head(r))

AttemptsToSpare == \A d \in Rows : Pending(d) =>
                     delivery[d].attempts < MaxAttempts

(* The rounds that may still call the gateway for a row.                   *)
MaySend(r, d) ==
  /\ d \in round[r].rows
  /\ ~(Head(r) = d /\ round[r].step \in {"mark", "unregister"})
Senders(d) == {r \in Rounds : MaySend(r, d)}
Calls(d) == sends[d] + Cardinality(Senders(d))
Held(d) == \E r \in Rounds : d \in round[r].rows

Accounted ==
  \A d \in Rows :
    /\ IsFiniteSet(Senders(d))
    /\ delivery[d] = NoDelivery => sends[d] = 0
    /\ Pending(d) => /\ Calls(d) <= delivery[d].attempts + 1 + faults
                     /\ ~Held(d) => sends[d] <= delivery[d].attempts + faults
    /\ \A r \in Rounds : d \in round[r].rows =>
         Calls(d) <= round[r].snapshot[d] + 1 + faults

PushInv ==
  /\ Shapes
  /\ RoundsHold
  /\ AttemptsToSpare
  /\ Accounted
  /\ SendsBounded

(* Without faults one round runs at a time, and what it has read is still  *)
(* what the table says.                                                    *)
OneRound ==
  \A q, r \in Rounds : round[q].rows # {} /\ round[r].rows # {} => q = r

Fresh(d) == accepted[d] = 0 /\ sends[d] = delivery[d].attempts

Called(r) ==
  LET d == Head(r)
  IN /\ sends[d] = delivery[d].attempts + 1
     /\ round[r].result \in {"ok", "invalid_target", "retryable"}
     /\ accepted[d] = IF round[r].result = "ok" THEN 1 ELSE 0

Settled(d) ==
  /\ accepted[d] = IF delivery[d].status = "SENT" THEN 1 ELSE 0
  /\ sends[d] = delivery[d].attempts +
       IF delivery[d].status \in {"SENT", "FAILED_INVALID"} THEN 1 ELSE 0

Knows(r, d) ==
  /\ Head(r) # d \/ round[r].step # "unregister" =>
       Pending(d) /\ round[r].snapshot[d] = delivery[d].attempts
  /\ Head(r) # d \/ round[r].step \in {"check", "send"} => Fresh(d)
  /\ Head(r) = d /\ round[r].step = "mark" =>
       \/ round[r].result = "unbound" /\ Fresh(d)
       \/ Called(r)
  /\ Head(r) = d /\ round[r].step = "unregister" => Settled(d)

InStep ==
  /\ OneRound
  /\ \A d \in Rows :
       /\ delivery[d] = NoDelivery => accepted[d] = 0
       /\ delivery[d] # NoDelivery /\ ~Held(d) => Settled(d)
  /\ \A r \in Rounds : \A d \in round[r].rows : Knows(r, d)

LedgerInv == PushInv /\ (faults = 0 => InStep)

-----------------------------------------------------------------------------
(* A round takes the rows it has one by one.                               *)
LEMMA HeadIsARow ==
  ASSUME NEW S \in SUBSET Nat, S # {}
  PROVE  Min(S) \in S
  <1> DEFINE R == {p \in Nat \X Nat : p[1] < p[2]}
  <1>1. OpToRel(<, Nat) = R
    BY DEF OpToRel
  <1>2. IsWellFoundedOn(R, Nat)
    BY <1>1, NatLessThanWellFounded
  <1>3. PICK x \in S : \A y \in S : ~(<<y, x>> \in R)
    BY <1>2, WFMin
  <1>4. ASSUME NEW y \in S PROVE x <= y
    <2>1. x \in Nat /\ y \in Nat
      OBVIOUS
    <2>2. y < x => <<y, x>> \in R
      BY <2>1
    <2> QED BY <1>3, <2>1, <2>2
  <1> QED BY <1>4 DEF Min

LEMMA HeadFacts ==
  ASSUME Shapes, NEW r \in Rounds
  PROVE  /\ round[r] \in Round /\ round[r].rows \subseteq Rows
         /\ round[r].snapshot \in [Rows -> 0..MaxAttempts]
         /\ round[r].rows # {} => Head(r) \in round[r].rows
                                  /\ Head(r) \in Rows
  <1>1. round[r] \in Round
    BY DEF Shapes
  <1>2. round[r].rows \subseteq Rows /\ Rows \subseteq Nat
    BY <1>1, PushAssumption DEF Round
  <1>3. round[r].snapshot \in [Rows -> 0..MaxAttempts]
    BY <1>1 DEF Round
  <1> QED BY <1>1, <1>2, <1>3, HeadIsARow DEF Head

LEMMA IdleIsRound ==
  /\ Idle \in Round /\ Idle.rows = {} /\ Idle.step = "idle"
  BY PushAssumption DEF Idle, Round

(* What each kind of step does to the round that takes it.                 *)
OthersStay(r) == \A q \in Rounds : q # r => round'[q] = round[q]

SnapshotStays(r) ==
  \A d \in round'[r].rows : round'[r].snapshot[d] = round[r].snapshot[d]

LEMMA NextRowFacts ==
  ASSUME Shapes, NEW r \in Rounds, round[r].rows # {}, NextRow(r)
  PROVE  /\ round' \in [Rounds -> Round] /\ OthersStay(r)
         /\ round'[r].rows = round[r].rows \ {Head(r)}
         /\ round'[r].step = IF round'[r].rows = {} THEN "idle" ELSE "check"
         /\ round'[r].step = "idle" => round'[r] = Idle
         /\ SnapshotStays(r)
  <1> DEFINE h == Head(r)
             rest == round[r].rows \ {h}
  <1>1. /\ round[r] \in Round /\ round \in [Rounds -> Round]
        /\ h \in Rows /\ rest \in SUBSET Rows
    BY HeadFacts DEF Shapes
  <1>2. /\ OthersStay(r)
        /\ rest = {} => round'[r] = Idle
        /\ rest # {} => round'[r] =
             [round[r] EXCEPT !.step = "check", !.rows = rest,
                              !.result = "none", !.snapshot[h] = 0]
    BY <1>1 DEF NextRow, OthersStay
  <1>b. rest = round[r].rows \ {h} /\ h = Head(r)
    OBVIOUS
  <1> HIDE DEF h, rest
  <1> DEFINE f == [round[r].snapshot EXCEPT ![h] = 0]
  <1>3. /\ f \in [Rows -> 0..MaxAttempts]
        /\ \A e \in Rows : e # h => f[e] = round[r].snapshot[e]
    BY <1>1, PushAssumption DEF Round
  <1>c. rest # {} => round'[r] =
          [round[r] EXCEPT !.step = "check", !.rows = rest,
                           !.result = "none", !.snapshot = f]
    BY <1>1, <1>2
  <1> HIDE DEF f
  <1>d. ASSUME NEW x, NEW z, x \in Round,
               z = [x EXCEPT !.step = "check", !.rows = rest,
                             !.result = "none", !.snapshot = f]
        PROVE  /\ z \in Round /\ z.step = "check" /\ z.rows = rest
               /\ z.snapshot = f
    BY <1>1, <1>3, <1>d DEF Round
  <1>4. CASE rest = {}
    <2>1. /\ round'[r] \in Round /\ round'[r].rows = {}
          /\ round'[r].step = "idle"
      BY <1>2, <1>4, IdleIsRound
    <2> QED BY <1>1, <1>2, <1>4, <1>b, <2>1
            DEF SnapshotStays, OthersStay, NextRow
  <1>5. CASE rest # {}
    <2>1. /\ round'[r] \in Round /\ round'[r].rows = rest
          /\ round'[r].step = "check"
          /\ \A e \in Rows : e # h =>
               round'[r].snapshot[e] = round[r].snapshot[e]
      <3>1. /\ round'[r] \in Round /\ round'[r].rows = rest
            /\ round'[r].step = "check" /\ round'[r].snapshot = f
        BY <1>1, <1>c, <1>d, <1>5
      <3> QED BY <1>3, <3>1
    <2>2. SnapshotStays(r)
      BY <1>1, <1>b, <2>1 DEF SnapshotStays
    <2> QED BY <1>1, <1>2, <1>5, <1>b, <2>1, <2>2 DEF OthersStay, NextRow
  <1> QED BY <1>4, <1>5

LEMMA StepToFacts ==
  ASSUME Shapes, NEW r \in Rounds, NEW y \in Round,
         y.rows = round[r].rows, y.snapshot = round[r].snapshot,
         round' = [round EXCEPT ![r] = y]
  PROVE  /\ round' \in [Rounds -> Round] /\ OthersStay(r)
         /\ round'[r].rows = round[r].rows /\ Head(r)' = Head(r)
         /\ round'[r] = y /\ SnapshotStays(r)
  <1>1. round[r] \in Round /\ round \in [Rounds -> Round]
    BY HeadFacts DEF Shapes
  <1>2. /\ round'[r] = y /\ OthersStay(r)
        /\ round' \in [Rounds -> Round]
    BY <1>1 DEF OthersStay
  <1> QED BY <1>2 DEF SnapshotStays, Head

(* How a step of one round changes the number of rounds that may send.     *)
LEMMA SendersMove ==
  ASSUME Shapes, NEW r \in Rounds, NEW d, OthersStay(r),
         IsFiniteSet(Senders(d))
  PROVE  /\ IsFiniteSet(Senders(d)')
         /\ Cardinality(Senders(d)) \in Nat /\ Cardinality(Senders(d)') \in Nat
         /\ (MaySend(r, d)' <=> MaySend(r, d)) =>
              Cardinality(Senders(d)') = Cardinality(Senders(d))
         /\ MaySend(r, d) /\ ~MaySend(r, d)' =>
              Cardinality(Senders(d)') = Cardinality(Senders(d)) - 1
         /\ ~MaySend(r, d) /\ MaySend(r, d)' =>
              Cardinality(Senders(d)') = Cardinality(Senders(d)) + 1
  <1>0. r \in Senders(d) <=> MaySend(r, d)
    BY DEF Senders
  <1>1. \A q \in Rounds : q # r => (MaySend(q, d)' <=> MaySend(q, d))
    BY DEF OthersStay, MaySend, Head
  <1>2. CASE MaySend(r, d)'
    <2>1. Senders(d)' = Senders(d) \cup {r}
      BY <1>1, <1>2 DEF Senders
    <2> QED BY <1>0, <1>2, <2>1, FS_AddElement, FS_CardinalityType
  <1>3. CASE ~MaySend(r, d)'
    <2>1. Senders(d)' = Senders(d) \ {r}
      BY <1>1, <1>3 DEF Senders
    <2> QED BY <1>0, <1>3, <2>1, FS_RemoveElement, FS_CardinalityType
  <1> QED BY <1>2, <1>3

-----------------------------------------------------------------------------
(* Steps of one round that leave the table alone keep the account.         *)
LEMMA RoundMoves ==
  ASSUME PushInv, Shapes', NEW r \in Rounds, OthersStay(r), UNCHANGED delivery,
         round'[r].rows \subseteq round[r].rows, SnapshotStays(r),
         (round'[r].rows = {}) <=> (round'[r].step = "idle"),
         round'[r].step = "idle" => round'[r] = Idle,
         round'[r].step = "mark" => round'[r].result \in Results,
         round'[r].step # "unregister",
         faults' \in {faults, faults + 1},
         \A d \in Rows : MaySend(r, d)' => MaySend(r, d),
         \A d \in Rows :
           \/ sends'[d] = sends[d]
           \/ /\ sends'[d] = sends[d] + 1
              /\ MaySend(r, d) /\ ~MaySend(r, d)',
         \A d \in round[r].rows \ round'[r].rows :
           Pending(d) => faults' = faults + 1
  PROVE  PushInv'
  <1>0. /\ Shapes /\ RoundsHold /\ AttemptsToSpare /\ Accounted /\ SendsBounded
        /\ faults \in Nat /\ MaxAttempts \in Nat
    BY PushAssumption DEF PushInv, Shapes
  <1>1. RoundsHold'
    BY <1>0 DEF RoundsHold, OthersStay, SnapshotStays, Pending, Head
  <1>2. AttemptsToSpare'
    BY <1>0 DEF AttemptsToSpare, Pending
  <1>3. ASSUME NEW d \in Rows
        PROVE  /\ IsFiniteSet(Senders(d)')
               /\ delivery'[d] = NoDelivery => sends'[d] = 0
               /\ Pending(d)' =>
                    /\ Calls(d)' <= delivery'[d].attempts + 1 + faults'
                    /\ ~Held(d)' =>
                         sends'[d] <= delivery'[d].attempts + faults'
               /\ \A q \in Rounds : d \in round'[q].rows =>
                    Calls(d)' <= round'[q].snapshot[d] + 1 + faults'
               /\ sends'[d] <= MaxAttempts + faults'
    <2> DEFINE N == Cardinality(Senders(d))
               M == Cardinality(Senders(d)')
    <2>1. /\ IsFiniteSet(Senders(d)') /\ N \in Nat /\ M \in Nat
          /\ (MaySend(r, d)' <=> MaySend(r, d)) => M = N
          /\ MaySend(r, d) /\ ~MaySend(r, d)' => M = N - 1
      BY <1>0, SendersMove DEF Accounted
    <2>2. /\ Calls(d) = sends[d] + N /\ Calls(d)' = sends'[d] + M
      BY DEF Calls
    <2> HIDE DEF N, M
    <2>3. /\ sends[d] \in Nat /\ sends'[d] \in Nat
          /\ Calls(d) \in Nat /\ Calls(d)' \in Nat
          /\ Calls(d)' <= Calls(d) /\ sends'[d] <= Calls(d)'
      <3>1. sends[d] \in Nat /\ sends'[d] \in Nat
        BY <1>0 DEF Shapes
      <3> QED BY <2>1, <2>2, <3>1
    <2>4. Pending(d) =>
            /\ delivery[d].attempts \in Nat
            /\ Calls(d) <= delivery[d].attempts + 1 + faults
            /\ ~Held(d) => sends[d] <= delivery[d].attempts + faults
      <3>1. Pending(d) => delivery[d].attempts \in Nat
        BY <1>0 DEF Shapes, Row, Pending, NoDelivery
      <3> QED BY <1>0, <3>1 DEF Accounted
    <2>5. ~Held(d) => sends'[d] = sends[d]
      BY DEF Held, MaySend
    <2>6. Held(d) /\ ~Held(d)' /\ Pending(d) => faults' = faults + 1
      BY DEF Held, OthersStay
    <2>7. Pending(d)' <=> Pending(d)
      BY DEF Pending
    <2>8. delivery'[d] = NoDelivery => sends'[d] = 0
      BY <1>0, <2>5 DEF Accounted, RoundsHold, Held
    <2>9. Pending(d)' =>
            /\ Calls(d)' <= delivery'[d].attempts + 1 + faults'
            /\ ~Held(d)' => sends'[d] <= delivery'[d].attempts + faults'
      BY <1>0, <2>3, <2>4, <2>5, <2>6, <2>7
    <2>10. \A q \in Rounds : d \in round'[q].rows =>
             Calls(d)' <= round'[q].snapshot[d] + 1 + faults'
      <3>1. ASSUME NEW q \in Rounds, d \in round'[q].rows
            PROVE  /\ d \in round[q].rows
                   /\ round'[q].snapshot[d] = round[q].snapshot[d]
        BY <3>1 DEF OthersStay, SnapshotStays
      <3>2. ASSUME NEW q \in Rounds, d \in round[q].rows
            PROVE  /\ round[q].snapshot[d] \in Nat
                   /\ Calls(d) <= round[q].snapshot[d] + 1 + faults
        BY <1>0, <3>2, HeadFacts DEF Accounted
      <3> QED BY <1>0, <2>3, <3>1, <3>2
    <2>11. sends'[d] <= MaxAttempts + faults'
      <3>1. CASE sends'[d] = sends[d]
        BY <1>0, <2>3, <3>1 DEF SendsBounded
      <3>2. CASE sends'[d] = sends[d] + 1 /\ MaySend(r, d) /\ ~MaySend(r, d)'
        <4>1. /\ d \in round[r].rows /\ round[r].snapshot[d] < MaxAttempts
              /\ round[r].snapshot[d] \in Nat
              /\ Calls(d) <= round[r].snapshot[d] + 1 + faults
          BY <1>0, <3>2, HeadFacts DEF MaySend, RoundsHold, Accounted
        <4> QED BY <1>0, <2>3, <4>1
      <3> QED BY <3>1, <3>2
    <2> QED BY <2>1, <2>8, <2>9, <2>10, <2>11
  <1>4. Accounted' /\ SendsBounded'
    BY <1>3 DEF Accounted, SendsBounded
  <1> QED BY <1>1, <1>2, <1>4 DEF PushInv

(* Steps of the table that start and end no attempt.                       *)
LEMMA SameAttempts ==
  ASSUME PushInv, Shapes', UNCHANGED <<round, sends, faults>>,
         \A d \in Rows :
           \/ /\ delivery'[d] = NoDelivery <=> delivery[d] = NoDelivery
              /\ Pending(d)' <=> Pending(d)
              /\ Pending(d) => delivery'[d].attempts = delivery[d].attempts
           \/ /\ delivery[d] = NoDelivery /\ delivery'[d] # NoDelivery
              /\ Pending(d)' /\ delivery'[d].attempts = 0
  PROVE  PushInv'
  <1>0. /\ Shapes /\ RoundsHold /\ AttemptsToSpare /\ Accounted /\ SendsBounded
        /\ faults \in Nat /\ MaxAttempts \in Nat \ {0}
    BY PushAssumption DEF PushInv, Shapes
  <1>1. ASSUME NEW d \in Rows
        PROVE  /\ Senders(d)' = Senders(d) /\ Calls(d)' = Calls(d)
               /\ Held(d)' = Held(d)
    BY DEF Senders, Calls, Held, MaySend, Head
  <1>2. RoundsHold'
    <2>1. ASSUME NEW r \in Rounds, round[r].step = "unregister"
          PROVE  ~Pending(Head(r))'
      <3>1. round[r].rows # {} /\ ~Pending(Head(r)) /\ Head(r)' = Head(r)
        BY <1>0, <2>1 DEF RoundsHold, Head
      <3>2. Head(r) \in round[r].rows /\ Head(r) \in Rows
        BY <1>0, <3>1, HeadFacts
      <3>3. delivery[Head(r)] # NoDelivery
        BY <1>0, <3>2 DEF RoundsHold
      <3> QED BY <3>1, <3>2, <3>3 DEF Pending
    <2>2. ASSUME NEW r \in Rounds, NEW d \in round[r].rows
          PROVE  delivery'[d] # NoDelivery
      BY <1>0, HeadFacts DEF RoundsHold
    <2> QED BY <1>0, <2>1, <2>2 DEF RoundsHold
  <1>3. AttemptsToSpare'
    BY <1>0 DEF AttemptsToSpare
  <1>4. ASSUME NEW d \in Rows, delivery[d] = NoDelivery
        PROVE  ~Held(d) /\ sends[d] = 0 /\ Calls(d) = 0
    <2>1. ~Held(d) /\ sends[d] = 0
      BY <1>0, <1>4 DEF Held, RoundsHold, Accounted
    <2>2. Senders(d) = {}
      BY <2>1 DEF Senders, MaySend, Held
    <2> QED BY <2>1, <2>2, FS_EmptySet DEF Calls
  <1>5. Accounted'
    BY <1>0, <1>1, <1>4 DEF Accounted
  <1>6. SendsBounded'
    BY <1>0 DEF SendsBounded
  <1> QED BY <1>2, <1>3, <1>5, <1>6 DEF PushInv

-----------------------------------------------------------------------------
(* Recording an outcome.                                                   *)
LEMMA RetryFacts ==
  ASSUME NEW prev \in Nat, prev < MaxAttempts
  PROVE  LET retry == nextRetryDecision(prev)
         IN /\ retry.attempts = prev + 1 /\ retry.attempts \in 0..MaxAttempts
            /\ retry.wait \in Nat
            /\ \/ retry.status = "FAILED"
               \/ retry.status = "PENDING" /\ prev + 1 < MaxAttempts
  BY PushAssumption DEF nextRetryDecision

LEMMA OutcomeFacts ==
  ASSUME NEW d \in Rows, delivery[d] \in Row, NEW res \in Results,
         NEW prev \in Nat, prev < MaxAttempts
  PROVE  LET new == Outcome(d, res, prev)
         IN /\ new \in Row
            /\ res = "unbound" => /\ new.status = "SKIPPED_UNBOUND"
                                  /\ new.attempts = delivery[d].attempts
            /\ res = "ok" => /\ new.status = "SENT"
                             /\ new.attempts = delivery[d].attempts
            /\ res = "invalid_target" =>
                 /\ new.status = "FAILED_INVALID"
                 /\ new.attempts = delivery[d].attempts
            /\ res = "retryable" =>
                 /\ new.attempts = prev + 1
                 /\ \/ new.status = "FAILED"
                    \/ new.status = "PENDING" /\ prev + 1 < MaxAttempts
  <1> DEFINE retry == nextRetryDecision(prev)
  <1>1. /\ retry.attempts = prev + 1 /\ retry.attempts \in 0..MaxAttempts
        /\ retry.wait \in Nat
        /\ \/ retry.status = "FAILED"
           \/ retry.status = "PENDING" /\ prev + 1 < MaxAttempts
    BY RetryFacts
  <1>2. Outcome(d, res, prev) =
          CASE res = "unbound" ->
                 [delivery[d] EXCEPT !.status = "SKIPPED_UNBOUND"]
            [] res = "ok" -> [delivery[d] EXCEPT !.status = "SENT"]
            [] res = "invalid_target" ->
                 [delivery[d] EXCEPT !.status = "FAILED_INVALID"]
            [] res = "retryable" ->
                 [delivery[d] EXCEPT !.status = retry.status,
                                     !.attempts = retry.attempts,
                                     !.wait = retry.wait]
    BY DEF Outcome
  <1> HIDE DEF retry
  <1>3. ASSUME NEW x, NEW y, NEW s, x \in Row, s \in Statuses \ {"none"},
               y = [x EXCEPT !.status = s]
        PROVE  y \in Row /\ y.status = s /\ y.attempts = x.attempts
    BY <1>3 DEF Row
  <1>4. ASSUME NEW x, NEW y, x \in Row,
               y = [x EXCEPT !.status = retry.status,
                             !.attempts = retry.attempts,
                             !.wait = retry.wait]
        PROVE  /\ y \in Row /\ y.status = retry.status
               /\ y.attempts = retry.attempts
    BY <1>1, <1>4 DEF Row, Statuses
  <1>5. CASE res = "unbound"
    <2>1. Outcome(d, res, prev) =
            [delivery[d] EXCEPT !.status = "SKIPPED_UNBOUND"]
      BY <1>2, <1>5
    <2> QED BY <1>3, <1>5, <2>1 DEF Statuses
  <1>6. CASE res = "ok"
    <2>1. Outcome(d, res, prev) = [delivery[d] EXCEPT !.status = "SENT"]
      BY <1>2, <1>6
    <2> QED BY <1>3, <1>6, <2>1 DEF Statuses
  <1>7. CASE res = "invalid_target"
    <2>1. Outcome(d, res, prev) =
            [delivery[d] EXCEPT !.status = "FAILED_INVALID"]
      BY <1>2, <1>7
    <2> QED BY <1>3, <1>7, <2>1 DEF Statuses
  <1>8. CASE res = "retryable"
    <2>1. Outcome(d, res, prev) =
            [delivery[d] EXCEPT !.status = retry.status,
                                !.attempts = retry.attempts,
                                !.wait = retry.wait]
      BY <1>2, <1>8
    <2> QED BY <1>1, <1>4, <1>8, <2>1
  <1> QED BY <1>5, <1>6, <1>7, <1>8 DEF Results

(* What Mark does to the row and to the round.                             *)
LEMMA MarkFacts ==
  ASSUME PushInv, NEW r \in Rounds, Mark(r)
  PROVE  LET h == Head(r)
             prev == round[r].snapshot[h]
             res == round[r].result
         IN /\ h \in round[r].rows /\ h \in Rows /\ prev \in Nat
            /\ prev < MaxAttempts /\ res \in Results
            /\ delivery' \in [Rows -> Row \cup {NoDelivery}]
            /\ delivery[h] \in Row /\ delivery'[h] \in Row
            /\ ~Pending(h) => delivery'[h] = delivery[h]
            /\ Pending(h) => delivery'[h] = Outcome(h, res, prev)
            /\ \A d \in Rows : d # h => delivery'[d] = delivery[d]
            /\ round' \in [Rounds -> Round] /\ OthersStay(r)
            /\ SnapshotStays(r)
            /\ \/ /\ res = "invalid_target" /\ round'[r].step = "unregister"
                  /\ round'[r].rows = round[r].rows /\ Head(r)' = h
               \/ /\ res # "invalid_target"
                  /\ round'[r].rows = round[r].rows \ {h}
                  /\ round'[r].step = IF round'[r].rows = {}
                                      THEN "idle" ELSE "check"
                  /\ round'[r].step = "idle" => round'[r] = Idle
  <1> DEFINE h == Head(r)
             prev == round[r].snapshot[h]
             res == round[r].result
  <1>0. Shapes /\ RoundsHold
    BY DEF PushInv
  <1>1. round[r].rows # {} /\ res \in Results
    BY <1>0 DEF Mark, RoundsHold
  <1>2. /\ h \in round[r].rows /\ h \in Rows /\ prev \in Nat
        /\ prev < MaxAttempts
    BY <1>0, <1>1, HeadFacts DEF RoundsHold
  <1>3. delivery[h] \in Row /\ delivery[h] # NoDelivery
    BY <1>0, <1>2 DEF RoundsHold, Shapes
  <1>4. Outcome(h, res, prev) \in Row
    BY <1>1, <1>2, <1>3, OutcomeFacts
  <1>5. delivery' = [delivery EXCEPT
          ![h] = IF Pending(h) THEN Outcome(h, res, prev) ELSE delivery[h]]
    BY DEF Mark, markPending
  <1>6. /\ delivery' \in [Rows -> Row \cup {NoDelivery}]
        /\ delivery'[h] \in Row
        /\ ~Pending(h) => delivery'[h] = delivery[h]
        /\ Pending(h) => delivery'[h] = Outcome(h, res, prev)
        /\ \A d \in Rows : d # h => delivery'[d] = delivery[d]
    <2> HIDE DEF h, prev, res
    <2> QED BY <1>0, <1>2, <1>3, <1>4, <1>5 DEF Shapes
  <1>7. CASE res = "invalid_target"
    <2> DEFINE y == [round[r] EXCEPT !.step = "unregister"]
    <2>1. round' = [round EXCEPT ![r] = y]
      BY <1>7 DEF Mark
    <2>2. ASSUME NEW x, NEW z, x \in Round,
                 z = [x EXCEPT !.step = "unregister"]
          PROVE  /\ z \in Round /\ z.step = "unregister"
                 /\ z.rows = x.rows /\ z.snapshot = x.snapshot
      BY <2>2 DEF Round
    <2>3. round[r] \in Round /\ y = [round[r] EXCEPT !.step = "unregister"]
      BY <1>0, HeadFacts
    <2> HIDE DEF y
    <2>4. /\ y \in Round /\ y.step = "unregister"
          /\ y.rows = round[r].rows /\ y.snapshot = round[r].snapshot
      BY <2>2, <2>3
    <2>5. /\ round' \in [Rounds -> Round] /\ OthersStay(r)
          /\ SnapshotStays(r) /\ round'[r] = y
          /\ round'[r].rows = round[r].rows /\ Head(r)' = Head(r)
      BY <1>0, <2>1, <2>4, StepToFacts
    <2> QED BY <1>1, <1>2, <1>3, <1>6, <1>7, <2>4, <2>5
  <1>8. CASE res # "invalid_target"
    <2>1. NextRow(r)
      BY <1>8 DEF Mark
    <2> QED BY <1>0, <1>1, <1>2, <1>3, <1>6, <1>8, <2>1, NextRowFacts
  <1> QED BY <1>7, <1>8

LEMMA MarkKeeps ==
  ASSUME PushInv, NEW r \in Rounds, Mark(r)
  PROVE  PushInv'
  <1> DEFINE h == Head(r)
             prev == round[r].snapshot[h]
             res == round[r].result
  <1>0. /\ Shapes /\ RoundsHold /\ AttemptsToSpare /\ Accounted /\ SendsBounded
        /\ faults \in Nat /\ MaxAttempts \in Nat
    BY PushAssumption DEF PushInv, Shapes
  <1>1. /\ round[r].step = "mark"
        /\ UNCHANGED <<binding, sends, accepted, faults>>
    BY DEF Mark, history
  <1>2. /\ h \in round[r].rows /\ h \in Rows /\ prev \in Nat
        /\ prev < MaxAttempts /\ res \in Results
        /\ delivery' \in [Rows -> Row \cup {NoDelivery}]
        /\ delivery[h] \in Row /\ delivery'[h] \in Row
        /\ ~Pending(h) => delivery'[h] = delivery[h]
        /\ Pending(h) => delivery'[h] = Outcome(h, res, prev)
        /\ \A d \in Rows : d # h => delivery'[d] = delivery[d]
        /\ round' \in [Rounds -> Round] /\ OthersStay(r) /\ SnapshotStays(r)
    BY MarkFacts
  <1>3. \/ /\ res = "invalid_target" /\ round'[r].step = "unregister"
           /\ round'[r].rows = round[r].rows /\ Head(r)' = h
        \/ /\ res # "invalid_target"
           /\ round'[r].rows = round[r].rows \ {h}
           /\ round'[r].step = IF round'[r].rows = {} THEN "idle" ELSE "check"
           /\ round'[r].step = "idle" => round'[r] = Idle
    BY MarkFacts
  <1>4. Shapes'
    BY <1>0, <1>1, <1>2 DEF Shapes
  <1>5. delivery'[h].status = "PENDING" =>
          /\ Pending(h) /\ res # "invalid_target"
          /\ delivery'[h].attempts = prev + 1 /\ prev + 1 < MaxAttempts
    BY <1>2, OutcomeFacts DEF Pending, Results
  <1>6. delivery'[h] # NoDelivery
    BY <1>2 DEF Row, NoDelivery
  <1>h. h = Head(r)
    OBVIOUS
  <1> HIDE DEF h, prev, res
  <1>7. ASSUME NEW d \in Rows
        PROVE  /\ IsFiniteSet(Senders(d)') /\ Calls(d)' = Calls(d)
               /\ Calls(d) \in Nat /\ sends[d] \in Nat /\ sends[d] <= Calls(d)
    <2>1. MaySend(r, d)' <=> MaySend(r, d)
      <3>1. MaySend(r, d) <=> d \in round[r].rows /\ d # h
        BY <1>1, <1>h DEF MaySend
      <3>2. MaySend(r, d)' <=> d \in round'[r].rows /\ d # h
        BY <1>3 DEF MaySend
      <3> QED BY <1>3, <3>1, <3>2
    <2>2. /\ IsFiniteSet(Senders(d)') /\ Cardinality(Senders(d)) \in Nat
          /\ Cardinality(Senders(d)') = Cardinality(Senders(d))
      BY <1>0, <1>2, <2>1, SendersMove DEF Accounted
    <2>3. sends[d] \in Nat
      BY <1>0 DEF Shapes
    <2> QED BY <1>1, <2>2, <2>3 DEF Calls
  <1>8. RoundsHold'
    <2>1. ASSUME NEW q \in Rounds, q # r
          PROVE  /\ (round'[q].rows = {}) <=> (round'[q].step = "idle")
                 /\ round'[q].step = "idle" => round'[q] = Idle
                 /\ \A d \in round'[q].rows :
                      /\ delivery'[d] # NoDelivery
                      /\ round'[q].snapshot[d] < MaxAttempts
                 /\ round'[q].step = "mark" => round'[q].result \in Results
                 /\ round'[q].step = "unregister" => ~Pending(Head(q))'
      <3>1. round'[q] = round[q] /\ Head(q)' = Head(q)
        BY <1>2, <2>1 DEF OthersStay, Head
      <3>2. \A d \in round[q].rows : d \in Rows /\ delivery'[d] # NoDelivery
        BY <1>0, <1>2, <1>6, HeadFacts DEF RoundsHold
      <3>3. round[q].step = "unregister" =>
              Head(q) \in Rows /\ ~Pending(Head(q))
        BY <1>0, HeadFacts DEF RoundsHold
      <3>4. \A d \in Rows : ~Pending(d) => ~(delivery'[d].status = "PENDING")
        BY <1>2, <1>5 DEF Pending
      <3> QED BY <1>0, <3>1, <3>2, <3>3, <3>4 DEF RoundsHold, Pending
    <2>2. /\ (round'[r].rows = {}) <=> (round'[r].step = "idle")
          /\ round'[r].step # "mark"
          /\ round'[r].step = "idle" => round'[r] = Idle
      BY <1>2, <1>3
    <2>3. \A d \in round'[r].rows : /\ delivery'[d] # NoDelivery
                                    /\ round'[r].snapshot[d] < MaxAttempts
      BY <1>0, <1>2, <1>3, <1>6, HeadFacts DEF RoundsHold, SnapshotStays
    <2>4. round'[r].step = "unregister" => ~Pending(Head(r))'
      BY <1>3, <1>5 DEF Pending
    <2> QED BY <2>1, <2>2, <2>3, <2>4 DEF RoundsHold
  <1>9. AttemptsToSpare'
    <2>1. ASSUME NEW d \in Rows, delivery'[d].status = "PENDING"
          PROVE  delivery'[d].attempts < MaxAttempts
      BY <1>0, <1>2, <1>5, <2>1 DEF AttemptsToSpare, Pending
    <2> QED BY <2>1 DEF AttemptsToSpare, Pending
  <1>10. ASSUME NEW d \in Rows
         PROVE  /\ delivery'[d] = NoDelivery => sends'[d] = 0
                /\ delivery'[d].status = "PENDING" =>
                     /\ Calls(d)' <= delivery'[d].attempts + 1 + faults'
                     /\ ~Held(d)' =>
                          sends'[d] <= delivery'[d].attempts + faults'
                /\ \A q \in Rounds : d \in round'[q].rows =>
                     Calls(d)' <= round'[q].snapshot[d] + 1 + faults'
    <2>1. delivery'[d] = NoDelivery => sends'[d] = 0
      BY <1>0, <1>1, <1>2, <1>6 DEF Accounted
    <2>2. \A q \in Rounds : d \in round'[q].rows =>
            Calls(d)' <= round'[q].snapshot[d] + 1 + faults'
      BY <1>0, <1>1, <1>2, <1>3, <1>7
      DEF Accounted, OthersStay, SnapshotStays
    <2>3. CASE d = h
      <3>1. Calls(d) <= prev + 1 + faults
        BY <1>0, <1>2, <1>h, <2>3 DEF Accounted, prev
      <3> QED BY <1>0, <1>1, <1>2, <1>5, <1>7, <2>1, <2>2, <2>3, <3>1
    <2>4. CASE d # h
      <3>1. Held(d)' <=> Held(d)
        BY <1>2, <1>3, <2>4 DEF Held, OthersStay
      <3>2. delivery'[d] = delivery[d]
        BY <1>2, <2>4
      <3> QED BY <1>0, <1>1, <1>7, <2>1, <2>2, <3>1, <3>2
              DEF Accounted, Pending
    <2> QED BY <2>3, <2>4
  <1>11. Accounted'
    BY <1>7, <1>10 DEF Accounted, Pending
  <1>12. SendsBounded'
    BY <1>0, <1>1 DEF SendsBounded
  <1> QED BY <1>4, <1>8, <1>9, <1>11, <1>12 DEF PushInv

-----------------------------------------------------------------------------
(* A round starts: alone, or over another and at the price of a fault.     *)
LEMMA StartFacts ==
  ASSUME PushInv, NEW r \in Rounds, StartRound(r)
  PROVE  /\ round[r].rows = {} /\ OthersStay(r)
         /\ round' \in [Rounds -> Round]
         /\ round'[r].rows = Due /\ round'[r].step = "check" /\ Due # {}
         /\ Due \subseteq Rows
         /\ \A d \in Due : round'[r].snapshot[d] = delivery[d].attempts
         /\ \/ faults' = faults /\ \A q \in Rounds : round[q].rows = {}
            \/ faults' = faults + 1
         /\ faults' \in 0..MaxFaults
  <1> DEFINE snap == [d \in Rows |-> IF d \in Due THEN delivery[d].attempts
                                     ELSE 0]
             y == [step |-> "check", rows |-> Due, result |-> "none",
                   snapshot |-> snap]
  <1>0. Shapes /\ RoundsHold
    BY DEF PushInv
  <1>1. Due \subseteq Rows /\ Due # {} /\ round[r].rows = {}
    BY IdleIsRound DEF StartRound, Due
  <1>2. snap \in [Rows -> 0..MaxAttempts]
    <2>1. \A d \in Due : delivery[d].attempts \in 0..MaxAttempts
      BY <1>0 DEF Shapes, Due, Pending, Row, NoDelivery
    <2> QED BY <2>1, PushAssumption
  <1>3. \A d \in Due : snap[d] = delivery[d].attempts
    BY <1>1
  <1>4. round' = [round EXCEPT ![r] = y]
    BY DEF StartRound
  <1> HIDE DEF snap
  <1>5. /\ y \in Round /\ y.step = "check" /\ y.rows = Due
        /\ y.snapshot = snap
    BY <1>1, <1>2 DEF Round
  <1> HIDE DEF y
  <1>6. round'[r] = y /\ OthersStay(r) /\ round' \in [Rounds -> Round]
    BY <1>0, <1>4, <1>5 DEF Shapes, OthersStay
  <1>7. /\ \/ faults' = faults /\ \A q \in Rounds : round[q].rows = {}
           \/ faults' = faults + 1
        /\ faults' \in 0..MaxFaults
    BY <1>0, IdleIsRound, PushAssumption DEF StartRound, Fault, Shapes
  <1> QED BY <1>1, <1>3, <1>5, <1>6, <1>7

LEMMA StartKeeps ==
  ASSUME PushInv, NEW r \in Rounds, StartRound(r)
  PROVE  PushInv'
  <1>0. /\ Shapes /\ RoundsHold /\ AttemptsToSpare /\ Accounted /\ SendsBounded
        /\ faults \in Nat /\ MaxAttempts \in Nat
    BY PushAssumption DEF PushInv, Shapes
  <1>1. UNCHANGED <<binding, delivery, sends, accepted>>
    BY DEF StartRound, history
  <1>2. /\ round[r].rows = {} /\ OthersStay(r)
        /\ round' \in [Rounds -> Round]
        /\ round'[r].rows = Due /\ round'[r].step = "check" /\ Due # {}
        /\ Due \subseteq Rows
        /\ \A d \in Due : round'[r].snapshot[d] = delivery[d].attempts
        /\ \/ faults' = faults /\ \A q \in Rounds : round[q].rows = {}
           \/ faults' = faults + 1
        /\ faults' \in 0..MaxFaults
    BY StartFacts
  <1>3. Shapes'
    BY <1>0, <1>1, <1>2 DEF Shapes
  <1>4. /\ \A d \in Rows : Pending(d) => /\ delivery[d].attempts \in Nat
                                         /\ delivery[d].attempts < MaxAttempts
        /\ \A d \in Due : Pending(d) /\ delivery[d] # NoDelivery
    BY <1>0 DEF AttemptsToSpare, Shapes, Row, Pending, NoDelivery, Due
  <1>5. RoundsHold'
    <2>1. ASSUME NEW q \in Rounds, q # r
          PROVE  round'[q] = round[q] /\ Head(q)' = Head(q)
      BY <1>2, <2>1 DEF OthersStay, Head
    <2>2. \A d \in Due : /\ delivery'[d] # NoDelivery
                         /\ round'[r].snapshot[d] < MaxAttempts
      BY <1>1, <1>2, <1>4
    <2> QED BY <1>0, <1>1, <1>2, <2>1, <2>2 DEF RoundsHold, Pending
  <1>6. AttemptsToSpare' /\ \A d : Pending(d)' <=> Pending(d)
    BY <1>0, <1>1 DEF AttemptsToSpare, Pending
  <1>7. ASSUME NEW d \in Rows
        PROVE  /\ IsFiniteSet(Senders(d)') /\ Calls(d) \in Nat
               /\ sends[d] \in Nat /\ sends[d] <= Calls(d)
               /\ Calls(d)' = IF d \in Due THEN Calls(d) + 1 ELSE Calls(d)
               /\ (\A q \in Rounds : round[q].rows = {}) => Calls(d) = sends[d]
    <2>1. ~MaySend(r, d) /\ (MaySend(r, d)' <=> d \in Due)
      BY <1>2 DEF MaySend
    <2>2. /\ IsFiniteSet(Senders(d)') /\ Cardinality(Senders(d)) \in Nat
          /\ Cardinality(Senders(d)') =
               IF d \in Due THEN Cardinality(Senders(d)) + 1
               ELSE Cardinality(Senders(d))
      BY <1>0, <1>2, <2>1, SendersMove DEF Accounted
    <2>3. sends[d] \in Nat
      BY <1>0 DEF Shapes
    <2>4. ASSUME \A q \in Rounds : round[q].rows = {}
          PROVE  Cardinality(Senders(d)) = 0
      <3>1. Senders(d) = {}
        BY <2>4 DEF Senders, MaySend
      <3> QED BY <3>1, FS_EmptySet
    <2> QED BY <1>1, <2>2, <2>3, <2>4 DEF Calls
  <1>8. ASSUME NEW d \in Rows
        PROVE  /\ delivery'[d] = NoDelivery => sends'[d] = 0
               /\ Pending(d) =>
                    /\ Calls(d)' <= delivery'[d].attempts + 1 + faults'
                    /\ ~Held(d)' =>
                         sends'[d] <= delivery'[d].attempts + faults'
               /\ \A q \in Rounds : d \in round'[q].rows =>
                    Calls(d)' <= round'[q].snapshot[d] + 1 + faults'
    <2>1. /\ delivery[d] = NoDelivery => sends[d] = 0
          /\ Pending(d) =>
               /\ Calls(d) <= delivery[d].attempts + 1 + faults
               /\ ~Held(d) => sends[d] <= delivery[d].attempts + faults
      BY <1>0 DEF Accounted
    <2>2. ~Held(d)' => d \notin Due /\ ~Held(d)
      BY <1>2 DEF Held, OthersStay
    <2>3. (\A q \in Rounds : round[q].rows = {}) => ~Held(d)
      BY DEF Held
    <2>4. Pending(d) =>
            /\ Calls(d)' <= delivery[d].attempts + 1 + faults'
            /\ ~Held(d)' => sends[d] <= delivery[d].attempts + faults'
      BY <1>0, <1>2, <1>4, <1>7, <2>1, <2>2, <2>3
    <2>5. ASSUME NEW q \in Rounds, d \in round'[q].rows
          PROVE  Calls(d)' <= round'[q].snapshot[d] + 1 + faults'
      <3>1. CASE q = r
        <4>1. d \in Due /\ Pending(d)
          BY <1>2, <1>4, <2>5, <3>1
        <4> QED BY <1>2, <2>4, <3>1, <4>1
      <3>2. CASE q # r
        <4>1. round'[q] = round[q] /\ faults' = faults + 1
          BY <1>2, <2>5, <3>2 DEF OthersStay
        <4>2. /\ Calls(d) <= round[q].snapshot[d] + 1 + faults
              /\ round[q].snapshot[d] \in Nat
          BY <1>0, <2>5, <4>1, HeadFacts DEF Accounted
        <4> QED BY <1>0, <1>7, <4>1, <4>2
      <3> QED BY <3>1, <3>2
    <2> QED BY <1>1, <2>1, <2>4, <2>5
  <1>9. Accounted'
    BY <1>6, <1>7, <1>8 DEF Accounted
  <1>10. SendsBounded'
    BY <1>0, <1>1, <1>2 DEF SendsBounded, Shapes
  <1> QED BY <1>3, <1>5, <1>6, <1>9, <1>10 DEF PushInv

-----------------------------------------------------------------------------
(* The other steps of a round.                                             *)
LEMMA CheckFacts ==
  ASSUME Shapes, NEW r \in Rounds, round[r].rows # {}, CheckBinding(r)
  PROVE  /\ round' \in [Rounds -> Round] /\ OthersStay(r)
         /\ round'[r].rows = round[r].rows /\ Head(r)' = Head(r)
         /\ SnapshotStays(r) /\ round[r].step = "check"
         /\ \/ round'[r].step = "send"
            \/ round'[r].step = "mark" /\ round'[r].result = "unbound"
  <1>1. round[r] \in Round /\ round[r].step = "check"
    BY HeadFacts DEF CheckBinding
  <1>2. ASSUME NEW x, NEW z, x \in Round, z = [x EXCEPT !.step = "send"]
        PROVE  /\ z \in Round /\ z.step = "send"
               /\ z.rows = x.rows /\ z.snapshot = x.snapshot
    BY <1>2 DEF Round
  <1>3. ASSUME NEW x, NEW z, x \in Round,
               z = [x EXCEPT !.step = "mark", !.result = "unbound"]
        PROVE  /\ z \in Round /\ z.step = "mark" /\ z.result = "unbound"
               /\ z.rows = x.rows /\ z.snapshot = x.snapshot
    BY <1>3 DEF Round, Results
  <1>4. CASE binding[delivery[Head(r)].device] = delivery[Head(r)].account
    <2> DEFINE y == [round[r] EXCEPT !.step = "send"]
    <2>1. round' = [round EXCEPT ![r] = y]
      BY <1>4 DEF CheckBinding
    <2>2. y = [round[r] EXCEPT !.step = "send"]
      OBVIOUS
    <2> HIDE DEF y
    <2>3. /\ y \in Round /\ y.step = "send"
          /\ y.rows = round[r].rows /\ y.snapshot = round[r].snapshot
      BY <1>1, <1>2, <2>2
    <2> QED BY <1>1, <2>1, <2>3, StepToFacts
  <1>5. CASE binding[delivery[Head(r)].device] # delivery[Head(r)].account
    <2> DEFINE y == [round[r] EXCEPT !.step = "mark", !.result = "unbound"]
    <2>1. round' = [round EXCEPT ![r] = y]
      BY <1>5 DEF CheckBinding
    <2>2. y = [round[r] EXCEPT !.step = "mark", !.result = "unbound"]
      OBVIOUS
    <2> HIDE DEF y
    <2>3. /\ y \in Round /\ y.step = "mark" /\ y.result = "unbound"
          /\ y.rows = round[r].rows /\ y.snapshot = round[r].snapshot
      BY <1>1, <1>3, <2>2
    <2> QED BY <1>1, <2>1, <2>3, StepToFacts
  <1> QED BY <1>4, <1>5

LEMMA AnsweredFacts ==
  ASSUME Shapes, NEW r \in Rounds, NEW v \in Results, round[r].rows # {},
         Answered(r, v)
  PROVE  /\ round' \in [Rounds -> Round] /\ OthersStay(r)
         /\ round'[r].rows = round[r].rows /\ Head(r)' = Head(r)
         /\ SnapshotStays(r) /\ round[r].step = "send"
         /\ round'[r].step = "mark" /\ round'[r].result = v
         /\ sends' \in [Rows -> Nat]
         /\ sends'[Head(r)] = sends[Head(r)] + 1
         /\ \A d \in Rows : d # Head(r) => sends'[d] = sends[d]
  <1>1. /\ round[r] \in Round /\ round[r].step = "send"
        /\ Head(r) \in Rows /\ round \in [Rounds -> Round]
    BY HeadFacts DEF Answered, Shapes
  <1>2. ASSUME NEW x, NEW z, x \in Round,
               z = [x EXCEPT !.step = "mark", !.result = v]
        PROVE  /\ z \in Round /\ z.step = "mark" /\ z.result = v
               /\ z.rows = x.rows /\ z.snapshot = x.snapshot
    BY <1>2 DEF Round
  <1> DEFINE y == [round[r] EXCEPT !.step = "mark", !.result = v]
  <1>3. round' = [round EXCEPT ![r] = y]
    BY <1>1 DEF Answered
  <1>4. y = [round[r] EXCEPT !.step = "mark", !.result = v]
    OBVIOUS
  <1> HIDE DEF y
  <1>5. /\ y \in Round /\ y.step = "mark" /\ y.result = v
        /\ y.rows = round[r].rows /\ y.snapshot = round[r].snapshot
    BY <1>1, <1>2, <1>4
  <1>6. /\ sends' \in [Rows -> Nat]
        /\ sends'[Head(r)] = sends[Head(r)] + 1
        /\ \A d \in Rows : d # Head(r) => sends'[d] = sends[d]
    <2> DEFINE h == Head(r)
    <2>1. h \in Rows /\ sends \in [Rows -> Nat]
          /\ sends' = [sends EXCEPT ![h] = @ + 1]
      BY <1>1 DEF Answered, Shapes
    <2> HIDE DEF h
    <2>2. /\ sends' \in [Rows -> Nat] /\ sends'[h] = sends[h] + 1
          /\ \A d \in Rows : d # h => sends'[d] = sends[d]
      BY <2>1
    <2> QED BY <2>2 DEF h
  <1> QED BY <1>1, <1>3, <1>5, <1>6, StepToFacts

LEMMA CheckKeeps ==
  ASSUME PushInv, NEW r \in Rounds, CheckBinding(r)
  PROVE  PushInv'
  <1>0. Shapes /\ RoundsHold
    BY DEF PushInv
  <1>1. /\ round[r].step = "check" /\ round[r].rows # {}
        /\ UNCHANGED <<binding, delivery, sends, accepted, faults>>
    BY <1>0 DEF CheckBinding, RoundsHold, history
  <1>2. /\ round' \in [Rounds -> Round] /\ OthersStay(r)
        /\ round'[r].rows = round[r].rows /\ Head(r)' = Head(r)
        /\ SnapshotStays(r)
        /\ \/ round'[r].step = "send"
           \/ round'[r].step = "mark" /\ round'[r].result = "unbound"
    BY <1>0, <1>1, CheckFacts
  <1>3. Shapes'
    BY <1>0, <1>1, <1>2 DEF Shapes
  <1>4. \A d \in Rows : MaySend(r, d)' => MaySend(r, d)
    BY <1>1, <1>2 DEF MaySend
  <1> QED BY <1>1, <1>2, <1>3, <1>4, RoundMoves DEF Results

LEMMA AnsweredKeeps ==
  ASSUME PushInv, NEW r \in Rounds, Send(r) \/ AnswerLost(r)
  PROVE  PushInv'
  <1>0. Shapes /\ RoundsHold /\ faults \in Nat
    BY PushAssumption DEF PushInv, Shapes
  <1>1. PICK v \in Results :
          /\ Answered(r, v)
          /\ accepted' = accepted
               \/ accepted' = [accepted EXCEPT ![Head(r)] = @ + 1]
          /\ faults' = faults \/ (faults' = faults + 1 /\ faults < MaxFaults)
    BY DEF Send, AnswerLost, Results, Fault
  <1>2. /\ round[r].step = "send" /\ round[r].rows # {}
        /\ UNCHANGED <<binding, delivery>>
    BY <1>0, <1>1 DEF Answered, RoundsHold
  <1>3. /\ round' \in [Rounds -> Round] /\ OthersStay(r)
        /\ round'[r].rows = round[r].rows /\ Head(r)' = Head(r)
        /\ SnapshotStays(r) /\ round'[r].step = "mark" /\ round'[r].result = v
        /\ sends' \in [Rows -> Nat]
        /\ sends'[Head(r)] = sends[Head(r)] + 1
        /\ \A d \in Rows : d # Head(r) => sends'[d] = sends[d]
    BY <1>0, <1>1, <1>2, AnsweredFacts
  <1>4. accepted' \in [Rows -> Nat]
    <2> DEFINE h == Head(r)
    <2>1. accepted' = accepted \/ accepted' = [accepted EXCEPT ![h] = @ + 1]
      BY <1>1
    <2> HIDE DEF h
    <2> QED BY <1>0, <2>1 DEF Shapes
  <1>5. faults' \in 0..MaxFaults /\ faults' \in {faults, faults + 1}
    BY <1>0, <1>1, PushAssumption DEF Shapes
  <1>6. Shapes'
    BY <1>0, <1>2, <1>3, <1>4, <1>5 DEF Shapes
  <1>7. \A d \in Rows : MaySend(r, d)' => MaySend(r, d)
    BY <1>2, <1>3 DEF MaySend
  <1>8. \A d \in Rows : \/ sends'[d] = sends[d]
                        \/ /\ sends'[d] = sends[d] + 1
                           /\ MaySend(r, d) /\ ~MaySend(r, d)'
    <2>1. MaySend(r, Head(r)) /\ ~MaySend(r, Head(r))'
      BY <1>0, <1>2, <1>3, HeadFacts DEF MaySend
    <2>2. ASSUME NEW d \in Rows, d = Head(r)
          PROVE  MaySend(r, d) /\ ~MaySend(r, d)'
      BY <1>0, <1>2, <1>3, <2>2, HeadFacts DEF MaySend
    <2> QED BY <1>3, <2>2
  <1> QED BY <1>2, <1>3, <1>5, <1>6, <1>7, <1>8, RoundMoves

(* A row is let go: its outcome is recorded, or a fault is spent on it.    *)
LEMMA LetGoKeeps ==
  ASSUME PushInv, NEW r \in Rounds, Unregister(r) \/ RowThrows(r)
  PROVE  PushInv'
  <1>0. Shapes /\ RoundsHold /\ faults \in Nat
    BY PushAssumption DEF PushInv, Shapes
  <1>1. /\ round[r].step # "send" /\ round[r].rows # {} /\ NextRow(r)
        /\ UNCHANGED <<delivery, sends, accepted>>
        /\ binding' \in [Devices -> Accounts \cup {NoAccount}]
        /\ \/ round[r].step = "unregister" /\ faults' = faults
           \/ faults' = faults + 1 /\ faults < MaxFaults
    <2>1. CASE Unregister(r)
      <3> DEFINE v == delivery[Head(r)].device
      <3>1. binding' = [binding EXCEPT ![v] = NoAccount]
        BY <2>1 DEF Unregister
      <3> HIDE DEF v
      <3>2. binding' \in [Devices -> Accounts \cup {NoAccount}]
        BY <1>0, <3>1 DEF Shapes
      <3> QED BY <1>0, <2>1, <3>2 DEF Unregister, RoundsHold, history
    <2>2. CASE RowThrows(r)
      <3>1. round[r].rows # {}
        <4>1. round[r].step # "idle"
          BY <1>0, <2>2 DEF RowThrows, RoundsHold
        <4> QED BY <1>0, <4>1 DEF RoundsHold
      <3> QED BY <1>0, <2>2, <3>1 DEF RowThrows, Shapes, history, Fault
    <2> QED BY <2>1, <2>2
  <1>2. /\ round' \in [Rounds -> Round] /\ OthersStay(r)
        /\ round'[r].rows = round[r].rows \ {Head(r)}
        /\ round'[r].step = IF round'[r].rows = {} THEN "idle" ELSE "check"
        /\ round'[r].step = "idle" => round'[r] = Idle
        /\ SnapshotStays(r)
    BY <1>0, <1>1, NextRowFacts
  <1>3. faults' \in 0..MaxFaults /\ faults' \in {faults, faults + 1}
    BY <1>0, <1>1, PushAssumption DEF Shapes
  <1>4. Shapes'
    BY <1>0, <1>1, <1>2, <1>3 DEF Shapes
  <1>5. \A d \in Rows : MaySend(r, d)' => MaySend(r, d)
    BY <1>2 DEF MaySend
  <1>6. \A d \in round[r].rows \ round'[r].rows :
          Pending(d) => faults' = faults + 1
    BY <1>0, <1>1, <1>2 DEF RoundsHold
  <1> QED BY <1>1, <1>2, <1>3, <1>4, <1>5, <1>6, RoundMoves

LEMMA CrashKeeps ==
  ASSUME PushInv, NEW r \in Rounds, Crash(r)
  PROVE  PushInv'
  <1>0. Shapes /\ faults \in Nat
    BY PushAssumption DEF PushInv, Shapes
  <1>1. /\ UNCHANGED <<binding, delivery, sends, accepted>>
        /\ faults' = faults + 1 /\ faults < MaxFaults
        /\ round' = [round EXCEPT ![r] = Idle]
    BY DEF Crash, history, Fault
  <1>2. /\ round' \in [Rounds -> Round] /\ OthersStay(r)
        /\ round'[r] = Idle
    BY <1>0, <1>1, IdleIsRound DEF Shapes, OthersStay
  <1>3. /\ round'[r].rows = {} /\ round'[r].step = "idle"
        /\ SnapshotStays(r)
    BY <1>2, IdleIsRound DEF SnapshotStays
  <1>4. Shapes'
    BY <1>0, <1>1, <1>2, PushAssumption DEF Shapes
  <1>5. \A d \in Rows : MaySend(r, d)' => MaySend(r, d)
    BY <1>3 DEF MaySend
  <1> QED BY <1>1, <1>2, <1>3, <1>4, <1>5, RoundMoves

-----------------------------------------------------------------------------
(* Steps that are not a round's.                                           *)
LEMMA FanOutFacts ==
  ASSUME Shapes, NEW a \in Accounts, FanOut(a)
  PROVE  /\ delivery' \in [Rows -> Row \cup {NoDelivery}]
         /\ UNCHANGED <<binding, round, sends, accepted, faults>>
         /\ \A d \in Rows :
              \/ delivery'[d] = delivery[d]
              \/ /\ delivery[d] = NoDelivery /\ delivery'[d] \in Row
                 /\ delivery'[d].status = "PENDING"
                 /\ delivery'[d].attempts = 0
  <1> DEFINE bound == {v \in Devices : binding[v] = a}
             free == {d \in Rows : delivery[d] = NoDelivery}
  <1>0. PICK fresh \in kSubset(Cardinality(bound), free) :
          \E to \in [fresh -> bound] :
            delivery' = [d \in Rows |->
              IF d \notin fresh THEN delivery[d]
              ELSE [status |-> "PENDING", account |-> a, device |-> to[d],
                    attempts |-> 0, wait |-> 0]]
    BY DEF FanOut
  <1>1. PICK to \in [fresh -> bound] :
          delivery' = [d \in Rows |->
            IF d \notin fresh THEN delivery[d]
            ELSE [status |-> "PENDING", account |-> a, device |-> to[d],
                  attempts |-> 0, wait |-> 0]]
    BY <1>0
  <1>2. fresh \subseteq free
    BY DEF kSubset
  <1>3. \A d \in fresh : to[d] \in Devices
    OBVIOUS
  <1>4. ASSUME NEW v \in Devices
        PROVE  [status |-> "PENDING", account |-> a, device |-> v,
                attempts |-> 0, wait |-> 0] \in Row
    BY PushAssumption DEF Row, Statuses
  <1>5. ASSUME NEW d \in Rows
        PROVE  /\ \/ delivery'[d] = delivery[d]
                  \/ /\ delivery[d] = NoDelivery /\ delivery'[d] \in Row
                     /\ delivery'[d].status = "PENDING"
                     /\ delivery'[d].attempts = 0
    <2>1. CASE d \in fresh
      <3>1. delivery'[d] = [status |-> "PENDING", account |-> a,
                            device |-> to[d], attempts |-> 0, wait |-> 0]
        BY <1>1, <2>1
      <3>2. delivery[d] = NoDelivery /\ to[d] \in Devices
        BY <1>2, <1>3, <2>1
      <3>3. delivery'[d] \in Row
        BY <1>4, <3>1, <3>2
      <3> QED BY <3>1, <3>2, <3>3
    <2>2. CASE d \notin fresh
      BY <1>1, <2>2
    <2> QED BY <2>1, <2>2
  <1>6. delivery' = [d \in Rows |-> delivery'[d]]
    BY <1>1
  <1>7. \A d \in Rows : delivery'[d] \in Row \cup {NoDelivery}
    BY <1>5 DEF Shapes
  <1>8. delivery' \in [Rows -> Row \cup {NoDelivery}]
    BY <1>6, <1>7
  <1> QED BY <1>5, <1>8 DEF FanOut, history

LEMMA TickFacts ==
  ASSUME Shapes, Tick
  PROVE  /\ delivery' \in [Rows -> Row \cup {NoDelivery}]
         /\ UNCHANGED <<binding, round, sends, accepted, faults>>
         /\ \A d \in Rows :
              \/ delivery'[d] = delivery[d]
              \/ /\ Pending(d) /\ delivery'[d] \in Row
                 /\ delivery'[d].status = "PENDING"
                 /\ delivery'[d].attempts = delivery[d].attempts
  <1>1. delivery' = [d \in Rows |-> IF Pending(d) /\ delivery[d].wait > 0
                                    THEN [delivery[d] EXCEPT !.wait = @ - 1]
                                    ELSE delivery[d]]
    BY DEF Tick
  <1>2. ASSUME NEW x, NEW y, x \in Row, x.wait > 0,
               y = [x EXCEPT !.wait = x.wait - 1]
        PROVE  /\ y \in Row /\ y.status = x.status
               /\ y.attempts = x.attempts
    BY <1>2 DEF Row
  <1>3. ASSUME NEW d \in Rows
        PROVE  \/ delivery'[d] = delivery[d]
               \/ /\ Pending(d) /\ delivery'[d] \in Row
                  /\ delivery'[d].status = "PENDING"
                  /\ delivery'[d].attempts = delivery[d].attempts
    <2>1. CASE Pending(d) /\ delivery[d].wait > 0
      <3>1. delivery'[d] = [delivery[d] EXCEPT !.wait = delivery[d].wait - 1]
        BY <1>1, <2>1
      <3>2. delivery[d] \in Row
        BY <2>1 DEF Shapes, Pending, NoDelivery
      <3>3. /\ delivery'[d] \in Row
            /\ delivery'[d].status = delivery[d].status
            /\ delivery'[d].attempts = delivery[d].attempts
        BY <1>2, <2>1, <3>1, <3>2
      <3> QED BY <2>1, <3>3 DEF Pending
    <2>2. CASE ~(Pending(d) /\ delivery[d].wait > 0)
      BY <1>1, <2>2
    <2> QED BY <2>1, <2>2
  <1>4. delivery' = [d \in Rows |-> delivery'[d]]
    BY <1>1
  <1>5. \A d \in Rows : delivery'[d] \in Row \cup {NoDelivery}
    BY <1>3 DEF Shapes
  <1>6. delivery' \in [Rows -> Row \cup {NoDelivery}]
    BY <1>4, <1>5
  <1> QED BY <1>3, <1>6 DEF Tick, history

LEMMA RowsAreRows ==
  /\ NoDelivery \notin Row /\ NoDelivery.status = "none"
  /\ \A x \in Row : x.status # "none"
  BY DEF Row, NoDelivery

LEMMA TableKeeps ==
  ASSUME PushInv, Tick \/ \E a \in Accounts : FanOut(a)
  PROVE  PushInv'
  <1>0. Shapes
    BY DEF PushInv
  <1>1. /\ delivery' \in [Rows -> Row \cup {NoDelivery}]
        /\ UNCHANGED <<binding, round, sends, accepted, faults>>
    BY <1>0, TickFacts, FanOutFacts
  <1>2. Shapes'
    BY <1>0, <1>1 DEF Shapes
  <1>3. \A d \in Rows :
          \/ delivery'[d] = delivery[d]
          \/ /\ delivery[d] = NoDelivery /\ delivery'[d] # NoDelivery
             /\ Pending(d)' /\ delivery'[d].attempts = 0
          \/ /\ Pending(d) /\ delivery'[d] # NoDelivery /\ Pending(d)'
             /\ delivery[d] # NoDelivery
             /\ delivery'[d].attempts = delivery[d].attempts
    BY <1>0, TickFacts, FanOutFacts, RowsAreRows DEF Pending
  <1> QED BY <1>1, <1>2, <1>3, SameAttempts DEF Pending

LEMMA BindingKeeps ==
  ASSUME PushInv, NEW a \in Accounts, NEW v \in Devices,
         UpsertBinding(a, v) \/ DeleteBinding(a, v)
  PROVE  PushInv'
  <1>1. /\ UNCHANGED <<delivery, round, sends, accepted, faults>>
        /\ binding' \in [Devices -> Accounts \cup {NoAccount}]
    BY DEF PushInv, Shapes, UpsertBinding, DeleteBinding, history
  <1>2. Shapes'
    BY <1>1 DEF PushInv, Shapes
  <1> QED BY <1>1, <1>2, SameAttempts DEF Pending

LEMMA PushInit ==
  ASSUME Init
  PROVE  PushInv
  <1>1. MaxAttempts \in Nat \ {0} /\ MaxFaults \in Nat
    BY PushAssumption
  <1>2. Shapes
    BY <1>1, IdleIsRound DEF Init, Shapes
  <1>3. \A r \in Rounds : round[r] = Idle /\ round[r].rows = {}
    BY IdleIsRound DEF Init
  <1>4. RoundsHold
    BY <1>3, IdleIsRound DEF RoundsHold
  <1>5. \A d \in Rows : delivery[d] = NoDelivery /\ ~Pending(d)
    BY DEF Init, Pending, NoDelivery
  <1>6. \A d \in Rows : Senders(d) = {}
    BY <1>3 DEF Senders, MaySend
  <1>7. Accounted
    <2>1. \A d \in Rows : IsFiniteSet(Senders(d)) /\ sends[d] = 0
      BY <1>6, FS_EmptySet DEF Init
    <2> QED BY <1>3, <1>5, <2>1 DEF Accounted
  <1>8. AttemptsToSpare /\ SendsBounded
    BY <1>1, <1>5 DEF Init, AttemptsToSpare, SendsBounded
  <1> QED BY <1>2, <1>4, <1>7, <1>8 DEF PushInv

LEMMA PushStep ==
  ASSUME PushInv, [Next]_vars
  PROVE  PushInv'
  <1>1. CASE UNCHANGED vars
    <2>1. UNCHANGED <<binding, delivery, round, sends, accepted, faults>>
      BY <1>1 DEF vars
    <2>2. Shapes'
      BY <2>1 DEF PushInv, Shapes
    <2> QED BY <2>1, <2>2, SameAttempts DEF Pending
  <1>2. ASSUME NEW r \in Rounds, RoundStep(r) PROVE PushInv'
    BY <1>2, CheckKeeps, AnsweredKeeps, MarkKeeps, LetGoKeeps DEF RoundStep
  <1>3. ASSUME NEW r \in Rounds, AnswerLost(r) \/ RowThrows(r) \/ Crash(r)
        PROVE  PushInv'
    BY <1>3, AnsweredKeeps, LetGoKeeps, CrashKeeps
  <1> QED BY <1>1, <1>2, <1>3, StartKeeps, TableKeeps, BindingKeeps DEF Next

-----------------------------------------------------------------------------
(* The invariant of the dispatch: rows, rounds and the account of calls.   *)
THEOREM PushInvariant == Spec => []PushInv
  BY PushInit, PushStep, PTL DEF Spec

(* However many rounds overlap, die or lose answers, the gateway is called *)
(* for a row at most PUSH_MAX_ATTEMPTS times and once more for each fault  *)
(* (dispatch-push-deliveries.usecase.ts).                                  *)
THEOREM CallsAreBounded == Spec => []SendsBounded
  <1>1. PushInv => SendsBounded
    BY DEF PushInv
  <1> QED BY <1>1, PushInvariant, PTL

(* A delivery that has ended is never written again, by no round that read *)
(* it while it was pending (markPending).                                  *)
THEOREM EndedDeliveriesStay == Spec => EndedStays
  <1> DEFINE Stays == \A d \in Rows :
               delivery[d].status \notin {"none", "PENDING"} =>
                 delivery'[d] = delivery[d]
  <1>1. ASSUME PushInv, [Next]_vars PROVE Stays
    <2>0. Shapes
      BY <1>1 DEF PushInv
    <2>1. ASSUME NEW r \in Rounds, Mark(r) PROVE Stays
      BY <1>1, <2>1, MarkFacts DEF Pending
    <2>2. CASE Tick \/ \E a \in Accounts : FanOut(a)
      BY <2>0, <2>2, TickFacts, FanOutFacts DEF Pending, NoDelivery
    <2>3. ASSUME NEW r \in Rounds, RoundStep(r) PROVE Stays
      BY <2>1, <2>3 DEF RoundStep, CheckBinding, Send, Answered, Unregister
    <2> QED BY <1>1, <2>2, <2>3
            DEF Next, vars, UpsertBinding, DeleteBinding, StartRound,
                AnswerLost, Answered, RowThrows, Crash
  <1>2. PushInv /\ [Next]_vars => [Stays]_vars
    BY <1>1
  <1> QED BY <1>2, PushInvariant, PTL DEF Spec, EndedStays

-----------------------------------------------------------------------------
(* Without faults: a step of the one round that runs keeps it in step with *)
(* the table if it does so for the row in hand.                            *)
LEMMA InStepMoves ==
  ASSUME PushInv, Shapes', InStep, NEW r \in Rounds, OthersStay(r),
         round[r].rows # {}, NEW h \in Rows, h = Head(r), SnapshotStays(r),
         round'[r].rows \subseteq round[r].rows,
         (round'[r].rows = {}) <=> (round'[r].step = "idle"),
         round'[r].step # "check" /\ round'[r].rows # {} => Head(r)' = h,
         \A d \in round[r].rows : d # h => d \in round'[r].rows,
         \A d \in Rows : d # h => /\ delivery'[d] = delivery[d]
                                  /\ sends'[d] = sends[d]
                                  /\ accepted'[d] = accepted[d],
         delivery'[h] # NoDelivery,
         h \in round'[r].rows => Knows(r, h)',
         h \notin round'[r].rows => Settled(h)'
  PROVE  InStep'
  <1>0. /\ Shapes /\ RoundsHold /\ OneRound
        /\ h \in round[r].rows
    BY HeadFacts DEF PushInv, InStep
  <1>1. \A q \in Rounds : q # r => round[q].rows = {} /\ round'[q].rows = {}
    BY <1>0 DEF OneRound, OthersStay
  <1>2. OneRound'
    BY <1>1 DEF OneRound
  <1>3. ASSUME NEW d \in round'[r].rows, d # h
        PROVE  Knows(r, d)'
    <2>1. d \in round[r].rows /\ d \in Rows
      BY <1>0, <1>3, HeadFacts
    <2>2. /\ Pending(d) /\ round[r].snapshot[d] = delivery[d].attempts
          /\ Fresh(d)
      BY <1>3, <2>1 DEF InStep, Knows
    <2>3. /\ Pending(d)' /\ Fresh(d)'
          /\ round'[r].snapshot[d] = delivery'[d].attempts
      BY <1>3, <2>1, <2>2 DEF SnapshotStays, Pending, Fresh
    <2>4. round'[r].step = "check" \/ Head(r)' # d
      BY <1>3
    <2> QED BY <2>3, <2>4 DEF Knows
  <1>4. \A q \in Rounds : \A d \in round'[q].rows : Knows(q, d)'
    BY <1>1, <1>3
  <1>5. ASSUME NEW d \in Rows
        PROVE  /\ delivery'[d] = NoDelivery => accepted'[d] = 0
               /\ delivery'[d] # NoDelivery /\ ~Held(d)' => Settled(d)'
    <2>1. CASE d = h
      <3>1. ~Held(d)' => h \notin round'[r].rows
        BY <2>1 DEF Held
      <3> QED BY <2>1, <3>1
    <2>2. CASE d # h
      <3>1. ~Held(d)' => ~Held(d)
        BY <1>1, <2>2 DEF Held
      <3>2. Settled(d) => Settled(d)'
        BY <2>2 DEF Settled
      <3> QED BY <2>2, <3>1, <3>2 DEF InStep
    <2> QED BY <2>1, <2>2
  <1> QED BY <1>2, <1>4, <1>5 DEF InStep

(* Steps of the table.                                                     *)
LEMMA TableInStep ==
  ASSUME PushInv, InStep, UNCHANGED <<round, sends, accepted>>,
         \A d \in Rows :
           \/ delivery'[d] = delivery[d]
           \/ /\ delivery[d] = NoDelivery /\ delivery'[d] \in Row
              /\ delivery'[d].status = "PENDING"
              /\ delivery'[d].attempts = 0
           \/ /\ Pending(d) /\ delivery'[d] \in Row
              /\ delivery'[d].status = "PENDING"
              /\ delivery'[d].attempts = delivery[d].attempts
  PROVE  InStep'
  <1>0. Shapes /\ RoundsHold /\ Accounted
    BY DEF PushInv
  <1>1. OneRound'
    BY DEF InStep, OneRound
  <1>2. ASSUME NEW d \in Rows
        PROVE  /\ Held(d)' <=> Held(d)
               /\ sends'[d] = sends[d] /\ accepted'[d] = accepted[d]
               /\ sends[d] \in Nat
    BY <1>0 DEF Held, Shapes
  <1>3. ASSUME NEW d \in Rows
        PROVE  /\ delivery'[d] = NoDelivery => accepted'[d] = 0
               /\ delivery'[d] # NoDelivery /\ ~Held(d)' => Settled(d)'
    <2>1. CASE delivery'[d] = delivery[d]
      BY <1>2, <2>1 DEF InStep, Settled
    <2>2. CASE /\ delivery[d] = NoDelivery /\ delivery'[d] \in Row
               /\ delivery'[d].status = "PENDING"
               /\ delivery'[d].attempts = 0
      <3>1. accepted[d] = 0 /\ sends[d] = 0
        BY <1>0, <2>2 DEF InStep, Accounted
      <3> QED BY <1>2, <2>2, <3>1, RowsAreRows DEF Settled
    <2>3. CASE /\ Pending(d) /\ delivery'[d] \in Row
               /\ delivery'[d].status = "PENDING"
               /\ delivery'[d].attempts = delivery[d].attempts
      <3>1. delivery[d] # NoDelivery
        BY <2>3, RowsAreRows DEF Pending
      <3> QED BY <1>2, <2>3, <3>1, RowsAreRows DEF InStep, Settled, Pending
    <2> QED BY <2>1, <2>2, <2>3
  <1>4. ASSUME NEW r \in Rounds, NEW d \in round'[r].rows
        PROVE  Knows(r, d)'
    <2>1. /\ d \in Rows /\ delivery[d] # NoDelivery /\ Knows(r, d)
          /\ d \in round[r].rows
      BY <1>0, <1>4, HeadFacts DEF InStep, RoundsHold
    <2>2. CASE delivery'[d] = delivery[d]
      BY <1>2, <2>1, <2>2
      DEF Knows, Called, Fresh, Settled, Pending, Head
    <2>3. CASE /\ Pending(d) /\ delivery'[d].status = "PENDING"
               /\ delivery'[d].attempts = delivery[d].attempts
      BY <1>2, <2>1, <2>3
      DEF Knows, Called, Fresh, Settled, Pending, Head
    <2> QED BY <2>1, <2>2, <2>3
  <1> QED BY <1>1, <1>3, <1>4 DEF InStep

LEMMA StartInStep ==
  ASSUME PushInv, InStep, NEW r \in Rounds, StartRound(r), faults' = faults
  PROVE  InStep'
  <1>0. Shapes /\ RoundsHold /\ faults \in Nat
    BY PushAssumption DEF PushInv, Shapes
  <1>1. /\ OthersStay(r) /\ round'[r].rows = Due
        /\ round'[r].step = "check" /\ Due \subseteq Rows
        /\ \A d \in Due : round'[r].snapshot[d] = delivery[d].attempts
        /\ \A q \in Rounds : round[q].rows = {}
        /\ UNCHANGED <<delivery, sends, accepted>>
    <2>1. UNCHANGED <<delivery, sends, accepted>>
      BY DEF StartRound, history
    <2>2. faults' # faults + 1
      BY <1>0
    <2> QED BY <2>1, <2>2, StartFacts
  <1>2. OneRound'
    BY <1>1 DEF OneRound, OthersStay
  <1>3. \A d \in Rows : ~Held(d)
    BY <1>1 DEF Held
  <1>4. ASSUME NEW d \in Rows
        PROVE  /\ delivery'[d] = NoDelivery => accepted'[d] = 0
               /\ delivery'[d] # NoDelivery /\ ~Held(d)' => Settled(d)'
    BY <1>1, <1>3 DEF InStep, Settled
  <1>5. ASSUME NEW d \in Due PROVE Knows(r, d)'
    <2>1. Pending(d) /\ delivery[d] # NoDelivery /\ d \in Rows
      BY <1>1, RowsAreRows DEF Due, Pending
    <2>2. Settled(d) /\ sends[d] \in Nat /\ delivery[d].attempts \in Nat
      BY <1>0, <1>3, <2>1 DEF InStep, Shapes, Row
    <2>3. Fresh(d)
      BY <2>1, <2>2 DEF Settled, Pending, Fresh
    <2>4. Fresh(d)' /\ Pending(d)'
      BY <1>1, <2>1, <2>3 DEF Fresh, Pending
    <2> QED BY <1>1, <2>4 DEF Knows
  <1>6. \A q \in Rounds : \A d \in round'[q].rows : Knows(q, d)'
    BY <1>1, <1>5 DEF OthersStay
  <1> QED BY <1>2, <1>4, <1>6 DEF InStep

LEMMA CheckInStep ==
  ASSUME PushInv, InStep, NEW r \in Rounds, CheckBinding(r)
  PROVE  InStep'
  <1>0. Shapes /\ RoundsHold /\ Shapes'
    BY CheckKeeps DEF PushInv
  <1>1. /\ round[r].step = "check" /\ round[r].rows # {}
        /\ UNCHANGED <<delivery, sends, accepted>>
    BY <1>0 DEF CheckBinding, RoundsHold, history
  <1>2. /\ OthersStay(r)
        /\ round'[r].rows = round[r].rows /\ Head(r)' = Head(r)
        /\ SnapshotStays(r)
        /\ \/ round'[r].step = "send"
           \/ round'[r].step = "mark" /\ round'[r].result = "unbound"
    BY <1>0, <1>1, CheckFacts
  <1>3. PICK h \in Rows : h = Head(r) /\ h \in round[r].rows
    BY <1>0, <1>1, HeadFacts
  <1>4. /\ Pending(h) /\ round[r].snapshot[h] = delivery[h].attempts
        /\ Fresh(h) /\ delivery[h] # NoDelivery
    BY <1>0, <1>1, <1>3 DEF InStep, Knows, RoundsHold
  <1>5. /\ Pending(h)' /\ round'[r].snapshot[h] = delivery'[h].attempts
        /\ Fresh(h)' /\ delivery'[h] # NoDelivery
    BY <1>1, <1>2, <1>3, <1>4 DEF Pending, Fresh, SnapshotStays
  <1>6. Knows(r, h)'
    BY <1>2, <1>3, <1>5 DEF Knows
  <1> QED BY <1>0, <1>1, <1>2, <1>3, <1>5, <1>6, InStepMoves

LEMMA SendInStep ==
  ASSUME PushInv, InStep, NEW r \in Rounds, Send(r)
  PROVE  InStep'
  <1>0. Shapes /\ RoundsHold /\ Shapes'
    BY AnsweredKeeps DEF PushInv
  <1>1. PICK v \in Results \ {"unbound"} :
          /\ Answered(r, v)
          /\ accepted' = IF v # "ok" THEN accepted
                         ELSE [accepted EXCEPT ![Head(r)] = @ + 1]
    BY DEF Send
  <1>2. /\ round[r].step = "send" /\ round[r].rows # {}
        /\ UNCHANGED delivery
    BY <1>0, <1>1 DEF Answered, RoundsHold
  <1>3. /\ OthersStay(r)
        /\ round'[r].rows = round[r].rows /\ Head(r)' = Head(r)
        /\ SnapshotStays(r) /\ round'[r].step = "mark" /\ round'[r].result = v
        /\ sends'[Head(r)] = sends[Head(r)] + 1
        /\ \A d \in Rows : d # Head(r) => sends'[d] = sends[d]
    BY <1>0, <1>1, <1>2, AnsweredFacts
  <1>4. PICK h \in Rows : h = Head(r) /\ h \in round[r].rows
    BY <1>0, <1>2, HeadFacts
  <1>5. /\ accepted'[h] = accepted[h] + (IF v = "ok" THEN 1 ELSE 0)
        /\ \A d \in Rows : d # h => accepted'[d] = accepted[d]
    <2>1. accepted' = IF v # "ok" THEN accepted
                      ELSE [accepted EXCEPT ![h] = @ + 1]
      BY <1>1, <1>4
    <2>2. accepted \in [Rows -> Nat]
      BY <1>0 DEF Shapes
    <2> QED BY <1>4, <2>1, <2>2
  <1>6. /\ Pending(h) /\ round[r].snapshot[h] = delivery[h].attempts
        /\ Fresh(h) /\ delivery[h] # NoDelivery
    BY <1>0, <1>2, <1>4 DEF InStep, Knows, RoundsHold
  <1>7. /\ Pending(h)' /\ round'[r].snapshot[h] = delivery'[h].attempts
        /\ delivery'[h] # NoDelivery
    BY <1>2, <1>3, <1>4, <1>6 DEF Pending, SnapshotStays
  <1>8. /\ sends'[h] = delivery'[h].attempts + 1
        /\ v \in {"ok", "invalid_target", "retryable"}
        /\ accepted'[h] = IF v = "ok" THEN 1 ELSE 0
    BY <1>2, <1>3, <1>4, <1>5, <1>6 DEF Fresh, Results
  <1>9. Knows(r, h)'
    BY <1>3, <1>4, <1>7, <1>8 DEF Knows, Called
  <1> QED BY <1>0, <1>2, <1>3, <1>4, <1>5, <1>7, <1>9, InStepMoves

LEMMA MarkInStep ==
  ASSUME PushInv, InStep, NEW r \in Rounds, Mark(r)
  PROVE  InStep'
  <1>0. Shapes /\ RoundsHold /\ Shapes'
    BY MarkKeeps DEF PushInv
  <1>1. /\ round[r].step = "mark" /\ round[r].rows # {}
        /\ UNCHANGED <<sends, accepted>>
    BY <1>0 DEF Mark, RoundsHold, history
  <1>2. PICK h \in Rows : h = Head(r) /\ h \in round[r].rows
    BY <1>0, <1>1, HeadFacts
  <1> DEFINE prev == round[r].snapshot[h]
             res == round[r].result
  <1>3. /\ prev \in Nat /\ prev < MaxAttempts /\ res \in Results
        /\ delivery[h] \in Row /\ delivery'[h] \in Row
        /\ Pending(h) => delivery'[h] = Outcome(h, res, prev)
        /\ \A d \in Rows : d # h => delivery'[d] = delivery[d]
        /\ OthersStay(r) /\ SnapshotStays(r)
        /\ \/ /\ res = "invalid_target" /\ round'[r].step = "unregister"
              /\ round'[r].rows = round[r].rows /\ Head(r)' = h
           \/ /\ res # "invalid_target"
              /\ round'[r].rows = round[r].rows \ {h}
              /\ round'[r].step = IF round'[r].rows = {}
                                  THEN "idle" ELSE "check"
    BY <1>2, MarkFacts
  <1>4. /\ Pending(h) /\ prev = delivery[h].attempts
        /\ \/ res = "unbound" /\ Fresh(h)
           \/ Called(r)
    BY <1>1, <1>2 DEF InStep, Knows
  <1>5. /\ sends'[h] = sends[h] /\ accepted'[h] = accepted[h]
    BY <1>1
  <1>6. delivery'[h] = Outcome(h, res, prev)
    BY <1>3, <1>4
  <1>7. \/ /\ res = "unbound" /\ accepted[h] = 0 /\ sends[h] = prev
        \/ /\ res \in {"ok", "invalid_target", "retryable"}
           /\ sends[h] = prev + 1
           /\ accepted[h] = IF res = "ok" THEN 1 ELSE 0
    BY <1>2, <1>4 DEF Fresh, Called
  <1>8. Settled(h)'
    <2>1. CASE res = "unbound"
      BY <1>3, <1>4, <1>5, <1>6, <1>7, <2>1, OutcomeFacts DEF Settled
    <2>2. CASE res = "ok"
      BY <1>3, <1>4, <1>5, <1>6, <1>7, <2>2, OutcomeFacts DEF Settled
    <2>3. CASE res = "invalid_target"
      BY <1>3, <1>4, <1>5, <1>6, <1>7, <2>3, OutcomeFacts DEF Settled
    <2>4. CASE res = "retryable"
      BY <1>3, <1>4, <1>5, <1>6, <1>7, <2>4, OutcomeFacts DEF Settled
    <2> QED BY <1>7, <2>1, <2>2, <2>3, <2>4
  <1>9. h \in round'[r].rows => Knows(r, h)'
    <2>1. h \in round'[r].rows => round'[r].step = "unregister" /\ Head(r)' = h
      BY <1>2, <1>3
    <2> QED BY <1>8, <2>1 DEF Knows
  <1>10. delivery'[h] # NoDelivery
    BY <1>3, RowsAreRows
  <1> HIDE DEF prev, res
  <1>11. /\ round'[r].rows \subseteq round[r].rows
         /\ (round'[r].rows = {}) <=> (round'[r].step = "idle")
         /\ round'[r].step # "check" /\ round'[r].rows # {} => Head(r)' = h
         /\ \A d \in round[r].rows : d # h => d \in round'[r].rows
    BY <1>1, <1>3
  <1>12. /\ OthersStay(r) /\ SnapshotStays(r)
         /\ \A d \in Rows : d # h => /\ delivery'[d] = delivery[d]
                                     /\ sends'[d] = sends[d]
                                     /\ accepted'[d] = accepted[d]
    BY <1>1, <1>3
  <1> QED BY <1>0, <1>1, <1>2, <1>8, <1>9, <1>10, <1>11, <1>12, InStepMoves

LEMMA UnregisterInStep ==
  ASSUME PushInv, InStep, NEW r \in Rounds, Unregister(r)
  PROVE  InStep'
  <1>0. Shapes /\ RoundsHold /\ Shapes'
    BY LetGoKeeps DEF PushInv
  <1>1. /\ round[r].step = "unregister" /\ round[r].rows # {} /\ NextRow(r)
        /\ UNCHANGED <<delivery, sends, accepted>>
    BY <1>0 DEF Unregister, RoundsHold, history
  <1>2. PICK h \in Rows : h = Head(r) /\ h \in round[r].rows
    BY <1>0, <1>1, HeadFacts
  <1>3. /\ OthersStay(r) /\ round'[r].rows = round[r].rows \ {h}
        /\ round'[r].step = IF round'[r].rows = {} THEN "idle" ELSE "check"
        /\ SnapshotStays(r)
    BY <1>0, <1>1, <1>2, NextRowFacts
  <1>4. Settled(h) /\ delivery[h] # NoDelivery
    BY <1>0, <1>1, <1>2 DEF InStep, Knows, RoundsHold
  <1>5. Settled(h)' /\ delivery'[h] # NoDelivery
    BY <1>1, <1>4 DEF Settled
  <1> QED BY <1>0, <1>1, <1>2, <1>3, <1>5, InStepMoves

LEMMA InStepStep ==
  ASSUME PushInv, [Next]_vars, faults = 0 => InStep, faults' = 0
  PROVE  InStep'
  <1>0. Shapes /\ faults \in Nat
    BY PushAssumption DEF PushInv, Shapes
  <1>1. InStep /\ faults' = faults /\ faults' # faults + 1
    <2>1. ASSUME NEW r \in Rounds,
                 \/ StartRound(r) \/ RoundStep(r)
                 \/ AnswerLost(r) \/ RowThrows(r) \/ Crash(r)
          PROVE  faults' = faults \/ faults' = faults + 1
      BY <2>1 DEF StartRound, RoundStep, CheckBinding, Send, Mark, Unregister,
                  AnswerLost, RowThrows, Crash, Fault
    <2>2. ASSUME Tick \/ \E a \in Accounts : FanOut(a)
          PROVE  faults' = faults
      BY <2>2 DEF Tick, FanOut
    <2>3. ASSUME NEW a \in Accounts, NEW v \in Devices,
                 UpsertBinding(a, v) \/ DeleteBinding(a, v)
          PROVE  faults' = faults
      BY <2>3 DEF UpsertBinding, DeleteBinding
    <2>4. faults' = faults \/ faults' = faults + 1
      BY <2>1, <2>2, <2>3 DEF Next, vars
    <2>5. faults = 0 /\ faults' = faults
      BY <1>0, <2>4
    <2> QED BY <1>0, <2>5
  <1>2. CASE UNCHANGED vars
    BY <1>1, <1>2, TableInStep DEF vars
  <1>3. ASSUME NEW a \in Accounts, NEW v \in Devices,
               UpsertBinding(a, v) \/ DeleteBinding(a, v)
        PROVE  InStep'
    <2>1. UNCHANGED <<delivery, round, sends, accepted>>
      BY <1>3 DEF UpsertBinding, DeleteBinding, history
    <2> QED BY <1>1, <2>1, TableInStep
  <1>4. CASE Tick
    BY <1>0, <1>1, <1>4, TickFacts, TableInStep
  <1>5. ASSUME NEW a \in Accounts, FanOut(a) PROVE InStep'
    BY <1>0, <1>1, <1>5, FanOutFacts, TableInStep
  <1>6. ASSUME NEW r \in Rounds, RoundStep(r) PROVE InStep'
    BY <1>1, <1>6, CheckInStep, SendInStep, MarkInStep, UnregisterInStep
    DEF RoundStep
  <1>7. ASSUME NEW r \in Rounds, AnswerLost(r) \/ RowThrows(r) \/ Crash(r)
        PROVE  FALSE
    BY <1>1, <1>7 DEF AnswerLost, RowThrows, Crash, Fault
  <1> QED BY <1>1, <1>2, <1>3, <1>4, <1>5, <1>6, <1>7, StartInStep DEF Next

(* Without faults the table tells what happened: no alert is pushed twice, *)
(* SENT is on what the gateway accepted, and every call is accounted for   *)
(* (dispatch-push-deliveries.usecase.ts).                                  *)
THEOREM LedgerIsKept == Spec => []LedgerIsTrue
  <1>1. Init => LedgerInv
    <2>1. ASSUME Init PROVE InStep
      <3>1. \A r \in Rounds : round[r].rows = {}
        BY <2>1, IdleIsRound DEF Init
      <3>2. \A d \in Rows : delivery[d] = NoDelivery /\ accepted[d] = 0
        BY <2>1 DEF Init
      <3> QED BY <3>1, <3>2 DEF InStep, OneRound
    <2> QED BY <2>1, PushInit DEF LedgerInv
  <1>2. LedgerInv /\ [Next]_vars => LedgerInv'
    BY PushStep, InStepStep DEF LedgerInv
  <1>3. LedgerInv => LedgerIsTrue
    <2> SUFFICES ASSUME PushInv, InStep, NEW d \in Rows
                 PROVE  /\ accepted[d] <= 1
                        /\ delivery[d].status = "SENT" => accepted[d] = 1
                        /\ ~Taken(d) /\ delivery[d] # NoDelivery =>
                             /\ accepted[d] = 1 => delivery[d].status = "SENT"
                             /\ sends[d] = delivery[d].attempts +
                                  IF delivery[d].status
                                       \in {"SENT", "FAILED_INVALID"}
                                  THEN 1 ELSE 0
      BY DEF LedgerInv, LedgerIsTrue
    <2>0. Shapes /\ RoundsHold
      BY DEF PushInv
    <2>1. CASE delivery[d] = NoDelivery
      BY <2>1, RowsAreRows DEF InStep
    <2>2. CASE delivery[d] # NoDelivery /\ Settled(d)
      BY <2>2 DEF Settled
    <2>3. ASSUME NEW r \in Rounds, d \in round[r].rows, ~Settled(d)
          PROVE  /\ Pending(d)
                 /\ Fresh(d) \/ (Called(r) /\ d = Head(r) /\ Taken(d))
      <3>1. Knows(r, d) /\ round[r].step # "idle" /\ round[r] \in Round
        BY <2>0, <2>3, HeadFacts DEF InStep, RoundsHold
      <3>2. CASE Called(r) /\ d = Head(r) /\ round[r].step = "mark"
        BY <2>3, <3>1, <3>2 DEF Taken, Called, Knows
      <3>3. CASE ~(Called(r) /\ d = Head(r) /\ round[r].step = "mark")
        <4>1. round[r].step \in {"check", "send", "mark", "unregister"}
          BY <3>1 DEF Round
        <4> QED BY <2>3, <3>1, <3>3, <4>1 DEF Knows
      <3> QED BY <3>2, <3>3
    <2>4. ASSUME NEW r \in Rounds, d \in round[r].rows, ~Settled(d)
          PROVE  /\ delivery[d].status = "PENDING" /\ accepted[d] <= 1
                 /\ \/ accepted[d] = 0 /\ sends[d] = delivery[d].attempts
                    \/ Taken(d)
      <3>1. CASE Fresh(d)
        BY <2>3, <2>4, <3>1 DEF Fresh, Pending
      <3>2. CASE Called(r) /\ d = Head(r) /\ Taken(d)
        BY <2>3, <2>4, <3>2 DEF Called, Pending
      <3> QED BY <2>3, <2>4, <3>1, <3>2
    <2>5. CASE delivery[d] # NoDelivery /\ ~Settled(d)
      <3>1. Held(d)
        BY <2>5 DEF InStep
      <3>2. PICK r \in Rounds : d \in round[r].rows
        BY <3>1 DEF Held
      <3>3. /\ delivery[d].status = "PENDING" /\ accepted[d] <= 1
            /\ \/ accepted[d] = 0 /\ sends[d] = delivery[d].attempts
               \/ Taken(d)
        BY <2>4, <2>5, <3>2
      <3>4. delivery[d].attempts \in Nat
        BY <2>0, <2>5 DEF Shapes, Row
      <3> QED BY <3>3, <3>4
    <2> QED BY <2>1, <2>2, <2>5
  <1> QED BY <1>1, <1>2, <1>3, PTL DEF Spec
=============================================================================
