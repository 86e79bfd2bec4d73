------------------------- MODULE BrokerEvents_proofs -------------------------
(***************************************************************************)
(* Proofs about the broker's events: that no push is forgotten, and that   *)
(* the order's row never goes back.                                        *)
(*                                                                         *)
(* The argument follows one push.  While its shim runs it is unread: its   *)
(* number is beyond the cursor, and the next batch holds it or has lost    *)
(* it and says so.  When a shim ends, the cursor or the batch of its       *)
(* epoch is the trace of the loss, and the epochs only grow, so that the   *)
(* trace stays until a poll compares them.  A loss that was noticed is     *)
(* owed a gap fill, and the tally owes it until a day that has the push    *)
(* is written.  Five steps may take the last trace, and what they leave    *)
(* without one is lost, no more: a push or a restart of the shim while the *)
(* server has read nothing, the failure of its first batch after that      *)
(* restart, a restart of the server that knows of a gap, and a gap fill    *)
(* whose row cannot be looked up or inserted.                              *)
(***************************************************************************)
EXTENDS BrokerEvents, WellFoundedInduction, SequenceTheorems, TLAPS

(* The number of the last push that is not of this shim's process.         *)
Base == emitted - shim.last

(* The buffer holds the last pushes, in order.                             *)
BufferOK ==
  /\ Len(shim.buf) <= shim.last /\ shim.last <= emitted
  /\ shim.last > 0 => shim.buf # <<>>
  /\ \A i \in 1..Len(shim.buf) : shim.buf[i] = emitted - Len(shim.buf) + i
  /\ ~shim.up => shim.last = 0 /\ shim.epoch < MaxEpochs

CursorOK ==
  /\ cursor.epoch <= shim.epoch
  /\ shim.up => AfterSeq <= shim.last
  /\ cursor.epoch = 0 => cursor = NoCursor

BatchType == [epoch : 1..shim.epoch, rows : SUBSET Day, next : 0..MaxEvents,
              first : Nat, dropped : BOOLEAN]

BeatOK ==
  /\ beat.pc = "batch" =>
       beat.batch \in BatchType /\ cursor.epoch <= beat.batch.epoch
  /\ beat.pc = "decide" => beat.gap \in BOOLEAN
  /\ beat.pc = "write" => beat.day \subseteq Day
  /\ sync.pc = "write" => sync.day \subseteq Day

(* A batch of the running process takes the cursor no further than it has  *)
(* read, unless it says that rows were dropped.                            *)
BatchReads ==
  beat.pc = "batch" /\ ~Stale(beat.batch.epoch) =>
    /\ AfterSeq <= beat.batch.next /\ beat.batch.next <= shim.last
    /\ \A e \in Day :
         Base + AfterSeq < e /\ e <= Base + beat.batch.next
           => e \in beat.batch.rows \/ beat.batch.dropped

FillOK ==
  /\ fill.running => fill.failed < MaxAttempts /\ ~fill.wait
  /\ fill.wait => fill.open
  /\ beat.pc \in {"fetch", "write"} => fill.running \/ fill.open

(* A push with its row, or lost, or with a trace that leads to its row.    *)
KeptEvent(e) ==
  e \in deals \/ e \in lost \/ Unread(e) \/ RestartShows \/ Owed(e)

Kept == \A e \in Day : KeptEvent(e)

BrokerInv ==
  /\ BrokerTypeOK /\ BufferOK /\ CursorOK /\ BeatOK /\ BatchReads
  /\ FillOK /\ Kept

-----------------------------------------------------------------------------
(* Numbers and sequences                                                   *)

(* The greatest of some pushes is one of them.                             *)
LEMMA MaxIsIn ==
  ASSUME NEW n \in Nat, NEW S \in SUBSET (1..n), S # {}
  PROVE  Max(S) \in S
  <1> DEFINE R == {p \in Nat \X Nat : p[1] < p[2]}
             T == {k \in Nat : \A y \in S : y <= k}
  <1>1. IsWellFoundedOn(R, Nat)
    <2>1. OpToRel(<, Nat) = R
      BY DEF OpToRel
    <2> QED BY <2>1, NatLessThanWellFounded
  <1>2. n \in T /\ T \subseteq Nat
    OBVIOUS
  <1>3. PICK m \in T : \A k \in T : ~(<<k, m>> \in R)
    BY <1>1, <1>2, WFMin
  <1>4. m \in Nat /\ \A y \in S : y <= m
    BY <1>3
  <1>5. m \in S
    <2> SUFFICES ASSUME m \notin S PROVE FALSE
      OBVIOUS
    <2>1. \A y \in S : y \in Nat /\ y >= 1 /\ y <= m /\ y # m
      BY <1>4
    <2>2. m - 1 \in Nat
      <3>1. PICK y \in S : TRUE
        OBVIOUS
      <3> QED BY <3>1, <2>1, <1>4
    <2>3. m - 1 \in T
      BY <2>1, <2>2, <1>4
    <2>4. <<m - 1, m>> \in R
      BY <2>2, <1>4
    <2> QED BY <2>3, <2>4, <1>3
  <1>6. \A y \in S : m >= y
    BY <1>4
  <1> HIDE DEF R, T
  <1> QED BY <1>5, <1>6 DEF Max

LEMMA BufferShape ==
  ASSUME NEW b
  PROVE  (b \in UNION {[1..n -> 1..MaxEvents] : n \in 0..Capacity})
           <=> (b \in Seq(1..MaxEvents) /\ Len(b) \in 0..Capacity)
  <1>1. ASSUME NEW n \in 0..Capacity, b \in [1..n -> 1..MaxEvents]
        PROVE  b \in Seq(1..MaxEvents) /\ Len(b) = n
    <2>1. n \in Nat
      BY BrokerAssumption
    <2>2. b \in Seq(1..MaxEvents)
      BY <1>1, <2>1, SeqDef
    <2>3. Len(b) = n
      BY <1>1, <2>1, <2>2, LenProperties
    <2> QED BY <2>2, <2>3
  <1>2. ASSUME b \in Seq(1..MaxEvents), Len(b) \in 0..Capacity
        PROVE  b \in [1..Len(b) -> 1..MaxEvents]
    BY <1>2, LenProperties
  <1> QED BY <1>1, <1>2

LEMMA Facts ==
  ASSUME BrokerTypeOK
  PROVE  /\ emitted \in Nat /\ emitted <= MaxEvents
         /\ shim.up \in BOOLEAN /\ shim.epoch \in 1..MaxEpochs
         /\ shim.last \in Nat /\ shim.last <= MaxEvents
         /\ shim.buf \in Seq(1..MaxEvents) /\ Len(shim.buf) \in 0..Capacity
         /\ cursor.epoch \in 0..MaxEpochs /\ cursor.last \in 0..MaxEvents
         /\ AfterSeq \in 0..MaxEvents
         /\ Base \in Int
         /\ MaxEvents \in Nat /\ MaxEpochs \in Nat /\ Capacity \in Nat \ {0}
         /\ MaxAttempts \in Nat \ {0} /\ MaxFaults \in Nat
  <1>1. /\ emitted \in 0..MaxEvents /\ shim.up \in BOOLEAN
        /\ shim.epoch \in 1..MaxEpochs /\ shim.last \in 0..MaxEvents
        /\ shim.buf \in UNION {[1..n -> 1..MaxEvents] : n \in 0..Capacity}
        /\ cursor.epoch \in 0..MaxEpochs /\ cursor.last \in 0..MaxEvents
    BY DEF BrokerTypeOK
  <1>2. shim.buf \in Seq(1..MaxEvents) /\ Len(shim.buf) \in 0..Capacity
    BY <1>1, BufferShape
  <1> QED BY <1>1, <1>2, BrokerAssumption DEF AfterSeq, Base

(* What a step leaves without a trace is lost, if it takes the last one.   *)
LEMMA LossFacts ==
  ASSUME NEW c \in BOOLEAN, lost' = IF c THEN lost \cup Untraced' ELSE lost,
         lost \subseteq Day, Day \subseteq Day'
  PROVE  lost \subseteq lost' /\ lost' \subseteq Day' /\ (c => Kept')
  <1>1. Untraced' \subseteq Day'
    BY DEF Untraced
  <1>2. c => Untraced' \subseteq lost'
    OBVIOUS
  <1>3. Untraced' \subseteq lost' => Kept'
    BY DEF Untraced, Kept, KeptEvent
  <1> QED BY <1>1, <1>2, <1>3

(* The batch of a poll.                                                    *)
LEMMA ReadFacts ==
  ASSUME BrokerTypeOK, BufferOK, CursorOK, shim.up
  PROVE  LET b == Read(AfterSeq)
         IN /\ b \in BatchType /\ b.epoch = shim.epoch
            /\ b.next = shim.last
            /\ \A e \in Day : Base + AfterSeq < e
                                => e \in b.rows \/ b.dropped
  <1> DEFINE b == Read(AfterSeq)
             a == AfterSeq
             q == shim.buf
             I == {j \in DOMAIN q : Oldest + j - 1 > a}
  <1>1. /\ a \in Nat /\ a <= shim.last /\ shim.last \in Nat
        /\ shim.last <= MaxEvents /\ MaxEvents \in Nat
        /\ Len(q) \in Nat /\ emitted \in Nat /\ shim.epoch \in 1..MaxEpochs
        /\ q \in Seq(1..MaxEvents) /\ DOMAIN q = 1..Len(q)
        /\ MaxEpochs \in Nat
    BY Facts, LenProperties DEF CursorOK
  <1>2. /\ b.epoch = shim.epoch
        /\ b.rows = {q[i] : i \in I}
        /\ b.next = IF shim.last > a THEN shim.last ELSE a
        /\ b.first = IF a + 1 > Oldest THEN a + 1 ELSE Oldest
        /\ b.dropped = (q # <<>> /\ a + 1 < Oldest)
        /\ b = [epoch |-> b.epoch, rows |-> b.rows, next |-> b.next,
                first |-> b.first, dropped |-> b.dropped]
    BY DEF Read
  <1>3. /\ Len(q) <= shim.last /\ shim.last <= emitted
        /\ shim.last > 0 => q # <<>>
        /\ \A i \in 1..Len(q) : q[i] = emitted - Len(q) + i
    BY DEF BufferOK
  <1>4. Oldest = shim.last - Len(q) + 1
    BY DEF Oldest
  <1> HIDE DEF b, a, q
  <1>5. \A i \in I : i \in 1..Len(q) /\ q[i] \in 1..emitted
    BY <1>1, <1>3
  <1>6. b.rows \subseteq Day
    BY <1>2, <1>5 DEF Day
  <1>7. b.next = shim.last
    BY <1>1, <1>2
  <1>8. b.first \in Nat /\ b.dropped \in BOOLEAN
    BY <1>1, <1>2, <1>3, <1>4
  <1>9. b \in BatchType
    <2>1. /\ b.epoch \in 1..shim.epoch /\ b.rows \in SUBSET Day
          /\ b.next \in 0..MaxEvents
      BY <1>1, <1>2, <1>6, <1>7
    <2>2. \A u \in 1..shim.epoch, r \in SUBSET Day, x \in 0..MaxEvents,
             f \in Nat, d \in BOOLEAN :
            [epoch |-> u, rows |-> r, next |-> x, first |-> f,
             dropped |-> d] \in BatchType
      BY DEF BatchType
    <2>3. [epoch |-> b.epoch, rows |-> b.rows, next |-> b.next,
           first |-> b.first, dropped |-> b.dropped] \in BatchType
      BY <2>1, <2>2, <1>8
    <2> QED BY <2>3, <1>2
  <1>10. ASSUME NEW e \in Day, Base + a < e
         PROVE  e \in b.rows \/ b.dropped
    <2>1. e \in Nat /\ e >= 1 /\ e <= emitted /\ emitted - shim.last + a < e
      BY <1>10, <1>1 DEF Day, Base
    <2>2. CASE e > emitted - Len(q)
      <3> DEFINE i == e - emitted + Len(q)
      <3>1. i \in 1..Len(q) /\ emitted - Len(q) + i = e
        BY <2>1, <2>2, <1>1
      <3>2. Oldest + i - 1 > a
        BY <2>1, <1>1, <1>4
      <3>3. i \in I /\ q[i] = e
        BY <3>1, <3>2, <1>1, <1>3
      <3> QED BY <3>3, <1>2
    <2>3. CASE e <= emitted - Len(q)
      <3>1. a + 1 < Oldest /\ shim.last > 0
        BY <2>1, <2>3, <1>1, <1>4
      <3> QED BY <3>1, <1>2, <1>3
    <2> QED BY <2>1, <2>2, <2>3, <1>1
  <1>11. \A e \in Day : Base + AfterSeq < e => e \in b.rows \/ b.dropped
    BY <1>10 DEF a
  <1> QED BY <1>2, <1>7, <1>9, <1>11 DEF b

(* The rows of a batch or a day that is written.                           *)
LEMMA WriteFacts ==
  ASSUME BrokerTypeOK, NEW rows \in SUBSET Day, WriteRows(rows)
  PROVE  /\ deals' = deals \cup rows /\ deals' \subseteq Day
         /\ order' \in 0..emitted /\ order' >= order
  <1>1. /\ deals \subseteq Day /\ order \in 0..emitted /\ emitted \in Nat
        /\ Day = 1..emitted
    BY Facts DEF BrokerTypeOK, Day
  <1>2. CASE rows = {}
    BY <1>1, <1>2 DEF WriteRows
  <1>3. CASE rows # {}
    <2>1. Max(rows) \in 1..emitted
      BY <1>1, <1>3, MaxIsIn
    <2>2. order' = IF Max(rows) > order THEN Max(rows) ELSE order
      BY <1>3 DEF WriteRows, Newer
    <2> QED BY <1>1, <2>1, <2>2 DEF WriteRows
  <1> QED BY <1>2, <1>3

-----------------------------------------------------------------------------
(* The shim's steps                                                        *)

(* The sequence holds the last numbers up to n, in order.                  *)
HoldsLast(q, n) == \A i \in 1..Len(q) : q[i] = n - Len(q) + i

(* The buffer after a push still holds the last ones, in order.            *)
LEMMA RetainedFacts ==
  ASSUME NEW q \in Seq(1..MaxEvents), NEW m \in Nat, m + 1 \in 1..MaxEvents,
         NEW l \in Nat, Len(q) <= l, Len(q) <= Capacity,
         HoldsLast(q, m),
         NEW b, b = Retained(Append(q, m + 1))
  PROVE  /\ b \in Seq(1..MaxEvents) /\ Len(b) \in 0..Capacity
         /\ Len(b) <= l + 1 /\ Len(b) > 0
         /\ HoldsLast(b, m + 1)
  <1> DEFINE s == Append(q, m + 1)
             n == Len(q)
  <1>1. /\ n \in Nat /\ n <= l /\ n <= Capacity
        /\ \A i \in 1..n : q[i] = m - n + i
        /\ Capacity \in Nat \ {0}
    BY LenProperties, BrokerAssumption DEF HoldsLast
  <1>2. /\ s \in Seq(1..MaxEvents) /\ Len(s) = n + 1
        /\ \A i \in 1..n : s[i] = q[i]
        /\ s[n + 1] = m + 1
    BY AppendProperties
  <1>3. b = IF Len(s) <= Capacity THEN s ELSE SubSeq(s, 2, Len(s))
    BY DEF Retained
  <1> HIDE DEF s, n
  <1>4. \A i \in 1..n + 1 : s[i] = m - n + i /\ s[i] \in 1..MaxEvents
    <2> TAKE i \in 1..n + 1
    <2>1. s[i] \in 1..MaxEvents
      BY <1>1, <1>2, ElementOfSeq
    <2>2. CASE i = n + 1
      BY <2>1, <2>2, <1>1, <1>2
    <2>3. CASE i \in 1..n
      BY <2>1, <2>3, <1>1, <1>2
    <2> QED BY <2>2, <2>3, <1>1
  <1>5. CASE Len(s) <= Capacity
    <2>1. b = s /\ Len(b) = n + 1
      BY <1>2, <1>3, <1>5
    <2>2. ASSUME NEW i \in 1..n + 1
          PROVE  b[i] = (m + 1) - (n + 1) + i
      BY <2>1, <1>1, <1>4
    <2>3. n + 1 \in 0..Capacity /\ n + 1 <= l + 1 /\ n + 1 > 0
      BY <1>1, <1>2, <1>5
    <2> HIDE <1>3
    <2> QED BY <2>1, <2>2, <2>3, <1>2 DEF HoldsLast
  <1>6. CASE ~(Len(s) <= Capacity)
    <2>1. b = SubSeq(s, 2, n + 1) /\ n = Capacity
      BY <1>1, <1>2, <1>3, <1>6
    <2>2. \A i \in 2..n + 1 : s[i] \in 1..MaxEvents
      BY <1>1, <1>4
    <2>3. 2 <= n + 1 /\ (n + 1) - 2 + 1 = n /\ n + 1 \in Int
      BY <1>1, <2>1
    <2>4. /\ SubSeq(s, 2, n + 1) \in Seq(1..MaxEvents)
          /\ Len(SubSeq(s, 2, n + 1)) = (n + 1) - 2 + 1
          /\ \A i \in 1..(n + 1) - 2 + 1 :
               SubSeq(s, 2, n + 1)[i] = s[2 + i - 1]
      BY <2>2, <2>3, SubSeqProperties
    <2>5. b \in Seq(1..MaxEvents) /\ Len(b) = n
      BY <2>1, <2>3, <2>4
    <2>6. ASSUME NEW i \in 1..n
          PROVE  b[i] = (m + 1) - n + i
      <3>1. 2 + i - 1 = i + 1 /\ i + 1 \in 1..n + 1
        BY <1>1
      <3>2. b[i] = s[i + 1]
        BY <3>1, <2>1, <2>3, <2>4
      <3>3. s[i + 1] = m - n + (i + 1)
        BY <3>1, <1>4
      <3> QED BY <3>2, <3>3, <1>1
    <2>7. n \in 0..Capacity /\ n <= l + 1 /\ n > 0
      BY <1>1, <2>1
    <2> QED BY <2>5, <2>6, <2>7 DEF HoldsLast
  <1> QED BY <1>5, <1>6

LEMMA EmitKeeps ==
  ASSUME BrokerInv, Emit
  PROVE  BrokerInv'
  <1>1. /\ BrokerTypeOK /\ BufferOK /\ CursorOK /\ BeatOK /\ BatchReads
        /\ FillOK /\ Kept
    BY DEF BrokerInv
  <1>2. /\ emitted' = emitted + 1 /\ emitted < MaxEvents
        /\ cursor' = cursor /\ beat' = beat /\ sync' = sync /\ fill' = fill
        /\ deals' = deals /\ order' = order /\ faults' = faults
        /\ lost' = IF ~shim.up /\ ~RestartShows
                   THEN lost \cup Untraced' ELSE lost
    BY DEF Emit, LosesIf
  <1>f. /\ emitted \in Nat /\ emitted <= MaxEvents
        /\ shim.up \in BOOLEAN /\ shim.epoch \in 1..MaxEpochs
        /\ shim.last \in Nat /\ shim.last <= emitted
        /\ AfterSeq \in 0..MaxEvents
        /\ MaxEvents \in Nat /\ MaxEpochs \in Nat /\ Capacity \in Nat \ {0}
    BY <1>1, Facts DEF BufferOK
  <1>q. shim.buf \in Seq(1..MaxEvents) /\ Len(shim.buf) \in 0..Capacity
    BY <1>1, Facts
  <1>3. shim.up =>
          /\ shim'.up /\ shim'.epoch = shim.epoch
          /\ shim'.last = shim.last + 1
    BY <1>1 DEF Emit, BrokerTypeOK
  <1>r. shim.up =>
          /\ shim'.buf = Retained(Append(shim.buf, emitted + 1))
          /\ shim' \in [up : BOOLEAN, epoch : 1..MaxEpochs,
                        last : {shim.last + 1}, buf : {shim'.buf}]
    BY <1>1 DEF Emit, BrokerTypeOK
  <1>4. ~shim.up => shim' = shim
    BY DEF Emit
  <1>5. Day \subseteq Day' /\ Day' = Day \cup {emitted + 1}
    BY <1>2, <1>f DEF Day
  <1>l. /\ lost \subseteq lost' /\ lost' \subseteq Day'
        /\ ~shim.up /\ ~RestartShows => Kept'
    <2> DEFINE c == ~shim.up /\ ~RestartShows
    <2>1. c \in BOOLEAN /\ lost' = IF c THEN lost \cup Untraced' ELSE lost
      BY <1>2
    <2>2. lost \subseteq Day
      BY <1>1 DEF BrokerTypeOK
    <2> HIDE DEF c
    <2>3. lost \subseteq lost' /\ lost' \subseteq Day' /\ (c => Kept')
      BY <2>1, <2>2, <1>5, LossFacts
    <2> QED BY <2>3 DEF c
  <1>6. shim'.up = shim.up /\ shim'.epoch = shim.epoch
    BY <1>3, <1>4, <1>f
  <1>7. AfterSeq' = AfterSeq
    BY <1>6, <1>2 DEF AfterSeq
  <1>8. \A u : Stale(u)' <=> Stale(u)
    BY <1>6 DEF Stale
  <1>9. RestartShows => RestartShows'
    BY <1>8, <1>2 DEF RestartShows
  <1>10. shim.up => Base' = Base
    BY <1>2, <1>3, <1>f DEF Base
  <1>b. shim.up =>
          /\ shim'.buf \in Seq(1..MaxEvents) /\ Len(shim'.buf) \in 0..Capacity
          /\ Len(shim'.buf) <= shim.last + 1 /\ Len(shim'.buf) > 0
          /\ \A i \in 1..Len(shim'.buf) :
               shim'.buf[i] = (emitted + 1) - Len(shim'.buf) + i
    <2> SUFFICES ASSUME shim.up
                 PROVE  /\ shim'.buf \in Seq(1..MaxEvents)
                        /\ Len(shim'.buf) \in 0..Capacity
                        /\ Len(shim'.buf) <= shim.last + 1
                        /\ Len(shim'.buf) > 0
                        /\ \A i \in 1..Len(shim'.buf) :
                             shim'.buf[i]
                               = (emitted + 1) - Len(shim'.buf) + i
      OBVIOUS
    <2>1. /\ emitted + 1 \in 1..MaxEvents
          /\ Len(shim.buf) <= Capacity /\ Len(shim.buf) <= shim.last
      BY <1>1, <1>f, <1>q, <1>2 DEF BufferOK
    <2>2. \A i \in 1..Len(shim.buf) :
            shim.buf[i] = emitted - Len(shim.buf) + i
      BY <1>1 DEF BufferOK
    <2>3. /\ shim'.buf = Retained(Append(shim.buf, emitted + 1))
          /\ emitted \in Nat /\ shim.last \in Nat
          /\ shim.buf \in Seq(1..MaxEvents)
      BY <1>f, <1>q, <1>r
    <2> DEFINE q == shim.buf
               b == shim'.buf
               l == shim.last
               m == emitted
    <2>4. /\ q \in Seq(1..MaxEvents) /\ m \in Nat /\ l \in Nat
          /\ m + 1 \in 1..MaxEvents /\ Len(q) <= l
          /\ Len(q) <= Capacity
          /\ HoldsLast(q, m)
          /\ b = Retained(Append(q, m + 1))
      BY <2>1, <2>2, <2>3 DEF HoldsLast
    <2> HIDE DEF q, b, l, m
    <2>5. /\ b \in Seq(1..MaxEvents) /\ Len(b) \in 0..Capacity
          /\ Len(b) <= l + 1 /\ Len(b) > 0
          /\ HoldsLast(b, m + 1)
      BY <2>4, RetainedFacts
    <2> QED BY <2>5 DEF b, l, m, HoldsLast
  <1>11. BrokerTypeOK'
    <2>1. shim' \in [up : BOOLEAN, epoch : 1..MaxEpochs, last : 0..MaxEvents,
               buf : UNION {[1..n -> 1..MaxEvents] : n \in 0..Capacity}]
      <3>1. CASE shim.up
        <4>1. shim.last + 1 \in 0..MaxEvents
          BY <1>f, <1>2
        <4>2. shim'.buf \in
                UNION {[1..n -> 1..MaxEvents] : n \in 0..Capacity}
          BY <3>1, <1>b, BufferShape
        <4> QED BY <4>1, <4>2, <3>1, <1>r
      <3>2. CASE ~shim.up
        BY <3>2, <1>4, <1>1 DEF BrokerTypeOK
      <3> QED BY <3>1, <3>2
    <2>2. emitted' \in 0..MaxEvents /\ order' \in 0..emitted'
          /\ deals' \subseteq Day'
      BY <1>1, <1>2, <1>f, <1>5 DEF BrokerTypeOK
    <2> QED BY <2>1, <2>2, <1>1, <1>2, <1>l DEF BrokerTypeOK
  <1>12. BufferOK'
    <2>1. CASE shim.up
      <3>1. shim'.up /\ shim'.last = shim.last + 1 /\ emitted' = emitted + 1
        BY <2>1, <1>2, <1>3
      <3>2. shim'.buf # <<>>
        BY <2>1, <1>b
      <3>4. shim.last + 1 <= emitted + 1
        BY <1>f
      <3>3. /\ Len(shim'.buf) <= shim'.last /\ shim'.last <= emitted'
            /\ \A i \in 1..Len(shim'.buf) :
                 shim'.buf[i] = emitted' - Len(shim'.buf) + i
        BY <2>1, <3>1, <3>4, <1>b
      <3> QED BY <3>1, <3>2, <3>3 DEF BufferOK
    <2>2. CASE ~shim.up
      <3>1. shim' = shim /\ shim.last = 0 /\ shim.epoch < MaxEpochs
            /\ Len(shim.buf) = 0
        BY <2>2, <1>1, <1>4, <1>f, <1>q DEF BufferOK
      <3>2. \A i \in 1..Len(shim.buf) : FALSE
        BY <3>1
      <3> QED BY <3>1, <3>2, <1>2, <1>f DEF BufferOK
    <2> QED BY <2>1, <2>2
  <1>13. CursorOK'
    BY <1>1, <1>2, <1>3, <1>4, <1>6, <1>7, <1>f DEF CursorOK
  <1>14. BeatOK'
    <2>1. BatchType \subseteq BatchType'
      BY <1>5, <1>6 DEF BatchType
    <2> QED BY <2>1, <1>1, <1>2, <1>5 DEF BeatOK
  <1>15. BatchReads'
    <2> SUFFICES ASSUME beat.pc = "batch", ~Stale(beat.batch.epoch)
                 PROVE  BatchReads'
      BY <1>2, <1>8 DEF BatchReads
    <2>1. shim.up /\ shim'.last = shim.last + 1
      BY <1>3 DEF Stale
    <2>2. /\ beat.batch.next \in 0..MaxEvents
          /\ AfterSeq <= beat.batch.next /\ beat.batch.next <= shim.last
      BY <1>1 DEF BatchReads, BeatOK, BatchType
    <2>3. ASSUME NEW e \in Day', Base + AfterSeq < e,
                 e <= Base + beat.batch.next
          PROVE  e \in beat.batch.rows \/ beat.batch.dropped
      <3>1. CASE e \in Day
        BY <3>1, <2>3, <1>1 DEF BatchReads
      <3>2. CASE e = emitted + 1
        BY <3>2, <2>1, <2>2, <2>3, <1>f DEF Base
      <3> QED BY <3>1, <3>2, <1>5
    <2>4. AfterSeq <= beat.batch.next /\ beat.batch.next <= shim.last + 1
      BY <2>2, <1>f
    <2> QED BY <2>1, <2>3, <2>4, <1>2, <1>7, <1>10 DEF BatchReads
  <1>16. FillOK'
    BY <1>1, <1>2 DEF FillOK
  <1>18. Kept'
    <2> SUFFICES ASSUME NEW e \in Day' PROVE KeptEvent(e)'
      BY DEF Kept
    <2>1. CASE ~shim.up
      <3>1. CASE RestartShows
        BY <3>1, <1>9 DEF KeptEvent
      <3>2. CASE ~RestartShows
        BY <2>1, <3>2, <1>l DEF Kept
      <3> QED BY <3>1, <3>2
    <2>2. CASE shim.up /\ e \in Day
      <3>1. KeptEvent(e)
        BY <2>2, <1>1 DEF Kept
      <3>2. Unread(e) => Unread(e)'
        BY <2>2, <1>6, <1>7, <1>10 DEF Unread, Base
      <3>3. Owed(e) => Owed(e)'
        BY <1>2 DEF Owed
      <3> QED BY <3>1, <3>2, <3>3, <1>2, <1>9, <1>l DEF KeptEvent
    <2>3. CASE shim.up /\ e = emitted + 1
      <3>1. AfterSeq <= shim.last
        BY <2>3, <1>1 DEF CursorOK
      <3>2. Unread(e)'
        BY <3>1, <2>3, <1>f, <1>6, <1>7, <1>10 DEF Unread, Base
      <3> QED BY <3>2 DEF KeptEvent
    <2> QED BY <2>1, <2>2, <2>3, <1>5
  <1> QED BY <1>11, <1>12, <1>13, <1>14, <1>15, <1>16, <1>18
          DEF BrokerInv

(* The process ends: the cursor or the batch of its epoch now shows it.    *)
LEMMA ShimDownKeeps ==
  ASSUME BrokerInv, ShimDown
  PROVE  BrokerInv'
  <1>1. /\ BrokerTypeOK /\ BufferOK /\ CursorOK /\ BeatOK /\ BatchReads
        /\ FillOK /\ Kept
    BY DEF BrokerInv
  <1>2. /\ emitted' = emitted /\ cursor' = cursor /\ beat' = beat
        /\ sync' = sync /\ fill' = fill /\ deals' = deals /\ order' = order
        /\ faults' = faults
        /\ shim.up /\ shim.epoch < MaxEpochs
        /\ lost' = IF cursor = NoCursor /\ beat.pc # "batch"
                   THEN lost \cup Untraced' ELSE lost
    BY DEF ShimDown, LosesIf
  <1>3. /\ ~shim'.up /\ shim'.epoch = shim.epoch /\ shim'.last = 0
        /\ shim'.buf = <<>>
    BY <1>1 DEF ShimDown, BrokerTypeOK
  <1>f. /\ emitted \in Nat /\ MaxEvents \in Nat /\ Capacity \in Nat
        /\ lost \subseteq Day
    BY <1>1, Facts DEF BrokerTypeOK
  <1>4. Day' = Day /\ BatchType' = BatchType
    BY <1>2, <1>3 DEF Day, BatchType
  <1>5. \A u : Stale(u)'
    BY <1>3 DEF Stale
  <1>6. lost' \subseteq Day' /\ (RestartShows' \/ Kept')
    <2> DEFINE c == cursor = NoCursor /\ beat.pc # "batch"
    <2>1. c \in BOOLEAN /\ lost' = IF c THEN lost \cup Untraced' ELSE lost
      BY <1>2
    <2>2. ~c => RestartShows'
      BY <1>2, <1>5 DEF RestartShows
    <2> HIDE DEF c
    <2>3. lost' \subseteq Day' /\ (c => Kept')
      BY <2>1, <1>4, <1>f, LossFacts
    <2> QED BY <2>2, <2>3
  <1>7. BrokerTypeOK'
    <2>1. <<>> \in UNION {[1..n -> 1..MaxEvents] : n \in 0..Capacity}
      <3>1. <<>> \in Seq(1..MaxEvents) /\ Len(<<>>) \in 0..Capacity
        BY <1>f
      <3> QED BY <3>1, BufferShape
    <2>2. shim' \in [up : BOOLEAN, epoch : 1..MaxEpochs, last : 0..MaxEvents,
               buf : UNION {[1..n -> 1..MaxEvents] : n \in 0..Capacity}]
      <3> DEFINE B == UNION {[1..n -> 1..MaxEvents] : n \in 0..Capacity}
      <3>1. /\ shim \in [up : BOOLEAN, epoch : 1..MaxEpochs,
                         last : 0..MaxEvents, buf : B]
            /\ <<>> \in B /\ 0 \in 0..MaxEvents
        <4>1. shim \in [up : BOOLEAN, epoch : 1..MaxEpochs,
                        last : 0..MaxEvents, buf : B]
          BY <1>1 DEF BrokerTypeOK
        <4>2. 0 \in 0..MaxEvents
          BY <1>f
        <4> QED BY <2>1, <4>1, <4>2
      <3>2. shim' = [shim EXCEPT !.up = FALSE, !.last = 0, !.buf = <<>>]
        BY DEF ShimDown
      <3> HIDE DEF B
      <3> DEFINE none == <<>>
      <3>3. /\ none \in B
            /\ shim' = [shim EXCEPT !.up = FALSE, !.last = 0, !.buf = none]
        BY <3>1, <3>2
      <3> HIDE DEF none
      <3>4. shim' \in [up : BOOLEAN, epoch : 1..MaxEpochs,
                       last : 0..MaxEvents, buf : B]
        BY <3>1, <3>3
      <3> QED BY <3>4 DEF B
    <2> QED BY <2>2, <1>1, <1>2, <1>4, <1>6, <1>f DEF BrokerTypeOK
  <1>8. BufferOK'
    <2>1. Len(shim'.buf) = 0
      BY <1>3
    <2>2. \A i \in 1..Len(shim'.buf) : FALSE
      BY <2>1
    <2> QED BY <2>1, <2>2, <1>2, <1>3, <1>f DEF BufferOK
  <1>9. CursorOK'
    BY <1>1, <1>2, <1>3 DEF CursorOK
  <1>10. BeatOK'
    BY <1>1, <1>2, <1>4 DEF BeatOK
  <1>11. BatchReads'
    BY <1>5 DEF BatchReads
  <1>12. FillOK'
    BY <1>1, <1>2 DEF FillOK
  <1>13. Kept'
    BY <1>6 DEF Kept, KeptEvent
  <1> QED BY <1>7, <1>8, <1>9, <1>10, <1>11, <1>12, <1>13
          DEF BrokerInv

(* A new process has a new epoch, and what is of an old one stays stale.   *)
LEMMA ShimUpKeeps ==
  ASSUME BrokerInv, ShimUp
  PROVE  BrokerInv'
  <1>1. /\ BrokerTypeOK /\ BufferOK /\ CursorOK /\ BeatOK /\ BatchReads
        /\ FillOK /\ Kept
    BY DEF BrokerInv
  <1>2. /\ emitted' = emitted /\ cursor' = cursor /\ beat' = beat
        /\ sync' = sync /\ fill' = fill /\ deals' = deals /\ order' = order
        /\ faults' = faults /\ lost' = lost /\ ~shim.up
    BY DEF ShimUp
  <1>3. /\ shim'.up /\ shim'.epoch = shim.epoch + 1 /\ shim'.last = shim.last
        /\ shim'.buf = shim.buf
    BY <1>1 DEF ShimUp, BrokerTypeOK
  <1>f. /\ emitted \in Nat /\ MaxEvents \in Nat /\ MaxEpochs \in Nat
        /\ shim.epoch \in 1..MaxEpochs /\ shim.epoch < MaxEpochs
        /\ shim.last = 0 /\ cursor.epoch \in 0..MaxEpochs
        /\ cursor.epoch <= shim.epoch
    BY <1>1, <1>2, Facts DEF BufferOK, CursorOK
  <1>4. Day' = Day /\ BatchType \subseteq BatchType'
    BY <1>2, <1>3, <1>f DEF Day, BatchType
  <1>5. AfterSeq' = 0
    BY <1>2, <1>3, <1>f DEF AfterSeq
  <1>6. Stale(cursor.epoch)'
    BY <1>2, <1>3, <1>f DEF Stale
  <1>7. beat.pc = "batch" => Stale(beat.batch.epoch)'
    <2> SUFFICES ASSUME beat.pc = "batch" PROVE Stale(beat.batch.epoch)'
      OBVIOUS
    <2>1. beat.batch.epoch \in 1..shim.epoch
      BY <1>1 DEF BeatOK, BatchType
    <2> QED BY <2>1, <1>2, <1>3, <1>f DEF Stale
  <1>8. RestartShows => RestartShows'
    BY <1>2, <1>6, <1>7 DEF RestartShows
  <1>9. BrokerTypeOK'
    <2>1. shim' \in [up : BOOLEAN, epoch : 1..MaxEpochs, last : 0..MaxEvents,
               buf : UNION {[1..n -> 1..MaxEvents] : n \in 0..Capacity}]
      <3>1. shim.epoch + 1 \in 1..MaxEpochs
        BY <1>f
      <3> QED BY <3>1, <1>1 DEF ShimUp, BrokerTypeOK
    <2> QED BY <2>1, <1>1, <1>2, <1>4 DEF BrokerTypeOK
  <1>10. BufferOK'
    BY <1>1, <1>2, <1>3 DEF BufferOK
  <1>11. CursorOK'
    BY <1>1, <1>2, <1>3, <1>5, <1>f DEF CursorOK
  <1>12. BeatOK'
    BY <1>1, <1>2, <1>4 DEF BeatOK
  <1>13. BatchReads'
    BY <1>2, <1>7 DEF BatchReads
  <1>14. FillOK'
    BY <1>1, <1>2 DEF FillOK
  <1>15. Kept'
    <2> SUFFICES ASSUME NEW e \in Day PROVE KeptEvent(e)'
      BY <1>4 DEF Kept
    <2>1. KeptEvent(e)
      BY <1>1 DEF Kept
    <2>2. ~Unread(e)
      BY <1>2 DEF Unread
    <2>3. Owed(e) => Owed(e)'
      BY <1>2 DEF Owed
    <2> QED BY <2>1, <2>2, <2>3, <1>2, <1>8 DEF KeptEvent
  <1> QED BY <1>9, <1>10, <1>11, <1>12, <1>13, <1>14, <1>15
          DEF BrokerInv

-----------------------------------------------------------------------------
(* What the other steps leave alone                                        *)

LEMMA SameShim ==
  ASSUME BrokerInv, emitted' = emitted, shim' = shim
  PROVE  /\ BufferOK' /\ Base' = Base /\ Day' = Day /\ BatchType' = BatchType
         /\ \A u : Stale(u)' <=> Stale(u)
  <1>1. BufferOK' <=> BufferOK
    BY DEF BufferOK
  <1>2. Base' = Base /\ Day' = Day /\ BatchType' = BatchType
    BY DEF Base, Day, BatchType
  <1> QED BY <1>1, <1>2 DEF BrokerInv, Stale

LEMMA SameCursor ==
  ASSUME BrokerInv, emitted' = emitted, shim' = shim, cursor' = cursor
  PROVE  /\ CursorOK' /\ AfterSeq' = AfterSeq
         /\ \A e : Unread(e)' <=> Unread(e)
         /\ cursor # NoCursor /\ Stale(cursor.epoch)
              => cursor' # NoCursor /\ Stale(cursor.epoch)'
  <1>1. AfterSeq' = AfterSeq
    BY DEF AfterSeq
  <1>2. CursorOK' <=> CursorOK
    BY <1>1 DEF CursorOK
  <1> QED BY <1>1, <1>2, SameShim DEF BrokerInv, Unread

(* A step of the heartbeat without a batch, and of the other writers: what *)
(* they do to one push is enough.                                          *)
LEMMA NoBatchKeeps ==
  ASSUME BrokerInv, emitted' = emitted, shim' = shim, cursor' = cursor,
         lost \subseteq lost', beat' = beat \/ (beat.pc # "batch" /\ beat'.pc # "batch"),
         deals \subseteq deals',
         \A e \in Day : Owed(e) => Owed(e)' \/ e \in deals'
  PROVE  BatchReads' /\ Kept'
  <1>1. BatchReads /\ Kept
    BY DEF BrokerInv
  <1>2. BatchReads'
    <2>1. CASE beat' = beat
      BY <2>1, <1>1, SameShim, SameCursor DEF BatchReads
    <2>2. CASE beat'.pc # "batch"
      BY <2>2 DEF BatchReads
    <2> QED BY <2>1, <2>2
  <1>3. RestartShows => RestartShows'
    <2>1. CASE beat' = beat
      BY <2>1, SameShim, SameCursor DEF RestartShows
    <2>2. CASE beat.pc # "batch" /\ beat'.pc # "batch"
      BY <2>2, SameCursor DEF RestartShows
    <2> QED BY <2>1, <2>2
  <1>5. Kept'
    <2> SUFFICES ASSUME NEW e \in Day PROVE KeptEvent(e)'
      BY SameShim DEF Kept
    <2>1. KeptEvent(e)
      BY <1>1 DEF Kept
    <2>2. Unread(e) => Unread(e)'
      BY SameCursor
    <2>3. Owed(e) => Owed(e)' \/ e \in deals'
      OBVIOUS
    <2>4. (e \in deals => e \in deals') /\ (e \in lost => e \in lost')
      OBVIOUS
    <2> QED BY <2>1, <2>2, <2>3, <2>4, <1>3 DEF KeptEvent
  <1> QED BY <1>2, <1>5

-----------------------------------------------------------------------------
(* The heartbeat's steps with a batch                                      *)

LEMMA PollKeeps ==
  ASSUME BrokerInv, Poll
  PROVE  BrokerInv'
  <1>1. /\ BrokerTypeOK /\ BufferOK /\ CursorOK /\ BeatOK /\ BatchReads
        /\ FillOK /\ Kept
    BY DEF BrokerInv
  <1> DEFINE b == Read(AfterSeq)
  <1>2. /\ emitted' = emitted /\ shim' = shim /\ cursor' = cursor
        /\ sync' = sync /\ fill' = fill /\ deals' = deals /\ order' = order
        /\ faults' = faults /\ lost' = lost
        /\ beat.pc = "idle" /\ shim.up
        /\ beat'.pc = "batch" /\ beat'.batch = b
    BY DEF Poll
  <1>3. /\ b \in BatchType /\ b.epoch = shim.epoch /\ b.next = shim.last
        /\ \A e \in Day : Base + AfterSeq < e => e \in b.rows \/ b.dropped
    BY <1>1, <1>2, ReadFacts
  <1> HIDE DEF b
  <1>4. /\ BufferOK' /\ Base' = Base /\ Day' = Day /\ BatchType' = BatchType
        /\ \A u : Stale(u)' <=> Stale(u)
    BY <1>2, SameShim
  <1>5. /\ CursorOK' /\ AfterSeq' = AfterSeq
        /\ \A e : Unread(e)' <=> Unread(e)
        /\ cursor # NoCursor /\ Stale(cursor.epoch)
             => cursor' # NoCursor /\ Stale(cursor.epoch)'
    BY <1>2, SameCursor
  <1>6. BrokerTypeOK'
    BY <1>1, <1>2, <1>4 DEF BrokerTypeOK
  <1>7. BeatOK'
    BY <1>1, <1>2, <1>3, <1>4 DEF BeatOK, CursorOK
  <1>8. BatchReads'
    <2>1. AfterSeq <= shim.last
      BY <1>1, <1>2 DEF CursorOK
    <2>2. AfterSeq' <= beat'.batch.next /\ beat'.batch.next <= shim'.last
      BY <2>1, <1>1, <1>2, <1>3, <1>5, Facts
    <2>3. \A e \in Day' : Base' + AfterSeq' < e
            => e \in beat'.batch.rows \/ beat'.batch.dropped
      BY <1>2, <1>3, <1>4, <1>5
    <2> QED BY <2>2, <2>3 DEF BatchReads
  <1>9. FillOK'
    BY <1>1, <1>2 DEF FillOK
  <1>10. RestartShows => RestartShows'
    BY <1>2, <1>5 DEF RestartShows
  <1>12. Kept'
    <2> SUFFICES ASSUME NEW e \in Day PROVE KeptEvent(e)'
      BY <1>4 DEF Kept
    <2>1. KeptEvent(e)
      BY <1>1 DEF Kept
    <2>2. Owed(e) => Owed(e)'
      BY <1>2 DEF Owed
    <2> QED BY <2>1, <2>2, <1>2, <1>5, <1>10 DEF KeptEvent
  <1> QED BY <1>4, <1>5, <1>6, <1>7, <1>8, <1>9, <1>12 DEF BrokerInv

(* A batch that is written moves the cursor: past rows it has, or to a     *)
(* loss that it shows, or to an epoch that is no more.                     *)
LEMMA ConsumeKeeps ==
  ASSUME BrokerInv, Consume
  PROVE  BrokerInv'
  <1>1. /\ BrokerTypeOK /\ BufferOK /\ CursorOK /\ BeatOK /\ BatchReads
        /\ FillOK /\ Kept
    BY DEF BrokerInv
  <1> DEFINE b == beat.batch
             gap == Gap(beat.batch)
  <1>2. /\ emitted' = emitted /\ shim' = shim /\ sync' = sync
        /\ fill' = fill /\ faults' = faults /\ lost' = lost
        /\ beat.pc = "batch"
        /\ beat'.pc = "decide" /\ beat'.gap = gap
        /\ cursor'.epoch = b.epoch
        /\ cursor'.last = IF b.rows # {} THEN b.next
                          ELSE IF b.epoch = cursor.epoch THEN cursor.last
                          ELSE 0
        /\ cursor' = NextCursor(b)
    BY DEF Consume, NextCursor
  <1>3. /\ b.epoch \in 1..shim.epoch /\ b.rows \in SUBSET Day
        /\ b.next \in 0..MaxEvents /\ b.dropped \in BOOLEAN
        /\ cursor.epoch <= b.epoch
    BY <1>1, <1>2 DEF BeatOK, BatchType
  <1>f. /\ shim.epoch \in 1..MaxEpochs /\ MaxEpochs \in Nat
        /\ cursor.epoch \in 0..MaxEpochs /\ cursor.last \in 0..MaxEvents
        /\ MaxEvents \in Nat /\ shim.up \in BOOLEAN /\ shim.last \in Nat
        /\ Base \in Int /\ AfterSeq \in 0..MaxEvents /\ emitted \in Nat
        /\ AfterSeq = IF cursor.epoch = shim.epoch THEN cursor.last ELSE 0
    BY <1>1, Facts DEF AfterSeq
  <1>4. /\ BufferOK' /\ Base' = Base /\ Day' = Day /\ BatchType' = BatchType
        /\ \A u : Stale(u)' <=> Stale(u)
    BY <1>2, SameShim
  <1>5. /\ deals' = deals \cup b.rows /\ deals' \subseteq Day
        /\ order' \in 0..emitted
    BY <1>1, <1>3, WriteFacts DEF Consume
  <1>6. cursor' # NoCursor
    <2>1. cursor'.epoch # 0
      BY <1>2, <1>3
    <2> QED BY <2>1 DEF NoCursor
  <1>7. gap <=> \/ b.dropped
                \/ cursor # NoCursor
                   /\ \/ b.epoch # cursor.epoch
                      \/ b.rows # {} /\ b.first > cursor.last + 1
    BY DEF Gap
  <1>8. gap \in BOOLEAN
    BY DEF Gap
  <1> HIDE DEF b, gap
  <1>9. cursor'.last \in 0..MaxEvents /\ cursor'.epoch \in 1..shim.epoch
    BY <1>2, <1>3, <1>f
  <1>10. BrokerTypeOK'
    <2>1. cursor' \in [epoch : 0..MaxEpochs, last : 0..MaxEvents]
      <3>1. cursor' = [epoch |-> cursor'.epoch, last |-> cursor'.last]
        BY <1>2 DEF NextCursor
      <3>2. cursor'.epoch \in 0..MaxEpochs
        BY <1>9, <1>f
      <3> QED BY <3>1, <3>2, <1>9
    <2> QED BY <2>1, <1>1, <1>2, <1>4, <1>5 DEF BrokerTypeOK
  <1>11. ~Stale(b.epoch) =>
           /\ shim.up /\ b.epoch = shim.epoch
           /\ AfterSeq <= b.next /\ b.next <= shim.last
           /\ AfterSeq' = IF b.rows # {} THEN b.next ELSE AfterSeq
           /\ AfterSeq <= shim.last
    <2> SUFFICES ASSUME ~Stale(b.epoch)
                 PROVE  /\ shim.up /\ b.epoch = shim.epoch
                        /\ AfterSeq <= b.next /\ b.next <= shim.last
                        /\ AfterSeq' = IF b.rows # {} THEN b.next ELSE AfterSeq
                        /\ AfterSeq <= shim.last
      OBVIOUS
    <2>1. shim.up /\ b.epoch = shim.epoch
      BY DEF Stale
    <2>2. AfterSeq <= b.next /\ b.next <= shim.last
      BY <1>1, <1>2 DEF BatchReads, b
    <2>3. AfterSeq' = cursor'.last
      BY <2>1, <1>2 DEF AfterSeq
    <2>4. AfterSeq' = IF b.rows # {} THEN b.next ELSE AfterSeq
      BY <2>1, <2>3, <1>2, <1>f
    <2>5. AfterSeq <= shim.last
      BY <2>1, <1>1 DEF CursorOK
    <2> QED BY <2>1, <2>2, <2>4, <2>5
  <1>12. CursorOK'
    <2>1. shim'.up => AfterSeq' <= shim'.last
      <3>1. CASE Stale(b.epoch) /\ shim.up
        <4>1. AfterSeq' = 0
          BY <3>1, <1>2 DEF Stale, AfterSeq
        <4> QED BY <4>1, <1>2, <1>f
      <3>2. CASE ~Stale(b.epoch)
        BY <3>2, <1>2, <1>11
      <3> QED BY <3>1, <3>2, <1>2
    <2> QED BY <2>1, <1>2, <1>9 DEF CursorOK
  <1>13. BeatOK'
    BY <1>1, <1>2, <1>4, <1>8 DEF BeatOK
  <1>14. BatchReads'
    BY <1>2 DEF BatchReads
  <1>15. FillOK'
    BY <1>1, <1>2 DEF FillOK
  <1>16. Stale(b.epoch) => RestartShows'
    <2>1. Stale(b.epoch) => Stale(cursor.epoch)'
      BY <1>2 DEF Stale
    <2> QED BY <2>1, <1>6 DEF RestartShows
  <1>17. RestartShows => RestartShows' \/ gap
    <2> SUFFICES ASSUME RestartShows, ~Stale(b.epoch) PROVE gap
      BY <1>16
    <2>1. cursor # NoCursor /\ Stale(cursor.epoch)
      BY DEF RestartShows, b
    <2>2. b.epoch # cursor.epoch
      BY <2>1
    <2> QED BY <2>1, <2>2, <1>7
  <1>19. Kept'
    <2> SUFFICES ASSUME NEW e \in Day, ~gap, ~Stale(b.epoch)
                 PROVE  KeptEvent(e)'
      <3>1. gap => \A e \in Day : Owed(e)'
        BY <1>2 DEF Owed
      <3> QED BY <3>1, <1>4, <1>16 DEF Kept, KeptEvent
    <2>1. KeptEvent(e)
      BY <1>1 DEF Kept
    <2>2. ~RestartShows \/ RestartShows'
      BY <1>17
    <2>3. Owed(e) => Owed(e)'
      <3>1. Owed(e) => fill.running \/ fill.open \/ fill.failed >= MaxAttempts
        BY <1>2 DEF Owed
      <3> QED BY <3>1, <1>2 DEF Owed
    <2>4. Unread(e) => Unread(e)' \/ e \in deals'
      <3> SUFFICES ASSUME Unread(e), ~Unread(e)' PROVE e \in b.rows
        BY <1>5
      <3>1. e \in Nat /\ e > Base + AfterSeq /\ ~(e > Base + AfterSeq')
        BY <1>2, <1>4, <1>f, <1>11 DEF Unread, Day, Base
      <3>2. AfterSeq' = b.next
        BY <3>1, <1>11
      <3>3. Base + AfterSeq < e /\ e <= Base + b.next
        BY <3>1, <3>2, <1>3, <1>f
      <3>4. e \in b.rows \/ b.dropped
        BY <3>3, <1>1, <1>2 DEF BatchReads, b
      <3> QED BY <3>4, <1>7
    <2> QED BY <2>1, <2>2, <2>3, <2>4, <1>2, <1>5 DEF KeptEvent
  <1> QED BY <1>4, <1>10, <1>12, <1>13, <1>14, <1>15, <1>19
          DEF BrokerInv

(* A batch that fails leaves the cursor where it was, behind the batch.    *)
LEMMA ConsumeFailsKeeps ==
  ASSUME BrokerInv, ConsumeFails
  PROVE  BrokerInv'
  <1>1. /\ BrokerTypeOK /\ BufferOK /\ CursorOK /\ BeatOK /\ BatchReads
        /\ FillOK /\ Kept
    BY DEF BrokerInv
  <1> DEFINE b == beat.batch
  <1>2. /\ emitted' = emitted /\ shim' = shim /\ cursor' = cursor
        /\ sync' = sync /\ fill' = fill /\ order' = order
        /\ beat.pc = "batch" /\ beat'.pc = "decide" /\ beat'.gap = FALSE
        /\ lost' = IF cursor = NoCursor /\ Stale(b.epoch)
                   THEN lost \cup Untraced' ELSE lost
        /\ faults < MaxFaults /\ faults' = faults + 1
        /\ deals' \in {deals, deals \cup b.rows}
    BY DEF ConsumeFails, Fault, LosesIf
  <1>3. /\ b.epoch \in 1..shim.epoch /\ b.rows \in SUBSET Day
        /\ cursor.epoch <= b.epoch
    BY <1>1, <1>2 DEF BeatOK, BatchType
  <1>f. /\ shim.epoch \in 1..MaxEpochs /\ MaxEpochs \in Nat
        /\ cursor.epoch \in 0..MaxEpochs /\ faults \in 0..MaxFaults
        /\ MaxFaults \in Nat /\ lost \subseteq Day
    BY <1>1, Facts DEF BrokerTypeOK
  <1>4. /\ BufferOK' /\ Base' = Base /\ Day' = Day /\ BatchType' = BatchType
        /\ \A u : Stale(u)' <=> Stale(u)
    BY <1>2, SameShim
  <1>5. /\ CursorOK' /\ AfterSeq' = AfterSeq
        /\ \A e : Unread(e)' <=> Unread(e)
        /\ cursor # NoCursor /\ Stale(cursor.epoch)
             => cursor' # NoCursor /\ Stale(cursor.epoch)'
    BY <1>2, SameCursor
  <1> HIDE DEF b
  <1> DEFINE c == cursor = NoCursor /\ Stale(b.epoch)
  <1>l. lost \subseteq lost' /\ lost' \subseteq Day' /\ (c => Kept')
    <2>1. c \in BOOLEAN /\ lost' = IF c THEN lost \cup Untraced' ELSE lost
      BY <1>2
    <2> HIDE DEF c
    <2> QED BY <2>1, <1>4, <1>f, LossFacts
  <1>6. BrokerTypeOK'
    <2>1. faults' \in 0..MaxFaults
      BY <1>2, <1>f
    <2>2. deals' \subseteq Day'
      BY <1>1, <1>2, <1>3, <1>4 DEF BrokerTypeOK
    <2> QED BY <2>1, <2>2, <1>1, <1>2, <1>l DEF BrokerTypeOK
  <1>7. BeatOK'
    BY <1>1, <1>2, <1>4 DEF BeatOK
  <1>8. BatchReads'
    BY <1>2 DEF BatchReads
  <1>9. FillOK'
    BY <1>1, <1>2 DEF FillOK
  <1>10. Stale(b.epoch) => Stale(cursor.epoch)
    BY <1>3, <1>f DEF Stale
  <1>11. RestartShows => RestartShows' \/ c
    <2>1. CASE cursor # NoCursor /\ Stale(cursor.epoch)
      BY <2>1, <1>5 DEF RestartShows
    <2>2. CASE Stale(b.epoch)
      BY <2>2, <1>2, <1>5, <1>10 DEF RestartShows
    <2> QED BY <2>1, <2>2 DEF RestartShows, b
  <1>13. Kept'
    <2> SUFFICES ASSUME NEW e \in Day, ~c PROVE KeptEvent(e)'
      BY <1>4, <1>l DEF Kept
    <2>1. KeptEvent(e)
      BY <1>1 DEF Kept
    <2>2. Owed(e) => Owed(e)'
      BY <1>2 DEF Owed
    <2>3. e \in deals => e \in deals'
      BY <1>2
    <2>4. e \in lost => e \in lost'
      BY <1>l
    <2> QED BY <2>1, <2>2, <2>3, <2>4, <1>5, <1>11 DEF KeptEvent
  <1> QED BY <1>4, <1>5, <1>6, <1>7, <1>8, <1>9, <1>13 DEF BrokerInv

-----------------------------------------------------------------------------
(* The heartbeat's other steps: what the tally owes                        *)

LEMMA FillFacts ==
  ASSUME BrokerTypeOK
  PROVE  /\ fill \in [running : BOOLEAN, age : 0..2, failed : 0..MaxAttempts,
                      wait : BOOLEAN, open : BOOLEAN]
         /\ fill.running \in BOOLEAN /\ fill.age \in 0..2
         /\ fill.failed \in 0..MaxAttempts /\ fill.wait \in BOOLEAN
         /\ fill.open \in BOOLEAN /\ MaxAttempts \in Nat \ {0}
  BY BrokerAssumption DEF BrokerTypeOK

(* A run that fails is counted, and still owed.                            *)
LEMMA FailedFacts ==
  ASSUME BrokerTypeOK, FillOK, fill.running, fill' = FailedOnce(fill)
  PROVE  /\ fill' \in [running : BOOLEAN, age : 0..2, failed : 0..MaxAttempts,
                       wait : BOOLEAN, open : BOOLEAN]
         /\ ~fill'.running /\ fill'.open /\ fill'.failed = fill.failed + 1
  <1>1. fill.failed + 1 \in 0..MaxAttempts
    BY FillFacts DEF FillOK
  <1>2. fill' = [fill EXCEPT !.running = FALSE, !.failed = @ + 1,
                             !.wait = TRUE, !.open = TRUE]
    BY DEF FailedOnce
  <1> QED BY <1>1, <1>2, FillFacts

LEMMA FaultFacts ==
  ASSUME BrokerTypeOK, Fault \/ UNCHANGED faults
  PROVE  faults' \in 0..MaxFaults
  <1>1. faults \in 0..MaxFaults /\ MaxFaults \in Nat
    BY Facts DEF BrokerTypeOK
  <1> QED BY <1>1 DEF Fault

LEMMA PollFailsKeeps ==
  ASSUME BrokerInv, PollFails
  PROVE  BrokerInv'
  <1>1. BrokerTypeOK /\ BufferOK /\ CursorOK /\ BeatOK /\ FillOK
    BY DEF BrokerInv
  <1>2. /\ emitted' = emitted /\ shim' = shim /\ cursor' = cursor
        /\ sync' = sync /\ fill' = fill /\ deals' = deals /\ order' = order
        /\ lost' = lost
        /\ beat.pc = "idle" /\ beat'.pc = "decide" /\ beat'.gap = FALSE
    BY DEF PollFails
  <1>3. faults' \in 0..MaxFaults
    BY <1>1, FaultFacts DEF PollFails, CallFails
  <1>4. BufferOK' /\ Day' = Day /\ CursorOK'
    BY <1>2, SameShim, SameCursor
  <1>5. BrokerTypeOK' /\ BeatOK' /\ FillOK'
    BY <1>1, <1>2, <1>3, <1>4 DEF BrokerTypeOK, BeatOK, FillOK
  <1>6. \A e \in Day : Owed(e) => Owed(e)'
    BY <1>2 DEF Owed
  <1>7. BatchReads' /\ Kept'
    BY <1>2, <1>6, NoBatchKeeps
  <1> QED BY <1>4, <1>5, <1>7 DEF BrokerInv

LEMMA CreatedFacts ==
  ASSUME BrokerTypeOK, fill' = Created
  PROVE  /\ fill' \in [running : BOOLEAN, age : 0..2, failed : 0..MaxAttempts,
                       wait : BOOLEAN, open : BOOLEAN]
         /\ fill'.running /\ fill'.failed = fill.failed
         /\ fill'.wait = fill.wait
  <1>1. fill \in [running : BOOLEAN, age : 0..2, failed : 0..MaxAttempts,
                  wait : BOOLEAN, open : BOOLEAN]
    BY FillFacts
  <1>2. fill' = [fill EXCEPT !.running = TRUE, !.age = 0]
    BY DEF Created
  <1>3. fill' \in [running : BOOLEAN, age : 0..2, failed : 0..MaxAttempts,
                   wait : BOOLEAN, open : BOOLEAN]
    <2> DEFINE none == 0
               yes == TRUE
    <2>1. /\ none \in 0..2 /\ yes \in BOOLEAN
          /\ fill' = [fill EXCEPT !.running = yes, !.age = none]
      BY <1>2
    <2> HIDE DEF none, yes
    <2> QED BY <1>1, <2>1
  <1>4. fill'.running /\ fill'.failed = fill.failed
    BY <1>1, <1>2
  <1>5. fill'.wait = fill.wait
    BY <1>1, <1>2
  <1> QED BY <1>3, <1>4, <1>5

LEMMA StartFillKeeps ==
  ASSUME BrokerInv, StartFill
  PROVE  BrokerInv'
  <1>1. BrokerTypeOK /\ BufferOK /\ CursorOK /\ BeatOK /\ FillOK
    BY DEF BrokerInv
  <1>2. /\ emitted' = emitted /\ shim' = shim /\ cursor' = cursor
        /\ sync' = sync /\ deals' = deals /\ order' = order
        /\ faults' = faults /\ lost' = lost
        /\ beat.pc = "decide" /\ beat'.pc = "fetch"
        /\ fill.failed < MaxAttempts /\ ~fill.wait
        /\ fill' = Created
    BY DEF StartFill, MayFill
  <1>3. /\ fill' \in [running : BOOLEAN, age : 0..2, failed : 0..MaxAttempts,
                      wait : BOOLEAN, open : BOOLEAN]
        /\ fill'.running /\ fill'.failed = fill.failed
        /\ fill'.wait = fill.wait
    BY <1>1, <1>2, CreatedFacts
  <1>4. BufferOK' /\ Day' = Day /\ CursorOK'
    BY <1>2, SameShim, SameCursor
  <1>5. BrokerTypeOK' /\ BeatOK' /\ FillOK'
    BY <1>1, <1>2, <1>3, <1>4 DEF BrokerTypeOK, BeatOK, FillOK
  <1>6. \A e \in Day : Owed(e) => Owed(e)'
    BY <1>2, <1>3 DEF Owed
  <1>7. BatchReads' /\ Kept'
    BY <1>2, <1>6, NoBatchKeeps
  <1> QED BY <1>4, <1>5, <1>7 DEF BrokerInv

(* No fill is started only if one runs, one failed lately and is open, or  *)
(* the attempts are used up.                                               *)
LEMMA SkipFillKeeps ==
  ASSUME BrokerInv, SkipFill
  PROVE  BrokerInv'
  <1>1. BrokerTypeOK /\ BufferOK /\ CursorOK /\ BeatOK /\ FillOK
    BY DEF BrokerInv
  <1>2. /\ emitted' = emitted /\ shim' = shim /\ cursor' = cursor
        /\ sync' = sync /\ fill' = fill /\ deals' = deals /\ order' = order
        /\ faults' = faults /\ lost' = lost
        /\ beat.pc = "decide" /\ beat'.pc = "idle"
        /\ ~MayFill(beat.gap) \/ fill.running
    BY DEF SkipFill, Idle
  <1>4. BufferOK' /\ Day' = Day /\ CursorOK'
    BY <1>2, SameShim, SameCursor
  <1>5. BrokerTypeOK' /\ BeatOK' /\ FillOK'
    BY <1>1, <1>2, <1>4 DEF BrokerTypeOK, BeatOK, FillOK
  <1>6. ASSUME NEW e \in Day, Owed(e) PROVE Owed(e)'
    <2>1. CASE beat.gap
      <3>1. ~MayFill(beat.gap) =>
              ~(fill.failed < MaxAttempts) \/ fill.wait
        BY <2>1 DEF MayFill
      <3>2. fill.running \/ fill.open \/ fill.failed >= MaxAttempts
        BY <3>1, <1>1, <1>2, FillFacts DEF FillOK
      <3> QED BY <3>2, <1>2 DEF Owed
    <2>2. CASE ~beat.gap
      BY <2>2, <1>2, <1>6 DEF Owed
    <2> QED BY <2>1, <2>2
  <1>7. BatchReads' /\ Kept'
    BY <1>2, <1>6, NoBatchKeeps
  <1> QED BY <1>4, <1>5, <1>7 DEF BrokerInv

(* The gap of a decision that fails is lost, unless its row was created or *)
(* something else leads to its pushes.                                     *)
LEMMA DecideFailsKeeps ==
  ASSUME BrokerInv, DecideFails
  PROVE  BrokerInv'
  <1>1. BrokerTypeOK /\ BufferOK /\ CursorOK /\ BeatOK /\ FillOK
    BY DEF BrokerInv
  <1>2. /\ emitted' = emitted /\ shim' = shim /\ cursor' = cursor
        /\ sync' = sync /\ deals' = deals /\ order' = order
        /\ beat.pc = "decide" /\ beat'.pc = "idle"
        /\ fill' = fill \/ (MayFill(beat.gap) /\ fill' = Created)
        /\ lost' = IF beat.gap THEN lost \cup Untraced' ELSE lost
    BY DEF DecideFails, Idle, LosesIf
  <1>3. /\ fill' \in [running : BOOLEAN, age : 0..2, failed : 0..MaxAttempts,
                      wait : BOOLEAN, open : BOOLEAN]
        /\ fill' = fill
           \/ (/\ fill.failed < MaxAttempts /\ ~fill.wait
               /\ fill'.running /\ fill'.failed = fill.failed
               /\ fill'.wait = fill.wait)
    <2>1. CASE fill' = fill
      BY <2>1, <1>1, FillFacts
    <2>2. CASE MayFill(beat.gap) /\ fill' = Created
      BY <2>2, <1>1, CreatedFacts DEF MayFill
    <2> QED BY <2>1, <2>2, <1>2
  <1>4. BufferOK' /\ Day' = Day /\ CursorOK' /\ BatchType' = BatchType
    BY <1>2, SameShim, SameCursor
  <1>5. faults' \in 0..MaxFaults
    BY <1>1, FaultFacts DEF DecideFails
  <1>6. lost \subseteq lost' /\ lost' \subseteq Day' /\ (beat.gap => Kept')
    <2>1. beat.gap \in BOOLEAN /\ lost \subseteq Day
      BY <1>1, <1>2 DEF BeatOK, BrokerTypeOK
    <2> QED BY <2>1, <1>2, <1>4, LossFacts
  <1>7. BrokerTypeOK' /\ BeatOK' /\ FillOK'
    <2>1. BrokerTypeOK'
      BY <1>1, <1>2, <1>3, <1>4, <1>5, <1>6 DEF BrokerTypeOK
    <2>2. BeatOK'
      BY <1>1, <1>2, <1>4 DEF BeatOK
    <2>3. FillOK'
      BY <1>1, <1>2, <1>3 DEF FillOK
    <2> QED BY <2>1, <2>2, <2>3
  <1>8. BatchReads'
    BY <1>2 DEF BatchReads
  <1>9. Kept'
    <2> SUFFICES ASSUME ~beat.gap PROVE Kept'
      BY <1>6
    <2>1. \A e \in Day : Owed(e) => Owed(e)'
      BY <1>2, <1>3 DEF Owed
    <2> QED BY <2>1, <1>2, <1>6, NoBatchKeeps
  <1> QED BY <1>4, <1>7, <1>8, <1>9 DEF BrokerInv

LEMMA FillFetchKeeps ==
  ASSUME BrokerInv, FillFetch
  PROVE  BrokerInv'
  <1>1. BrokerTypeOK /\ BufferOK /\ CursorOK /\ BeatOK /\ FillOK
    BY DEF BrokerInv
  <1>2. /\ emitted' = emitted /\ shim' = shim /\ cursor' = cursor
        /\ sync' = sync /\ fill' = fill /\ deals' = deals /\ order' = order
        /\ faults' = faults /\ lost' = lost
        /\ beat.pc = "fetch" /\ beat'.pc = "write" /\ beat'.day = Day
    BY DEF FillFetch
  <1>4. BufferOK' /\ Day' = Day /\ CursorOK'
    BY <1>2, SameShim, SameCursor
  <1>5. BrokerTypeOK' /\ BeatOK' /\ FillOK'
    BY <1>1, <1>2, <1>4 DEF BrokerTypeOK, BeatOK, FillOK
  <1>6. \A e \in Day : Owed(e) => Owed(e)'
    BY <1>2 DEF Owed
  <1>7. BatchReads' /\ Kept'
    BY <1>2, <1>6, NoBatchKeeps
  <1> QED BY <1>4, <1>5, <1>7 DEF BrokerInv

(* The fill that succeeds has the pushes it was owed to.                   *)
LEMMA FillWriteKeeps ==
  ASSUME BrokerInv, FillWrite
  PROVE  BrokerInv'
  <1>1. BrokerTypeOK /\ BufferOK /\ CursorOK /\ BeatOK /\ FillOK
    BY DEF BrokerInv
  <1>2. /\ emitted' = emitted /\ shim' = shim /\ cursor' = cursor
        /\ sync' = sync /\ faults' = faults /\ lost' = lost
        /\ beat.pc = "write" /\ beat'.pc = "idle"
        /\ fill' = Finished
    BY DEF FillWrite, Idle
  <1>3. /\ fill' \in [running : BOOLEAN, age : 0..2, failed : 0..MaxAttempts,
                      wait : BOOLEAN, open : BOOLEAN]
        /\ ~fill'.running /\ fill'.failed = fill.failed
        /\ fill'.wait = fill.wait
        /\ fill.running \/ fill'.open = fill.open
    BY <1>1, <1>2, FillFacts DEF Finished
  <1>4. BufferOK' /\ Day' = Day /\ CursorOK'
    BY <1>2, SameShim, SameCursor
  <1>5. /\ deals' = deals \cup beat.day /\ deals' \subseteq Day
        /\ order' \in 0..emitted
    <2>1. beat.day \in SUBSET Day
      BY <1>1, <1>2 DEF BeatOK
    <2> QED BY <2>1, <1>1, WriteFacts DEF FillWrite
  <1>6. BrokerTypeOK' /\ BeatOK' /\ FillOK'
    <2>1. BrokerTypeOK'
      BY <1>1, <1>2, <1>3, <1>4, <1>5 DEF BrokerTypeOK
    <2>2. BeatOK'
      BY <1>1, <1>2, <1>4 DEF BeatOK
    <2>3. FillOK'
      BY <1>1, <1>2, <1>3 DEF FillOK
    <2> QED BY <2>1, <2>2, <2>3
  <1>7. ASSUME NEW e \in Day, Owed(e) PROVE Owed(e)' \/ e \in deals'
    <2>1. e \in beat.day \/ fill.failed >= MaxAttempts
      BY <1>2, <1>7 DEF Owed
    <2> QED BY <2>1, <1>3, <1>5 DEF Owed
  <1>8. BatchReads' /\ Kept'
    BY <1>2, <1>5, <1>7, NoBatchKeeps
  <1> QED BY <1>4, <1>6, <1>8 DEF BrokerInv

LEMMA FillFailsKeeps ==
  ASSUME BrokerInv, FillFails
  PROVE  BrokerInv'
  <1>1. BrokerTypeOK /\ BufferOK /\ CursorOK /\ BeatOK /\ FillOK
    BY DEF BrokerInv
  <1>2. /\ emitted' = emitted /\ shim' = shim /\ cursor' = cursor
        /\ sync' = sync /\ order' = order /\ lost' = lost
        /\ beat.pc \in {"fetch", "write"} /\ beat'.pc = "idle"
        /\ fill' = IF fill.running THEN FailedOnce(fill) ELSE fill
    BY DEF FillFails, Idle
  <1>3. /\ fill' \in [running : BOOLEAN, age : 0..2, failed : 0..MaxAttempts,
                      wait : BOOLEAN, open : BOOLEAN]
        /\ ~fill'.running /\ fill'.open
    BY <1>1, <1>2, FillFacts, FailedFacts DEF FillOK
  <1>4. BufferOK' /\ Day' = Day /\ CursorOK'
    BY <1>2, SameShim, SameCursor
  <1>5. deals \subseteq deals' /\ deals' \subseteq Day
    BY <1>1 DEF FillFails, BeatOK, BrokerTypeOK
  <1>6. faults' \in 0..MaxFaults
    BY <1>1, FaultFacts DEF FillFails, CallFails
  <1>7. BrokerTypeOK' /\ BeatOK' /\ FillOK'
    <2>1. BrokerTypeOK'
      BY <1>1, <1>2, <1>3, <1>4, <1>5, <1>6 DEF BrokerTypeOK
    <2>2. BeatOK'
      BY <1>1, <1>2, <1>4 DEF BeatOK
    <2>3. FillOK'
      BY <1>2, <1>3 DEF FillOK
    <2> QED BY <2>1, <2>2, <2>3
  <1>8. \A e \in Day : Owed(e)'
    BY <1>2, <1>3 DEF Owed
  <1>9. BatchReads' /\ Kept'
    BY <1>2, <1>5, <1>8, NoBatchKeeps
  <1> QED BY <1>4, <1>7, <1>9 DEF BrokerInv

(* A row whose outcome is not saved stays running, and owed.               *)
LEMMA OutcomeUnsavedKeeps ==
  ASSUME BrokerInv, OutcomeUnsaved
  PROVE  BrokerInv'
  <1>1. BrokerTypeOK /\ BufferOK /\ CursorOK /\ BeatOK /\ FillOK
    BY DEF BrokerInv
  <1>2. /\ emitted' = emitted /\ shim' = shim /\ cursor' = cursor
        /\ sync' = sync /\ fill' = fill /\ lost' = lost
        /\ beat.pc \in {"fetch", "write"} /\ beat'.pc = "idle"
    BY DEF OutcomeUnsaved, Idle
  <1>3. BufferOK' /\ Day' = Day /\ CursorOK'
    BY <1>2, SameShim, SameCursor
  <1>4. /\ deals \subseteq deals' /\ deals' \subseteq Day
        /\ order' \in 0..emitted
    <2>1. CASE beat.pc = "write" /\ WriteRows(beat.day)
      <3>1. beat.day \in SUBSET Day
        BY <2>1, <1>1 DEF BeatOK
      <3> QED BY <2>1, <3>1, <1>1, WriteFacts
    <2>2. CASE /\ beat.pc = "write" /\ deals' \in {deals, deals \cup beat.day}
               /\ order' = order
      BY <2>2, <1>1 DEF BeatOK, BrokerTypeOK
    <2>3. CASE deals' = deals /\ order' = order
      BY <2>3, <1>1 DEF BrokerTypeOK
    <2> QED BY <2>1, <2>2, <2>3 DEF OutcomeUnsaved
  <1>5. faults' \in 0..MaxFaults
    BY <1>1, FaultFacts DEF OutcomeUnsaved
  <1>6. BrokerTypeOK' /\ BeatOK' /\ FillOK'
    <2>1. BrokerTypeOK'
      BY <1>1, <1>2, <1>3, <1>4, <1>5 DEF BrokerTypeOK
    <2>2. BeatOK'
      BY <1>1, <1>2, <1>3 DEF BeatOK
    <2>3. FillOK'
      BY <1>1, <1>2 DEF FillOK
    <2> QED BY <2>1, <2>2, <2>3
  <1>7. \A e \in Day : Owed(e)'
    BY <1>1, <1>2 DEF FillOK, Owed
  <1>8. BatchReads' /\ Kept'
    BY <1>2, <1>4, <1>7, NoBatchKeeps
  <1> QED BY <1>3, <1>6, <1>8 DEF BrokerInv

-----------------------------------------------------------------------------
(* The minute heartbeat, the restart of the server, the clock              *)

LEMMA ReclaimKeeps ==
  ASSUME BrokerInv, Reclaim
  PROVE  BrokerInv'
  <1>1. BrokerTypeOK /\ BufferOK /\ CursorOK /\ BeatOK /\ FillOK
    BY DEF BrokerInv
  <1>2. /\ emitted' = emitted /\ shim' = shim /\ cursor' = cursor
        /\ beat' = beat /\ sync' = sync /\ deals' = deals /\ order' = order
        /\ faults' = faults /\ lost' = lost
        /\ fill.running /\ fill' = FailedOnce(fill)
    BY DEF Reclaim
  <1>3. /\ fill' \in [running : BOOLEAN, age : 0..2, failed : 0..MaxAttempts,
                      wait : BOOLEAN, open : BOOLEAN]
        /\ ~fill'.running /\ fill'.open /\ fill'.failed = fill.failed + 1
    BY <1>1, <1>2, FailedFacts
  <1>4. BufferOK' /\ Day' = Day /\ CursorOK' /\ BatchType' = BatchType
    BY <1>2, SameShim, SameCursor
  <1>5. BrokerTypeOK' /\ BeatOK' /\ FillOK'
    BY <1>1, <1>2, <1>3, <1>4 DEF BrokerTypeOK, BeatOK, FillOK
  <1>6. \A e \in Day : Owed(e) => Owed(e)'
    BY <1>1, <1>2, <1>3, FillFacts DEF Owed
  <1>7. BatchReads' /\ Kept'
    BY <1>2, <1>6, NoBatchKeeps
  <1> QED BY <1>4, <1>5, <1>7 DEF BrokerInv

LEMMA SyncKeeps ==
  ASSUME BrokerInv, SyncFetch \/ SyncWrite
  PROVE  BrokerInv'
  <1>1. BrokerTypeOK /\ BufferOK /\ CursorOK /\ BeatOK /\ FillOK
    BY DEF BrokerInv
  <1>2. /\ emitted' = emitted /\ shim' = shim /\ cursor' = cursor
        /\ beat' = beat /\ fill' = fill /\ faults' = faults /\ lost' = lost
    BY DEF SyncFetch, SyncWrite
  <1>3. /\ deals \subseteq deals' /\ deals' \subseteq Day
        /\ order' \in 0..emitted
        /\ sync'.pc \in {"idle", "write"}
        /\ sync'.pc = "write" => sync'.day \subseteq Day
    <2>1. CASE SyncFetch
      BY <2>1, <1>1 DEF SyncFetch, BrokerTypeOK
    <2>2. CASE SyncWrite
      <3>1. sync.day \in SUBSET Day
        BY <2>2, <1>1 DEF SyncWrite, BeatOK
      <3>2. /\ deals' = deals \cup sync.day /\ deals' \subseteq Day
            /\ order' \in 0..emitted
        BY <2>2, <3>1, <1>1, WriteFacts DEF SyncWrite
      <3>3. sync'.pc = "idle"
        BY <2>2 DEF SyncWrite, Idle
      <3> QED BY <3>2, <3>3
    <2> QED BY <2>1, <2>2
  <1>4. BufferOK' /\ Day' = Day /\ CursorOK' /\ BatchType' = BatchType
    BY <1>2, SameShim, SameCursor
  <1>5. BrokerTypeOK' /\ BeatOK' /\ FillOK'
    BY <1>1, <1>2, <1>3, <1>4 DEF BrokerTypeOK, BeatOK, FillOK
  <1>6. \A e \in Day : Owed(e) => Owed(e)'
    BY <1>2 DEF Owed
  <1>7. BatchReads' /\ Kept'
    BY <1>2, <1>3, <1>6, NoBatchKeeps
  <1> QED BY <1>4, <1>5, <1>7 DEF BrokerInv

(* The restart of the server forgets the cursor: what is retained is read  *)
(* again, and the trace of a loss is gone.                                 *)
LEMMA ServerCrashKeeps ==
  ASSUME BrokerInv, ServerCrash
  PROVE  BrokerInv'
  <1>1. /\ BrokerTypeOK /\ BufferOK /\ CursorOK /\ BeatOK /\ FillOK
        /\ Kept
    BY DEF BrokerInv
  <1>2. /\ emitted' = emitted /\ shim' = shim /\ cursor' = NoCursor
        /\ fill' = fill /\ deals' = deals /\ order' = order
        /\ beat'.pc = "idle" /\ sync'.pc = "idle"
        /\ lost' = IF KnowsOfGap THEN lost \cup Untraced' ELSE lost
    BY DEF ServerCrash, Idle, LosesIf
  <1>3. faults' \in 0..MaxFaults
    BY <1>1, FaultFacts DEF ServerCrash
  <1>f. /\ shim.epoch \in 1..MaxEpochs /\ MaxEpochs \in Nat
        /\ MaxEvents \in Nat /\ shim.last \in Nat /\ AfterSeq \in 0..MaxEvents
        /\ Base \in Int /\ emitted \in Nat
    BY <1>1, Facts
  <1>4. BufferOK' /\ Base' = Base /\ Day' = Day
    BY <1>2, SameShim
  <1> DEFINE c == KnowsOfGap
  <1>l. lost \subseteq lost' /\ lost' \subseteq Day' /\ (c => Kept')
    <2>1. c \in BOOLEAN /\ lost \subseteq Day
      <3>1. beat.pc = "decide" => beat.gap \in BOOLEAN
        BY <1>1 DEF BeatOK
      <3>2. RestartShows \in BOOLEAN
        BY DEF RestartShows
      <3> QED BY <3>1, <3>2, <1>1 DEF KnowsOfGap, BrokerTypeOK
    <2>2. lost' = IF c THEN lost \cup Untraced' ELSE lost
      BY <1>2
    <2> HIDE DEF c
    <2> QED BY <2>1, <2>2, <1>4, LossFacts
  <1>5. AfterSeq' = 0
    BY <1>2 DEF AfterSeq, NoCursor
  <1>6. BrokerTypeOK'
    <2>1. NoCursor \in [epoch : 0..MaxEpochs, last : 0..MaxEvents]
      BY <1>f DEF NoCursor
    <2> QED BY <2>1, <1>1, <1>2, <1>3, <1>4, <1>l DEF BrokerTypeOK
  <1>7. CursorOK'
    BY <1>2, <1>5, <1>f DEF CursorOK, NoCursor
  <1>8. BeatOK' /\ BatchReads'
    BY <1>2 DEF BeatOK, BatchReads
  <1>9. FillOK'
    BY <1>1, <1>2 DEF FillOK
  <1>10. RestartShows => c
    BY DEF KnowsOfGap
  <1>12. Kept'
    <2> SUFFICES ASSUME NEW e \in Day, ~c PROVE KeptEvent(e)'
      BY <1>4, <1>l DEF Kept
    <2>1. KeptEvent(e)
      BY <1>1 DEF Kept
    <2>2. Unread(e) => Unread(e)'
      BY <1>2, <1>4, <1>5, <1>f DEF Unread, Day, Base
    <2>3. Owed(e) => Owed(e)'
      BY <1>2 DEF Owed, KnowsOfGap
    <2>4. e \in lost => e \in lost'
      BY <1>l
    <2> QED BY <2>1, <2>2, <2>3, <2>4, <1>2, <1>10 DEF KeptEvent
  <1> QED BY <1>4, <1>6, <1>7, <1>8, <1>9, <1>12 DEF BrokerInv

LEMMA TickKeeps ==
  ASSUME BrokerInv, Tick
  PROVE  BrokerInv'
  <1>1. BrokerTypeOK /\ BufferOK /\ CursorOK /\ BeatOK /\ FillOK
    BY DEF BrokerInv
  <1>2. /\ emitted' = emitted /\ shim' = shim /\ cursor' = cursor
        /\ beat' = beat /\ sync' = sync /\ deals' = deals /\ order' = order
        /\ faults' = faults /\ lost' = lost
        /\ fill' = [fill EXCEPT !.wait = FALSE,
                      !.age = IF fill.running /\ @ < 2 THEN @ + 1 ELSE @]
    BY DEF Tick
  <1>3. /\ fill' \in [running : BOOLEAN, age : 0..2, failed : 0..MaxAttempts,
                      wait : BOOLEAN, open : BOOLEAN]
        /\ fill'.running = fill.running /\ fill'.failed = fill.failed
        /\ ~fill'.wait /\ fill'.open = fill.open
    <2> DEFINE age == IF fill.running /\ fill.age < 2
                      THEN fill.age + 1 ELSE fill.age
    <2>1. /\ fill \in [running : BOOLEAN, age : 0..2,
                        failed : 0..MaxAttempts, wait : BOOLEAN,
                        open : BOOLEAN]
          /\ age \in 0..2
      BY <1>1, FillFacts
    <2>2. fill' = [fill EXCEPT !.wait = FALSE, !.age = age]
      BY <1>2
    <2> HIDE DEF age
    <2> QED BY <2>1, <2>2
  <1>4. BufferOK' /\ Day' = Day /\ CursorOK' /\ BatchType' = BatchType
    BY <1>2, SameShim, SameCursor
  <1>5. BrokerTypeOK' /\ BeatOK' /\ FillOK'
    BY <1>1, <1>2, <1>3, <1>4 DEF BrokerTypeOK, BeatOK, FillOK
  <1>6. \A e \in Day : Owed(e) => Owed(e)'
    BY <1>2, <1>3 DEF Owed
  <1>7. BatchReads' /\ Kept'
    BY <1>2, <1>6, NoBatchKeeps
  <1> QED BY <1>4, <1>5, <1>7 DEF BrokerInv

-----------------------------------------------------------------------------
(* The invariant                                                           *)

LEMMA StepKeeps ==
  ASSUME BrokerInv, [Next]_vars
  PROVE  BrokerInv'
  <1>1. CASE Emit
    BY <1>1, EmitKeeps
  <1>2. CASE ShimDown
    BY <1>2, ShimDownKeeps
  <1>3. CASE ShimUp
    BY <1>3, ShimUpKeeps
  <1>4. CASE EventBeat
    BY <1>4, PollKeeps, PollFailsKeeps, ConsumeKeeps, ConsumeFailsKeeps,
       StartFillKeeps, SkipFillKeeps, DecideFailsKeeps, FillFetchKeeps,
       FillWriteKeeps, FillFailsKeeps, OutcomeUnsavedKeeps DEF EventBeat
  <1>5. CASE Reclaim
    BY <1>5, ReclaimKeeps
  <1>6. CASE SyncFetch \/ SyncWrite
    BY <1>6, SyncKeeps
  <1>7. CASE ServerCrash
    BY <1>7, ServerCrashKeeps
  <1>8. CASE Tick
    BY <1>8, TickKeeps
  <1>9. CASE UNCHANGED vars
    <2>1. /\ emitted' = emitted /\ shim' = shim /\ cursor' = cursor
          /\ beat' = beat /\ sync' = sync /\ fill' = fill
          /\ deals' = deals /\ order' = order /\ faults' = faults
          /\ lost' = lost
      BY <1>9 DEF vars
    <2>2. BufferOK' /\ Day' = Day /\ CursorOK' /\ BatchType' = BatchType
      BY <2>1, SameShim, SameCursor
    <2>3. BrokerTypeOK' /\ BeatOK' /\ FillOK'
      BY <2>1, <2>2 DEF BrokerInv, BrokerTypeOK, BeatOK, FillOK
    <2>4. \A e \in Day : Owed(e) => Owed(e)'
      BY <2>1 DEF Owed
    <2>5. BatchReads' /\ Kept'
      BY <2>1, <2>4, NoBatchKeeps
    <2> QED BY <2>2, <2>3, <2>5 DEF BrokerInv
  <1> QED BY <1>1, <1>2, <1>3, <1>4, <1>5, <1>6, <1>7, <1>8, <1>9 DEF Next

LEMMA InitHolds ==
  ASSUME Init
  PROVE  BrokerInv
  <1>1. /\ emitted = 0 /\ cursor = NoCursor /\ beat.pc = "idle"
        /\ sync.pc = "idle" /\ fill = NoFill /\ deals = {} /\ order = 0
        /\ faults = 0 /\ lost = {}
        /\ shim = [up |-> TRUE, epoch |-> 1, last |-> 0, buf |-> <<>>]
    BY DEF Init, Idle
  <1>2. /\ MaxEvents \in Nat /\ MaxEpochs \in Nat \ {0} /\ MaxFaults \in Nat
        /\ MaxAttempts \in Nat \ {0} /\ Capacity \in Nat \ {0}
    BY BrokerAssumption
  <1>3. shim.up /\ shim.epoch = 1 /\ shim.last = 0 /\ shim.buf = <<>>
    BY <1>1
  <1>4. Day = {}
    BY <1>1 DEF Day
  <1>5. AfterSeq = 0
    BY <1>1, <1>3 DEF AfterSeq, NoCursor
  <1>6. BrokerTypeOK
    <2> DEFINE B == UNION {[1..n -> 1..MaxEvents] : n \in 0..Capacity}
               none == <<>>
    <2>1. none \in B
      <3>1. <<>> \in Seq(1..MaxEvents) /\ Len(<<>>) \in 0..Capacity
        BY <1>2
      <3> QED BY <3>1, BufferShape
    <2>2. shim = [up |-> TRUE, epoch |-> 1, last |-> 0, buf |-> none]
      BY <1>1
    <2>3. 1 \in 1..MaxEpochs /\ 0 \in 0..MaxEvents
      BY <1>2
    <2> HIDE DEF B, none
    <2>4. shim \in [up : BOOLEAN, epoch : 1..MaxEpochs, last : 0..MaxEvents,
                    buf : B]
      BY <2>1, <2>2, <2>3
    <2>5. cursor \in [epoch : 0..MaxEpochs, last : 0..MaxEvents]
      BY <1>1, <1>2 DEF NoCursor
    <2>6. fill \in [running : BOOLEAN, age : 0..2, failed : 0..MaxAttempts,
                    wait : BOOLEAN, open : BOOLEAN]
      BY <1>1, <1>2 DEF NoFill
    <2>7. /\ emitted \in 0..MaxEvents /\ deals \subseteq Day
          /\ order \in 0..emitted /\ faults \in 0..MaxFaults
      BY <1>1, <1>2, <1>4
    <2>8. lost \subseteq Day
      BY <1>1
    <2>9. /\ beat.pc \in {"idle", "batch", "decide", "fetch", "write"}
          /\ sync.pc \in {"idle", "write"}
      BY <1>1
    <2> QED BY <2>4, <2>5, <2>6, <2>7, <2>8, <2>9 DEF BrokerTypeOK, B
  <1>7. BufferOK
    <2>1. Len(shim.buf) = 0
      BY <1>3
    <2>2. \A i \in 1..Len(shim.buf) : FALSE
      BY <2>1
    <2> QED BY <2>1, <2>2, <1>1, <1>3 DEF BufferOK
  <1>8. CursorOK
    BY <1>1, <1>3, <1>5 DEF CursorOK, NoCursor
  <1>9. BeatOK /\ BatchReads
    BY <1>1 DEF BeatOK, BatchReads
  <1>10. FillOK
    BY <1>1 DEF FillOK, NoFill
  <1>11. Kept
    BY <1>4 DEF Kept
  <1> QED BY <1>6, <1>7, <1>8, <1>9, <1>10, <1>11 DEF BrokerInv

(* What is written, still unread or lost by one of the five steps above,   *)
(* the batch in flight, the traces of the restarts and the fills that are  *)
(* owed account for every push of the day, in every reachable state        *)
(* (broker-event-cursor.rules.ts 79-107, broker-account.scheduler.ts       *)
(* 181-232).                                                               *)
THEOREM BrokerInvariant == Spec => []BrokerInv
  <1>1. Init => BrokerInv
    BY InitHolds
  <1>2. BrokerInv /\ [Next]_vars => BrokerInv'
    BY StepKeeps
  <1> QED BY <1>1, <1>2, PTL DEF Spec

(* Every variable keeps its type: the buffer never outgrows its capacity,  *)
(* no gap fill is tried more than MaxAttempts times, and only pushes that  *)
(* happened have rows (trade_events.py 44-75, broker-sync-slot.rules.ts     *)
(* 154-169).                                                               *)
THEOREM BrokerTypeCorrect == Spec => []BrokerTypeOK
  <1>1. BrokerInv => BrokerTypeOK
    BY DEF BrokerInv
  <1> QED BY <1>1, BrokerInvariant, PTL

(* A push that is unread is retained, or the oldest retained one shows the *)
(* loss.                                                                   *)
LEMMA UnreadIsAhead ==
  ASSUME BrokerInv, NEW e \in Day, Unread(e)
  PROVE  Ahead(e) \/ GapShows
  <1>1. BrokerTypeOK /\ BufferOK
    BY DEF BrokerInv
  <1> DEFINE q == shim.buf
             a == AfterSeq
  <1>2. /\ e \in Nat /\ e >= 1 /\ e <= emitted
        /\ e > emitted - shim.last + a
        /\ emitted \in Nat /\ shim.last \in Nat /\ a \in Nat
        /\ Len(q) \in Nat /\ DOMAIN q = 1..Len(q)
        /\ Oldest = shim.last - Len(q) + 1
    BY <1>1, Facts, LenProperties DEF Unread, Base, Day, Oldest
  <1>3. /\ shim.last > 0 => q # <<>>
        /\ \A i \in 1..Len(q) : q[i] = emitted - Len(q) + i
    BY <1>1 DEF BufferOK
  <1> HIDE DEF q, a
  <1>4. CASE e > emitted - Len(q)
    <2> DEFINE i == e - emitted + Len(q)
    <2>1. i \in 1..Len(q) /\ emitted - Len(q) + i = e
      BY <1>2, <1>4
    <2>2. Oldest + i - 1 > a
      BY <1>2
    <2>3. i \in DOMAIN q /\ q[i] = e
      BY <2>1, <1>2, <1>3
    <2> QED BY <2>2, <2>3 DEF Ahead, q, a
  <1>5. CASE e <= emitted - Len(q)
    <2>1. a + 1 < Oldest /\ shim.last > 0
      BY <1>2, <1>5
    <2> QED BY <2>1, <1>3 DEF GapShows, q, a
  <1> QED BY <1>2, <1>4, <1>5

(* No other step forgets a push, whatever the interleaving of the broker,  *)
(* the restarts of the shim and of the server, failing batches and fills,  *)
(* unsaved outcomes and stuck runs: a push has its row, or it will be      *)
(* read, or its loss is known, unless one of the five steps above, the     *)
(* failing query or insert of its gap fill among them, took its last trace *)
(* (broker-event-cursor.rules.ts 79-107, broker-sync-slot.rules.ts         *)
(* 154-169).                                                               *)
THEOREM NothingIsForgotten == Spec => []NothingForgotten
  <1>1. ASSUME BrokerInv PROVE NothingForgotten
    <2> SUFFICES ASSUME NEW e \in Day
                 PROVE  e \in deals \/ Arriving(e) \/ e \in lost
      BY DEF NothingForgotten
    <2>1. KeptEvent(e)
      BY <1>1 DEF BrokerInv, Kept
    <2>2. Unread(e) => Arriving(e)
      BY <1>1, UnreadIsAhead DEF Arriving
    <2>3. RestartShows => Arriving(e)
      BY DEF Arriving, GapShows
    <2>4. Owed(e) => Arriving(e)
      BY DEF Arriving
    <2> QED BY <2>1, <2>2, <2>3, <2>4 DEF KeptEvent
  <1> QED BY <1>1, BrokerInvariant, PTL

(* The order's row never goes back to an older version, whichever of the   *)
(* batch, the gap fill and the other writer comes last                     *)
(* (sync-broker-account.usecase.ts 496-552).                               *)
THEOREM OrderOnlyAdvances == Spec => OrderNeverGoesBack
  <1>1. ASSUME BrokerInv, [Next]_vars PROVE order' >= order \/ UNCHANGED vars
    <2>1. BrokerTypeOK /\ BeatOK /\ order \in Nat
      BY <1>1, Facts DEF BrokerInv, BrokerTypeOK
    <2>2. CASE Consume
      <3>1. beat.batch.rows \in SUBSET Day
        BY <2>1, <2>2 DEF Consume, BeatOK, BatchType
      <3> QED BY <2>1, <2>2, <3>1, WriteFacts DEF Consume
    <2>3. CASE FillWrite
      <3>1. beat.day \in SUBSET Day
        BY <2>1, <2>3 DEF FillWrite, BeatOK
      <3> QED BY <2>1, <2>3, <3>1, WriteFacts DEF FillWrite
    <2>4. CASE SyncWrite
      <3>1. sync.day \in SUBSET Day
        BY <2>1, <2>4 DEF SyncWrite, BeatOK
      <3> QED BY <2>1, <2>4, <3>1, WriteFacts DEF SyncWrite
    <2>7. CASE OutcomeUnsaved
      <3>1. CASE beat.pc = "write" /\ WriteRows(beat.day)
        <4>1. beat.day \in SUBSET Day
          BY <2>1, <3>1 DEF BeatOK
        <4> QED BY <2>1, <3>1, <4>1, WriteFacts
      <3>2. CASE order' = order
        BY <2>1, <3>2
      <3> QED BY <2>7, <3>1, <3>2 DEF OutcomeUnsaved
    <2>5. CASE order' = order
      BY <2>1, <2>5
    <2>6. CASE Emit \/ ShimDown \/ ShimUp \/ Poll \/ PollFails
               \/ ConsumeFails \/ StartFill \/ SkipFill \/ DecideFails
               \/ FillFetch \/ FillFails \/ Reclaim \/ SyncFetch \/ ServerCrash
               \/ Tick
      <3>1. order' = order
        BY <2>6 DEF Emit, ShimDown, ShimUp, Poll, PollFails, ConsumeFails,
             StartFill, SkipFill, DecideFails, FillFetch, FillFails, Reclaim,
             SyncFetch, ServerCrash, Tick
      <3> QED BY <2>5, <3>1
    <2> QED BY <1>1, <2>2, <2>3, <2>4, <2>6, <2>7 DEF Next, EventBeat
  <1>2. BrokerInv /\ [Next]_vars => [order' >= order]_vars
    BY <1>1
  <1> QED BY <1>2, BrokerInvariant, PTL DEF Spec, OrderNeverGoesBack

=============================================================================
