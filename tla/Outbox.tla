------------------------------- MODULE Outbox -------------------------------
(***************************************************************************)
(* The transactional outbox of apps/server/src/security/outbox.            *)
(*                                                                         *)
(* A use case inserts an outbox_event row in its own transaction           *)
(* (OutboxEventPrismaPublisher.publish).  Every ten seconds a scan         *)
(* (OutboxEventCronPublisher.scan) reads the oldest unpublished rows and,  *)
(* row by row, hands each to the subscribers registered for its type and   *)
(* then marks it published.  Reading, dispatching to one subscriber and    *)
(* marking are separate database calls, no lock is taken, and nothing      *)
(* stops a second scan from starting while a slow one still runs: every    *)
(* one of those calls is a step of its own here, Relays are the scans that *)
(* may be in flight together, and a scan may die between any two steps.    *)
(***************************************************************************)
EXTENDS Naturals, Sequences, FiniteSets

CONSTANTS
  Events,     \* identifiers (uuid) of outbox_event rows
  Times,      \* values of created_at
  Relays,     \* scans that can be in flight at the same time
  BatchSize,  \* rows one scan reads (`take: 100`)
  JobCap      \* bound: the count of cold-start jobs of one event saturates here

ASSUME OutboxAssumption ==
  /\ Times \subseteq Nat
  /\ BatchSize \in Nat \ {0}
  /\ JobCap \in Nat \ {0}

VARIABLES
  outbox,     \* the outbox_event table
  scan,       \* what each scan in flight has read and how far it is
  effects     \* effects[s][e]: rows or jobs subscriber s has created for e

outboxVars == <<outbox, scan, effects>>

-----------------------------------------------------------------------------
(* Event types and the registry                                            *)

FINALIZED == "ideation.requirement-finalized"
ANCHOR_CREATED == "optionsdesk.anchor-created"
UNSUBSCRIBED == "auth.account.created"   \* any type nobody subscribes to
EventTypes == {FINALIZED, ANCHOR_CREATED, UNSUBSCRIBED}

(* What a subscriber's own validation can tell apart in envelope.data:     *)
(* everything there, an anchor event that lacks only its anchorId, nothing *)
(* usable.                                                                 *)
Payloads == {"complete", "tickerOnly", "malformed"}

(* The vendor is configured (not the mock provider) and one broker         *)
(* connection exists, so that BrokerHistoryBackfill inserts one row.       *)
Subscribers == {"EnqueueRequirement", "AnchorColdStart", "BrokerHistoryBackfill"}

(* OutboxSubscriberRegistry.byType, in registration order.                 *)
byType(t) ==
  CASE t = FINALIZED      -> <<"EnqueueRequirement">>
    [] t = ANCHOR_CREATED -> <<"AnchorColdStart", "BrokerHistoryBackfill">>
    [] t = UNSUBSCRIBED   -> <<>>

(* A payload that a subscriber's check refuses is logged and skipped.      *)
Accepts(s, data) ==
  \/ data = "complete"
  \/ data = "tickerOnly" /\ s = "BrokerHistoryBackfill"

(* What one accepted delivery adds: createMany with skipDuplicates on a    *)
(* unique source event leaves an existing row alone, while enqueueColdStart*)
(* adds a job per delivery.                                                *)
IsKeyed(s) == s \in {"EnqueueRequirement", "BrokerHistoryBackfill"}

(* Mutant of Inserted: no unique source event.                             *)
InsertedUnkeyed(s, n) == IF n < 2 THEN n + 1 ELSE n

Inserted(s, n) ==
  IF IsKeyed(s) THEN (IF n = 0 THEN 1 ELSE n)
                ELSE (IF n < JobCap THEN n + 1 ELSE n)

-----------------------------------------------------------------------------
Row == [status: {"absent", "unpublished", "published"},
        eventType: EventTypes, data: Payloads, createdAt: Nat]

NoRow == [status |-> "absent", eventType |-> UNSUBSCRIBED,
          data |-> "malformed", createdAt |-> 0]

Idle == [batch |-> {}, next |-> 1]

OutboxTypeOK ==
  /\ outbox \in [Events -> Row]
  /\ scan \in [Relays -> [batch: SUBSET Events, next: 1..3]]
  /\ effects \in [Subscribers -> [Events -> Nat]]

OutboxInit ==
  /\ outbox = [e \in Events |-> NoRow]
  /\ scan = [r \in Relays |-> Idle]
  /\ effects = [s \in Subscribers |-> [e \in Events |-> 0]]

(* Mutant of Unpublished: the filter on publishedAt is missing.            *)
AnyRow == {e \in Events : outbox[e].status # "absent"}

Unpublished == {e \in Events : outbox[e].status = "unpublished"}

(* `orderBy createdAt asc, take BatchSize` over the unpublished rows.      *)
OldestUnpublished ==
  {e \in Unpublished :
     Cardinality({f \in Unpublished : outbox[f].createdAt < outbox[e].createdAt})
       < BatchSize}

(* The row a scan is at: it goes through its batch oldest first.           *)
IsHead(r, e) ==
  /\ e \in scan[r].batch
  /\ \A f \in scan[r].batch : outbox[e].createdAt <= outbox[f].createdAt

SubscribersOf(e) == byType(outbox[e].eventType)

Dispatched(r, e) == scan[r].next = Len(SubscribersOf(e)) + 1

(* Mutant of Drop: the position among the subscribers is not reset.        *)
DropWithoutReset(r, e) == scan' = [scan EXCEPT ![r].batch = @ \ {e}]

Drop(r, e) ==
  scan' = [scan EXCEPT ![r] = [batch |-> @.batch \ {e}, next |-> 1]]

-----------------------------------------------------------------------------
(* A use case commits a transaction that contains publish(tx, t, d).  The  *)
(* row carries the time its transaction began, so that rows may appear out *)
(* of order, behind a scan that has gone on; no two of them are equal.     *)
Publish(e, t, d, at) ==
  /\ outbox[e].status = "absent"
  /\ \A f \in Events : outbox[f].status = "absent" \/ outbox[f].createdAt # at
  /\ outbox' = [outbox EXCEPT ![e] = [status |-> "unpublished", eventType |-> t,
                                      data |-> d, createdAt |-> at]]
  /\ UNCHANGED <<scan, effects>>

(* Mutant of ScanStart: subscribers counted from zero.                     *)
ScanStartAtZero(r) ==
  /\ scan[r].batch = {}
  /\ OldestUnpublished # {}
  /\ scan' = [scan EXCEPT ![r] = [batch |-> OldestUnpublished, next |-> 0]]
  /\ UNCHANGED <<outbox, effects>>

(* A scan's findMany.                                                      *)
ScanStart(r) ==
  /\ scan[r].batch = {}
  /\ OldestUnpublished # {}
  /\ scan' = [scan EXCEPT ![r] = [batch |-> OldestUnpublished, next |-> 1]]
  /\ UNCHANGED <<outbox, effects>>

(* Mutant of Handle: the subscriber does not check the payload.            *)
HandleUnchecked(r, e) ==
  /\ IsHead(r, e)
  /\ scan[r].next <= Len(SubscribersOf(e))
  /\ effects' = [effects EXCEPT ![SubscribersOf(e)[scan[r].next]][e] = 1]
  /\ scan' = [scan EXCEPT ![r].next = @ + 1]
  /\ UNCHANGED outbox

(* One turn of the loop in OutboxSubscriberRegistry.dispatch: the next     *)
(* subscriber's handle returns.                                            *)
Handle(r, e) ==
  /\ IsHead(r, e)
  /\ scan[r].next <= Len(SubscribersOf(e))
  /\ LET s == SubscribersOf(e)[scan[r].next] IN
       effects' = IF Accepts(s, outbox[e].data)
                  THEN [effects EXCEPT ![s][e] = Inserted(s, @)]
                  ELSE effects
  /\ scan' = [scan EXCEPT ![r].next = @ + 1]
  /\ UNCHANGED outbox

(* Mutant of HandleThrows: the registry swallows the exception and goes on.*)
HandleSwallows(r, e) ==
  /\ IsHead(r, e)
  /\ scan[r].next <= Len(SubscribersOf(e))
  /\ scan' = [scan EXCEPT ![r].next = @ + 1]
  /\ UNCHANGED <<outbox, effects>>

(* The next subscriber's handle throws (its database or Redis is down): the*)
(* row stays unpublished and the scan goes on with its next row.  A payload*)
(* that is refused never gets as far as an input/output call.              *)
HandleThrows(r, e) ==
  /\ IsHead(r, e)
  /\ scan[r].next <= Len(SubscribersOf(e))
  /\ Accepts(SubscribersOf(e)[scan[r].next], outbox[e].data)
  /\ Drop(r, e)
  /\ UNCHANGED <<outbox, effects>>

(* Every subscriber returned: publishedAt is set.                          *)
MarkPublished(r, e) ==
  /\ IsHead(r, e)
  /\ Dispatched(r, e)
  /\ outbox' = [outbox EXCEPT ![e].status = "published"]
  /\ Drop(r, e)
  /\ UNCHANGED effects

(* The update of publishedAt throws: same catch as a failed dispatch.      *)
MarkThrows(r, e) ==
  /\ IsHead(r, e)
  /\ Dispatched(r, e)
  /\ Drop(r, e)
  /\ UNCHANGED <<outbox, effects>>

(* The process dies: what the scan had read is gone.                       *)
ScanCrash(r) ==
  /\ scan[r].batch # {}
  /\ scan' = [scan EXCEPT ![r] = Idle]
  /\ UNCHANGED <<outbox, effects>>

RelayStep(r, e) ==
  \/ Handle(r, e)
  \/ HandleThrows(r, e)
  \/ MarkPublished(r, e)
  \/ MarkThrows(r, e)

OutboxNext ==
  \/ \E e \in Events, t \in EventTypes, d \in Payloads, at \in Times : Publish(e, t, d, at)
  \/ \E r \in Relays : ScanStart(r)
  \/ \E r \in Relays, e \in Events : RelayStep(r, e)
  \/ \E r \in Relays : ScanCrash(r)

OutboxSpec == OutboxInit /\ [][OutboxNext]_outboxVars

-----------------------------------------------------------------------------
(* Safety                                                                  *)

(* A row is marked published only after every subscriber of its type that  *)
(* accepts its payload has done its work: neither a throwing subscriber,   *)
(* nor a crash, nor another scan of the same row can lose a delivery.      *)
PublishedMeansHandled ==
  \A e \in Events :
    outbox[e].status = "published" =>
      \A i \in 1..Len(SubscribersOf(e)) :
        Accepts(SubscribersOf(e)[i], outbox[e].data) =>
          effects[SubscribersOf(e)[i]][e] > 0

(* However often a row is delivered, by overlapping scans or again after a *)
(* crash or a throw, the keyed subscribers hold one row for it: "the       *)
(* consumer must be idempotent".                                           *)
KeyedOnce ==
  \A s \in Subscribers, e \in Events : IsKeyed(s) => effects[s][e] <= 1

(* Subscribers of one event are served in registration order and a throw   *)
(* stops the round: a later one never has work for an event an earlier,    *)
(* accepting one has not handled.                                          *)
ServedInOrder ==
  \A e \in Events : \A i, j \in 1..Len(SubscribersOf(e)) :
    (/\ i < j
     /\ effects[SubscribersOf(e)[j]][e] > 0
     /\ Accepts(SubscribersOf(e)[i], outbox[e].data))
      => effects[SubscribersOf(e)[i]][e] > 0

(* Nothing is done for an event that was never committed, by a subscriber  *)
(* of another type, or for a payload the subscriber refuses.               *)
NoSpuriousEffect ==
  \A s \in Subscribers, e \in Events :
    effects[s][e] > 0 =>
      /\ outbox[e].status # "absent"
      /\ \E i \in 1..Len(SubscribersOf(e)) : SubscribersOf(e)[i] = s
      /\ Accepts(s, outbox[e].data)

-----------------------------------------------------------------------------
(* Liveness.  The cron keeps firing and a scan keeps working through its   *)
(* batch; a subscriber, or the update, that is tried over and over does not*)
(* throw or crash for ever (outages end).                                  *)
HandleBy(r, e, i) == scan[r].next = i /\ Handle(r, e)

OutboxFairness ==
  /\ \A r \in Relays : WF_outboxVars(ScanStart(r))
  /\ \A r \in Relays, e \in Events :
       /\ WF_outboxVars(RelayStep(r, e))
       /\ \A i \in 1..2 : SF_outboxVars(HandleBy(r, e, i))
       /\ SF_outboxVars(MarkPublished(r, e))

OutboxFairSpec == OutboxSpec /\ OutboxFairness

(* Every committed event is eventually marked published, although scans    *)
(* crash, subscribers throw and more rows wait than one scan reads.        *)
EventuallyPublished ==
  \A e \in Events :
    outbox[e].status = "unpublished" ~> outbox[e].status = "published"
=============================================================================
