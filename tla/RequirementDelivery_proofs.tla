--------------------- MODULE RequirementDelivery_proofs ---------------------
(***************************************************************************)
(* Proofs about the composition, for any number of sessions, requests,     *)
(* scans and workers.                                                      *)
(*                                                                         *)
(* Every step of the composition is, for each of its three parts, a step   *)
(* of that part or none (SessionSteps, OutboxSteps, QueueSteps), so that   *)
(* what is proved about the parts holds in it.  What they have to say to   *)
(* each other is Linked: an event is in the outbox exactly if a request    *)
(* published it, since both are written by one transaction; it is in the   *)
(* queue exactly if the subscriber has counted a delivery of it; and the   *)
(* brief of a request that published is there until its session is         *)
(* deleted.                                                                *)
(***************************************************************************)
EXTENDS RequirementDelivery, TLAPS

P == INSTANCE Publishing_proofs WITH Events <- Requests

(* AgentQueue_proofs is also about mockups, of which there are none here.  *)
W == INSTANCE AgentQueue_proofs WITH
  Events <- Requests, NoEvent <- NoRequest,
  MockupCap <- 1, mockups <- 0, report <- 0, stale <- 0

-----------------------------------------------------------------------------
(* The parts                                                               *)

(* A step of the composition is one of the sessions, or none.              *)
LEMMA SessionSteps == [DeliveryNext]_vars => [P!IdeationNext]_(P!ideationVars)
  <1> USE DEF I!Status, P!Status, I!SetStatus, P!SetStatus, I!Finish, P!Finish,
              I!Running, P!Running, I!Live, P!Live,
              I!FINALISED, P!FINALISED, I!NewRequest, P!NewRequest
  <1>1. ASSUME NEW s \in Sessions
        PROVE  /\ I!CreateSession(s) => P!CreateSession(s)
               /\ I!ReopenSession(s) => P!ReopenSession(s)
               /\ \A repo \in Repos :
                    I!SetSessionRepo(s, repo) => P!SetSessionRepo(s, repo)
    BY DEF I!CreateSession, P!CreateSession, I!ReopenSession,
           P!ReopenSession, I!SetSessionRepo, P!SetSessionRepo
  <1>2. ASSUME NEW r \in Requests, NEW op \in I!Operations,
               NEW s \in Sessions, NEW image \in BOOLEAN
        PROVE  I!Begin(r, op, s, image) => P!Begin(r, op, s, image)
    BY DEF I!Begin, P!Begin
  <1>3. ASSUME NEW r \in Requests
        PROVE  /\ I!Abandon(r) => P!Abandon(r)
               /\ I!GenerateCommit(r) => P!GenerateCommit(r)
               /\ I!ExportRead(r) => P!ExportRead(r)
               /\ I!ExportMark(r) => P!ExportMark(r)
    BY DEF I!Abandon, P!Abandon, I!GenerateCommit, P!GenerateCommit,
           I!DraftLocked, P!DraftLocked, I!ExportRead, P!ExportRead,
           I!ExportMark, P!ExportMark
  <1>4. ASSUME NEW r \in Requests
        PROVE  /\ I!ClarifyAsk(r) => P!ClarifyAsk(r)
               /\ I!ClarifyRead(r) => P!ClarifyRead(r)
               /\ I!LandAssistant(r) => P!LandAssistant(r)
    BY DEF I!ClarifyAsk, P!ClarifyAsk, I!ClarifyRead, P!ClarifyRead,
           I!LastAsker, P!LastAsker, I!LandAssistant, P!LandAssistant
  <1>5. ASSUME NEW r \in Requests
        PROVE  /\ I!DeleteChildren(r) => P!DeleteChildren(r)
               /\ I!DeleteCommit(r) => P!DeleteCommit(r)
    BY DEF I!DeleteChildren, P!DeleteChildren, I!ChildrenLocked,
           P!ChildrenLocked, I!DeleteCommit, P!DeleteCommit
  <1>6. CASE UNCHANGED ideation
    BY <1>6 DEF ideation, P!ideationVars
  <1>7. ASSUME NEW r \in Requests, Finalize(r) PROVE P!IdeationNext
    BY <1>3, <1>7 DEF Finalize, P!IdeationNext, P!RequestStep
  <1>8. CASE IdeationStep
    BY <1>1, <1>2, <1>3, <1>4, <1>5, <1>8
       DEF IdeationStep, P!IdeationNext, P!RequestStep, I!Operations,
           P!Operations
  <1> QED BY <1>6, <1>7, <1>8
          DEF DeliveryNext, EnqueueDelivered, RelayStep, BridgeStep, vars

(* A step of the composition is one of the outbox, or none.                *)
LEMMA OutboxSteps == [DeliveryNext]_vars => [P!OutboxNext]_(P!outboxVars)
  <1> USE DEF O!IsHead, P!IsHead, O!SubscribersOf, P!SubscribersOf,
              O!byType, P!byType, O!FINALIZED, P!FINALIZED,
              O!ANCHOR_CREATED, P!ANCHOR_CREATED, O!UNSUBSCRIBED,
              P!UNSUBSCRIBED
  <1>1. ASSUME NEW e \in Requests, NEW at \in Times,
               O!Publish(e, O!FINALIZED, "complete", at)
        PROVE  P!OutboxNext
    <2>1. P!Publish(e, P!FINALIZED, "complete", at)
      BY <1>1 DEF O!Publish, P!Publish
    <2>2. P!FINALIZED \in P!EventTypes /\ "complete" \in P!Payloads
      BY DEF P!EventTypes, P!Payloads
    <2> QED BY <2>1, <2>2 DEF P!OutboxNext
  <1>2. ASSUME NEW x \in Relays
        PROVE  /\ O!ScanStart(x) => P!ScanStart(x)
               /\ O!ScanCrash(x) => P!ScanCrash(x)
    <2>1. O!OldestUnpublished = P!OldestUnpublished
      BY Zenon DEF O!OldestUnpublished, P!OldestUnpublished,
                   O!Unpublished, P!Unpublished, O!Cardinality, P!Cardinality
    <2>2. O!ScanStart(x) => P!ScanStart(x)
      BY <2>1 DEF O!ScanStart, P!ScanStart
    <2>3. O!ScanCrash(x) => P!ScanCrash(x)
      BY DEF O!ScanCrash, P!ScanCrash, O!Idle, P!Idle
    <2> QED BY <2>2, <2>3
  <1>3. ASSUME NEW x \in Relays, NEW e \in Requests
        PROVE  /\ O!Handle(x, e) => P!Handle(x, e)
               /\ O!HandleThrows(x, e) => P!HandleThrows(x, e)
               /\ O!MarkPublished(x, e) => P!MarkPublished(x, e)
               /\ O!MarkThrows(x, e) => P!MarkThrows(x, e)
    BY DEF O!Handle, P!Handle, O!HandleThrows, P!HandleThrows,
           O!MarkPublished, P!MarkPublished, O!MarkThrows, P!MarkThrows,
           O!Accepts, P!Accepts, O!Inserted, P!Inserted, O!IsKeyed, P!IsKeyed,
           O!Drop, P!Drop, O!Dispatched, P!Dispatched
  <1>4. CASE UNCHANGED relay
    BY <1>4 DEF relay, P!outboxVars
  <1>5. ASSUME NEW r \in Requests, Finalize(r)
        PROVE  P!OutboxNext \/ UNCHANGED relay
    BY <1>1, <1>5 DEF Finalize
  <1>6. ASSUME NEW x \in Relays, NEW e \in Requests, EnqueueDelivered(x, e)
        PROVE  P!OutboxNext
    BY <1>3, <1>6 DEF EnqueueDelivered, P!OutboxNext, P!RelayStep
  <1>7. CASE RelayStep
    BY <1>2, <1>3, <1>7 DEF RelayStep, P!OutboxNext, P!RelayStep
  <1> QED BY <1>4, <1>5, <1>6, <1>7
          DEF DeliveryNext, IdeationStep, BridgeStep, vars

(* A step of the composition is one of the queue, or none.                 *)
LEMMA QueueSteps == [DeliveryNext]_vars => [W!QueueNext]_(W!queueVars)
  <1> USE DEF Q!FreshLease, W!FreshLease, Q!Elapse, W!Elapse, Q!Locked,
              W!Locked, Q!Claimable, W!Claimable, Q!Holds, W!Holds,
              Q!Nothing, W!Nothing, Q!NoPoll, W!NoPoll, Q!Fault, W!Fault,
              Q!NoFault, W!NoFault
  <1>1. ASSUME NEW e \in Requests
        PROVE  Q!Enqueue(e) => W!Enqueue(e)
    BY DEF Q!Enqueue, W!Enqueue
  <1>2. ASSUME NEW w \in Workers, NEW e \in Requests
        PROVE  Q!PollStep(w, e) => W!PollStep(w, e)
    BY DEF Q!PollStep, W!PollStep, Q!PollSelect, W!PollSelect,
           Q!PollCommit, W!PollCommit, Q!PollReplyLost, W!PollReplyLost,
           Q!PollAbort, W!PollAbort, Q!Claim, W!Claim, Q!OneMore, W!OneMore
  <1>3. ASSUME NEW w \in Workers, NEW e \in Requests
        PROVE  Q!WorkerStep(w, e) => W!WorkerStep(w, e)
    BY DEF Q!WorkerStep, W!WorkerStep, Q!Ack, W!Ack, Q!AckReplyLost,
           W!AckReplyLost, Q!ExtendLease, W!ExtendLease, Q!Result, W!Result,
           Q!ResultReplyLost, W!ResultReplyLost, Q!Complete, W!Complete,
           Q!Refused, W!Refused
  <1>4. ASSUME NEW w \in Workers
        PROVE  Q!WorkerCrash(w) => W!WorkerCrash(w)
    BY DEF Q!WorkerCrash, W!WorkerCrash
  <1>5. Q!Tick => W!Tick
    BY DEF Q!Tick, W!Tick
  <1>6. CASE UNCHANGED bridge
    BY <1>6 DEF bridge, W!queueVars
  <1>7. ASSUME NEW x \in Relays, NEW e \in Requests, EnqueueDelivered(x, e)
        PROVE  W!QueueNext \/ UNCHANGED bridge
    BY <1>1, <1>7 DEF EnqueueDelivered, W!QueueNext
  <1>8. CASE BridgeStep
    BY <1>2, <1>3, <1>4, <1>5, <1>8 DEF BridgeStep, W!QueueNext
  <1> QED BY <1>6, <1>7, <1>8
          DEF DeliveryNext, Finalize, IdeationStep, RelayStep, vars
-----------------------------------------------------------------------------
(* What links them                                                         *)

OneTransaction ==
  \A r \in Requests : published[r] # 0 <=> outbox[r].status # "absent"

RequirementEvents ==
  \A r \in Requests : outbox[r].status # "absent" =>
    outbox[r].eventType = P!FINALIZED /\ outbox[r].data = "complete"

RowIsEffect ==
  \A r \in Requests :
    queue[r].status # "absent" <=> effects["EnqueueRequirement"][r] > 0

Linked == OneTransaction /\ RequirementEvents /\ RowIsEffect

DeliveryInv ==
  /\ P!SessionInv
  /\ P!BriefStays
  /\ P!OutboxInv
  /\ W!QueueInv
  /\ W!HandedOutIffClaimed
  /\ Linked

(* The tables the links are about.                                         *)
LEMMA Tables ==
  ASSUME DeliveryInv
  PROVE  /\ session \in [Sessions -> [status: P!Statuses, repo: Repos \cup {NoRepo}]]
         /\ round \in [Sessions -> Nat]
         /\ request \in [Requests -> P!Request]
         /\ \A r \in Requests : request[r].on \in Sessions
         /\ published \in [Requests -> Nat]
         /\ outbox \in [Requests -> P!Row]
         /\ scan \in [Relays -> [batch: SUBSET Requests, next: 1..3]]
         /\ effects \in [P!Subscribers -> [Requests -> Nat]]
         /\ queue \in [Requests -> W!QueueRow]
  BY DEF DeliveryInv, P!SessionInv, P!IdeationTypeOK, P!Request, P!OutboxInv,
         P!OutboxTypeOK, W!QueueInv, W!QueueTypeOK

(* Nothing is finalised, relayed or queued at first.                       *)
LEMMA DeliveryInitInv == DeliveryInit => DeliveryInv
  <1> SUFFICES ASSUME DeliveryInit PROVE DeliveryInv
    OBVIOUS
  <1>1. P!SessionInv /\ P!BriefStays
    <2>1. P!IdeationInit
      BY DEF DeliveryInit, I!IdeationInit, P!IdeationInit, I!NewRequest,
             P!NewRequest, I!SomeSession, P!SomeSession
    <2>2. P!BriefStays
      BY <2>1 DEF P!IdeationInit, P!BriefStays
    <2> QED BY <2>1, <2>2, P!SessionInitInv, DeliveryAssumption
  <1>2. P!OutboxInv
    <2>1. P!OutboxInit
      BY DEF DeliveryInit, O!OutboxInit, P!OutboxInit, O!NoRow, P!NoRow,
             O!Idle, P!Idle, O!Subscribers, P!Subscribers,
             O!UNSUBSCRIBED, P!UNSUBSCRIBED
    <2> QED BY <2>1, P!OutboxInitInv, DeliveryAssumption
  <1>3. W!QueueInv /\ W!HandedOutIffClaimed
    <2>1. W!QueueInit
      BY DEF DeliveryInit, Q!QueueInit, W!QueueInit, Q!NoPoll, W!NoPoll,
             Q!Nothing, W!Nothing
    <2>2. W!QueueInv
      BY <2>1, W!InitInv, DeliveryAssumption
    <2>3. \A r \in Requests : queue[r].status = "absent" /\ ~(queue[r].attempts > 0)
      BY <2>1 DEF W!QueueInit
    <2> QED BY <2>2, <2>3 DEF W!HandedOutIffClaimed
  <1>4. Linked
    <2>1. /\ \A r \in Requests : published[r] = 0
          /\ \A r \in Requests : outbox[r].status = "absent"
      BY DEF DeliveryInit, I!IdeationInit, O!OutboxInit, O!NoRow
    <2>2. \A r \in Requests : effects["EnqueueRequirement"][r] = 0
      BY DEF DeliveryInit, O!OutboxInit, O!Subscribers
    <2>3. \A r \in Requests : queue[r].status = "absent"
      BY DEF DeliveryInit, Q!QueueInit
    <2> QED BY <2>1, <2>2, <2>3
            DEF Linked, OneTransaction, RequirementEvents, RowIsEffect
  <1> QED BY <1>1, <1>2, <1>3, <1>4 DEF DeliveryInv

(* The transaction of a generate: the round is published and the outbox row*)
(* inserted, or neither.                                                   *)
LEMMA FinalizeLinks ==
  ASSUME DeliveryInv, NEW r \in Requests, Finalize(r)
  PROVE  /\ published[r] = 0
         /\ \A q \in Requests \ {r} : published'[q] = published[q]
         /\ Linked'
  <1> DEFINE s == request[r].on
             at == request[r].at
  <1>1. /\ at = "checked" /\ s \in Sessions
        /\ published' = [published EXCEPT ![r] = IF P!Status(s) = "open"
                                                 THEN round[s] ELSE @]
    BY Tables DEF Finalize, I!GenerateCommit, I!Running, I!Status, P!Status
  <1>2. published[r] = 0
    BY <1>1 DEF DeliveryInv, P!SessionInv, P!PublishedInThePast
  <1>3. /\ \A q \in Requests \ {r} : published'[q] = published[q]
        /\ UNCHANGED <<effects, queue>>
    BY <1>1, Tables DEF Finalize, O!Publish, relay, bridge
  <1>4. RowIsEffect'
    BY <1>3 DEF DeliveryInv, Linked, RowIsEffect
  <1>5. CASE published'[r] # 0
    <2>1. PICK t \in Times : O!Publish(r, O!FINALIZED, "complete", t)
      BY <1>5 DEF Finalize
    <2>2. /\ outbox' = [outbox EXCEPT ![r] =
                          [status |-> "unpublished", eventType |-> P!FINALIZED,
                           data |-> "complete", createdAt |-> t]]
      BY <2>1 DEF O!Publish, O!FINALIZED, P!FINALIZED
    <2>3. /\ outbox'[r].status = "unpublished" /\ outbox'[r].eventType = P!FINALIZED
          /\ outbox'[r].data = "complete"
          /\ \A q \in Requests \ {r} : outbox'[q] = outbox[q]
      BY <2>2, Tables
    <2> QED BY <1>2, <1>3, <1>4, <1>5, <2>3
            DEF DeliveryInv, Linked, OneTransaction, RequirementEvents
  <1>6. CASE published'[r] = 0
    <2>1. UNCHANGED outbox
      BY <1>6 DEF Finalize, relay
    <2> QED BY <1>2, <1>3, <1>4, <1>6, <2>1
            DEF DeliveryInv, Linked, OneTransaction, RequirementEvents
  <1> QED BY <1>2, <1>3, <1>5, <1>6

(* The subscriber's delivery: counted as an effect exactly if the row is   *)
(* there afterwards (createMany with skipDuplicates).                      *)
LEMMA EnqueueLinks ==
  ASSUME DeliveryInv, NEW x \in Relays, NEW e \in Requests, EnqueueDelivered(x, e)
  PROVE  Linked'
  <1>1. O!Handle(x, e) /\ UNCHANGED <<published, outbox>>
    BY DEF EnqueueDelivered, O!Handle, ideation
  <1>2. /\ outbox[e].status # "absent"
        /\ outbox[e].eventType = P!FINALIZED /\ outbox[e].data = "complete"
    BY <1>1 DEF DeliveryInv, Linked, RequirementEvents, P!OutboxInv,
                P!BatchExists, O!Handle, O!IsHead
  <1>3. O!SubscribersOf(e) = <<"EnqueueRequirement">>
    BY <1>2 DEF O!SubscribersOf, O!byType, O!FINALIZED, P!FINALIZED,
                O!ANCHOR_CREATED, O!UNSUBSCRIBED
  <1>4. scan[x].next = 1
    BY <1>1, <1>3, Tables DEF O!Handle
  <1>5. effects' = [effects EXCEPT !["EnqueueRequirement"][e] =
                      O!Inserted("EnqueueRequirement", @)]
    BY <1>1, <1>2, <1>3, <1>4 DEF O!Handle, O!Accepts
  <1>6. /\ "EnqueueRequirement" \in P!Subscribers
        /\ effects["EnqueueRequirement"] \in [Requests -> Nat]
    BY Tables DEF P!Subscribers
  <1>7. /\ effects'["EnqueueRequirement"][e] > 0
        /\ \A f \in Requests \ {e} :
             effects'["EnqueueRequirement"][f] = effects["EnqueueRequirement"][f]
    BY <1>5, <1>6, Tables DEF O!Inserted, O!IsKeyed
  <1>8. /\ queue'[e].status # "absent"
        /\ \A f \in Requests \ {e} : queue'[f] = queue[f]
    BY Tables DEF EnqueueDelivered, Q!Enqueue, bridge
  <1> QED BY <1>1, <1>7, <1>8
          DEF DeliveryInv, Linked, OneTransaction, RequirementEvents, RowIsEffect

(* The rest of a scan marks rows, and makes none.                          *)
LEMMA RelayLinks ==
  ASSUME DeliveryInv, RelayStep
  PROVE  Linked'
  <1>1. UNCHANGED <<published, effects, queue>>
    BY DEF RelayStep, ideation, bridge, O!ScanStart, O!ScanCrash,
           O!HandleThrows, O!MarkPublished, O!MarkThrows
  <1>2. CASE UNCHANGED outbox
    BY <1>1, <1>2
       DEF DeliveryInv, Linked, OneTransaction, RequirementEvents, RowIsEffect
  <1>3. ASSUME NEW x \in Relays, NEW e \in Requests, O!MarkPublished(x, e)
        PROVE  Linked'
    <2>1. outbox[e].status # "absent"
      BY <1>3 DEF DeliveryInv, P!OutboxInv, P!BatchExists, O!MarkPublished,
                  O!IsHead
    <2>2. outbox[e] \in P!Row /\ outbox' = [outbox EXCEPT ![e].status = "published"]
      BY <1>3, Tables DEF O!MarkPublished
    <2>3. /\ outbox'[e].status = "published"
          /\ outbox'[e].eventType = outbox[e].eventType
          /\ outbox'[e].data = outbox[e].data
          /\ \A f \in Requests \ {e} : outbox'[f] = outbox[f]
      BY <2>2, Tables DEF P!Row
    <2> QED BY <1>1, <2>1, <2>3
            DEF DeliveryInv, Linked, OneTransaction, RequirementEvents, RowIsEffect
  <1> QED BY <1>2, <1>3
          DEF RelayStep, O!ScanStart, O!ScanCrash, O!HandleThrows, O!MarkThrows

(* Workers take rows, extend and settle them; no row appears or goes.      *)
LEMMA BridgeLinks ==
  ASSUME DeliveryInv, BridgeStep
  PROVE  Linked'
  <1>1. UNCHANGED <<published, outbox, effects>>
    BY DEF BridgeStep, ideation, relay
  <1>2. \A f \in Requests :
          queue'[f].status = "absent" <=> queue[f].status = "absent"
    <2>1. CASE UNCHANGED queue
      BY <2>1
    <2>2. ASSUME NEW w \in Workers, NEW e \in Requests, Q!Claim(w, e)
          PROVE  \A f \in Requests :
                   queue'[f].status = "absent" <=> queue[f].status = "absent"
      <3>1. W!Claimable(e)
        BY <2>2, DeliveryAssumption
           DEF DeliveryInv, W!QueueInv, W!ClaimsAreExclusive, Q!Claim
      <3> QED BY <2>2, <3>1, Tables DEF Q!Claim, W!Claimable, W!QueueRow
    <2>3. ASSUME NEW e \in Requests,
                 Q!ExtendLease(e) \/ \E o \in {"done", "failed"} : Q!Complete(e, o)
          PROVE  \A f \in Requests :
                   queue'[f].status = "absent" <=> queue[f].status = "absent"
      BY <2>3, Tables DEF Q!ExtendLease, Q!Complete, W!QueueRow
    <2>4. CASE Q!Tick
      BY <2>4, Tables DEF Q!Tick, W!QueueRow
    <2> QED BY <2>1, <2>2, <2>3, <2>4
            DEF BridgeStep, Q!PollStep, Q!PollSelect, Q!PollCommit,
                Q!PollReplyLost, Q!PollAbort, Q!WorkerStep, Q!Ack,
                Q!AckReplyLost, Q!Result, Q!ResultReplyLost, Q!Refused,
                Q!WorkerCrash
  <1> QED BY <1>1, <1>2
          DEF DeliveryInv, Linked, OneTransaction, RequirementEvents, RowIsEffect

(* Every other handler of a session leaves what was published alone.       *)
LEMMA IdeationLinks ==
  ASSUME DeliveryInv, IdeationStep
  PROVE  Linked' /\ UNCHANGED published
  <1>1. UNCHANGED <<published, outbox, effects, queue>>
    BY DEF IdeationStep, relay, bridge, I!CreateSession, I!ReopenSession,
           I!SetSessionRepo, I!Begin, I!Abandon, I!ClarifyAsk, I!ClarifyRead,
           I!LandAssistant, I!ExportRead, I!ExportMark, I!DeleteChildren,
           I!DeleteCommit
  <1> QED BY <1>1
          DEF DeliveryInv, Linked, OneTransaction, RequirementEvents, RowIsEffect

(* The invariant is inductive: the parts keep theirs, and the two shared   *)
(* steps keep the links.                                                   *)
LEMMA DeliveryNextInv == DeliveryInv /\ [DeliveryNext]_vars => DeliveryInv'
  <1> SUFFICES ASSUME DeliveryInv, [DeliveryNext]_vars PROVE DeliveryInv'
    OBVIOUS
  <1>1. P!SessionInv' /\ P!BriefStays'
    BY SessionSteps, P!SessionNextInv, P!BriefStaysInv, DeliveryAssumption
       DEF DeliveryInv
  <1>2. P!OutboxInv'
    BY OutboxSteps, P!OutboxNextInv, DeliveryAssumption DEF DeliveryInv
  <1>3. W!QueueInv' /\ W!HandedOutIffClaimed'
    BY QueueSteps, W!NextInv, W!HandedOutInv, DeliveryAssumption DEF DeliveryInv
  <1>4. Linked'
    <2>1. CASE UNCHANGED vars
      BY <2>1 DEF vars, ideation, relay, bridge, DeliveryInv, Linked,
                  OneTransaction, RequirementEvents, RowIsEffect
    <2> QED BY <2>1, FinalizeLinks, EnqueueLinks, IdeationLinks, RelayLinks,
               BridgeLinks DEF DeliveryNext
  <1> QED BY <1>1, <1>2, <1>3, <1>4 DEF DeliveryInv

(* The inductive invariant of the composition.                             *)
THEOREM DeliveryInvariant == DeliverySpec => []DeliveryInv
  <1> QED BY DeliveryInitInv, DeliveryNextInv, PTL DEF DeliverySpec
(* Every step of the composition is, for the sessions, the outbox and the  *)
(* queue, a step of theirs: what is proved about a part alone holds of it  *)
(* in the composition.                                                     *)
THEOREM PartsAreKept ==
  DeliverySpec => P!IdeationSpec /\ P!OutboxSpec /\ W!QueueSpec
  <1>1. DeliveryInit => P!IdeationInit /\ P!OutboxInit /\ W!QueueInit
    BY DEF DeliveryInit, I!IdeationInit, P!IdeationInit, I!NewRequest,
           P!NewRequest, I!SomeSession, P!SomeSession,
           O!OutboxInit, P!OutboxInit, O!NoRow, P!NoRow,
           O!Idle, P!Idle, O!Subscribers, P!Subscribers,
           O!UNSUBSCRIBED, P!UNSUBSCRIBED,
           Q!QueueInit, W!QueueInit, Q!NoPoll, W!NoPoll, Q!Nothing, W!Nothing
  <1> QED BY <1>1, SessionSteps, OutboxSteps, QueueSteps, PTL
          DEF DeliverySpec, P!IdeationSpec, P!OutboxSpec, W!QueueSpec

-----------------------------------------------------------------------------
(* What the composition promises                                           *)

(* A row in the queue stands for a request that published: the row for a   *)
(* delivery, the delivery for a committed event, the event for its request.*)
LEMMA QueuedWasPublished ==
  ASSUME DeliveryInv, NEW r \in Requests, queue[r].status # "absent"
  PROVE  published[r] # 0
  <1>1. effects["EnqueueRequirement"][r] > 0 /\ "EnqueueRequirement" \in P!Subscribers
    BY DEF DeliveryInv, Linked, RowIsEffect, P!Subscribers
  <1>2. outbox[r].status # "absent"
    BY <1>1 DEF DeliveryInv, P!OutboxInv, P!NoSpuriousEffect
  <1> QED BY <1>2 DEF DeliveryInv, Linked, OneTransaction

(* Sessions, outbox and queue are always well-formed, together.            *)
THEOREM DeliveryTypeCorrect == DeliverySpec => []DeliveryTypeOK
  <1>1. DeliveryInv => DeliveryTypeOK
    <2> SUFFICES ASSUME DeliveryInv PROVE DeliveryTypeOK
      OBVIOUS
    <2>1. I!IdeationTypeOK
      BY DEF DeliveryInv, P!SessionInv, P!IdeationTypeOK, I!IdeationTypeOK,
             I!Statuses, P!Statuses, I!FINALISED, P!FINALISED, I!Turn, P!Turn,
             I!Request, P!Request, I!Phases, P!Phases
    <2>2. O!OutboxTypeOK
      BY DEF DeliveryInv, P!OutboxInv, P!OutboxTypeOK, O!OutboxTypeOK,
             O!Row, P!Row, O!EventTypes, P!EventTypes, O!Payloads, P!Payloads,
             O!Subscribers, P!Subscribers, O!FINALIZED, P!FINALIZED,
             O!ANCHOR_CREATED, P!ANCHOR_CREATED, O!UNSUBSCRIBED, P!UNSUBSCRIBED
    <2>3. Q!QueueTypeOK
      BY DEF DeliveryInv, W!QueueInv, W!QueueTypeOK, Q!QueueTypeOK,
             Q!QueueRow, W!QueueRow, Q!Ttl, W!Ttl, Q!FreshLease, W!FreshLease,
             Q!Poll, W!Poll, Q!Belief, W!Belief
    <2> QED BY <2>1, <2>2, <2>3 DEF DeliveryTypeOK
  <1> QED BY <1>1, DeliveryInvariant, PTL

(* The brief a worker is told to fetch by session id is there, or its      *)
(* session was deleted: the event outlives the request, the relay's delay  *)
(* and any number of claims, and nothing in between takes the brief.       *)
THEOREM WorkerFindsBrief == DeliverySpec => []BriefForWorker
  <1>1. DeliveryInv => BriefForWorker
    <2> SUFFICES ASSUME DeliveryInv, NEW e \in Requests,
                        queue[e].status \in {"pending", "claimed"}
                 PROVE  \/ draft[request[e].on] # NoRequest
                        \/ session[request[e].on].status = "deleted"
      BY DEF BriefForWorker
    <2>1. published[e] # 0
      BY QueuedWasPublished
    <2> QED BY <2>1 DEF DeliveryInv, P!BriefStays, P!Status
  <1> QED BY <1>1, DeliveryInvariant, PTL

(* Two queue rows of a session stand for two of its rounds, and none for a *)
(* round that never converged (exactly-once finalisation, carried through  *)
(* an at-least-once relay by a keyed insert).                              *)
THEOREM RowsAreRounds == DeliverySpec => []OneRowPerRound
  <1>1. DeliveryInv => OneRowPerRound
    BY QueuedWasPublished
       DEF OneRowPerRound, DeliveryInv, P!SessionInv, P!AtMostOnce
  <1> QED BY <1>1, DeliveryInvariant, PTL

RelayedIsQueued ==
  \A r \in Requests : outbox[r].status = "published" => queue[r].status # "absent"

(* The relay is done with a requirement only once it is in the queue: what *)
(* it marks published, workers can see.                                    *)
THEOREM NothingIsDropped == DeliverySpec => []RelayedIsQueued
  <1>1. DeliveryInv => RelayedIsQueued
    <2> SUFFICES ASSUME DeliveryInv, NEW r \in Requests,
                        outbox[r].status = "published"
                 PROVE  queue[r].status # "absent"
      BY DEF RelayedIsQueued
    <2>1. outbox[r].eventType = P!FINALIZED /\ outbox[r].data = "complete"
      BY DEF DeliveryInv, Linked, RequirementEvents
    <2>2. P!SubscribersOf(r) = <<"EnqueueRequirement">>
      BY <2>1 DEF P!SubscribersOf, P!byType, P!FINALIZED, P!ANCHOR_CREATED,
                  P!UNSUBSCRIBED
    <2>3. 1 \in 1..Len(P!SubscribersOf(r))
          /\ P!SubscribersOf(r)[1] = "EnqueueRequirement"
      BY <2>2
    <2>4. P!Accepts(P!SubscribersOf(r)[1], outbox[r].data)
      BY <2>1 DEF P!Accepts
    <2>5. effects["EnqueueRequirement"][r] > 0
      BY <2>3, <2>4 DEF DeliveryInv, P!OutboxInv, P!PublishedMeansHandled
    <2> QED BY <2>5 DEF DeliveryInv, Linked, RowIsEffect
  <1> QED BY <1>1, DeliveryInvariant, PTL

-----------------------------------------------------------------------------
(* The refinement: the transaction of a generate that wins is Enter, a     *)
(* claim is HandOut, a result is Settle; the relay's part is all stutter.  *)
Entered == {r \in Requests : published[r] # 0}
HandedOut == {r \in Requests : queue[r].attempts > 0}
Outcome == [r \in Requests |-> IF Q!Terminal(r) THEN queue[r].status ELSE "none"]

(* Finalising enters a requirement, and does nothing else to the mapping.  *)
LEMMA FinalizeEnters ==
  ASSUME DeliveryInv, NEW r \in Requests, Finalize(r)
  PROVE  EndToEnd!Enter(r) \/ UNCHANGED <<Entered, HandedOut, Outcome>>
  <1>1. /\ published[r] = 0
        /\ \A q \in Requests \ {r} : published'[q] = published[q]
    BY FinalizeLinks
  <1>2. UNCHANGED queue
    BY DEF Finalize, bridge
  <1>3. UNCHANGED <<HandedOut, Outcome>>
    BY <1>2 DEF HandedOut, Outcome, Q!Terminal
  <1>4. CASE published'[r] = 0
    BY <1>1, <1>3, <1>4 DEF Entered
  <1>5. CASE published'[r] # 0
    <2>1. Entered' = Entered \cup {r} /\ r \notin Entered
      BY <1>1, <1>5 DEF Entered
    <2> QED BY <1>3, <2>1 DEF EndToEnd!Enter, HandedOut, Outcome, Entered
  <1> QED BY <1>4, <1>5

(* Whatever does not finalise leaves what was finalised.                   *)
LEMMA OthersEnterNothing ==
  ASSUME DeliveryInv, [DeliveryNext]_vars, ~\E r \in Requests : Finalize(r)
  PROVE  UNCHANGED published
  BY IdeationLinks
     DEF DeliveryNext, EnqueueDelivered, RelayStep, BridgeStep, vars, ideation

(* A step that finalises nothing is a claim, a result or a stutter.        *)
LEMMA QueueSettles ==
  ASSUME DeliveryInv, [DeliveryNext]_vars, UNCHANGED published
  PROVE  [EndToEnd!Next]_<<Entered, HandedOut, Outcome>>
  <1>0. UNCHANGED Entered
    BY DEF Entered
  <1>1. CASE \A f \in Requests : /\ queue'[f].status = queue[f].status
                                 /\ queue'[f].attempts = queue[f].attempts
    BY <1>0, <1>1 DEF HandedOut, Outcome, Q!Terminal
  <1>2. ASSUME NEW e \in Requests, \A f \in Requests \ {e} : queue'[f] = queue[f]
        PROVE  \A f \in Requests \ {e} : /\ queue'[f].status = queue[f].status
                                          /\ queue'[f].attempts = queue[f].attempts
                                          /\ Q!Terminal(f)' = Q!Terminal(f)
    BY <1>2 DEF Q!Terminal
  <1>3. ASSUME NEW e \in Requests, \A f \in Requests \ {e} : queue'[f] = queue[f],
               queue[e].status = "absent", queue'[e].status = "pending",
               queue'[e].attempts = 0, ~(queue[e].attempts > 0)
        PROVE  UNCHANGED <<Entered, HandedOut, Outcome>>
    <2>1. UNCHANGED HandedOut
      BY <1>2, <1>3 DEF HandedOut
    <2>2. UNCHANGED Outcome
      BY <1>2, <1>3 DEF Outcome, Q!Terminal
    <2> QED BY <1>0, <2>1, <2>2
  <1>4. ASSUME NEW e \in Requests, \A f \in Requests \ {e} : queue'[f] = queue[f],
               queue[e].status \in {"pending", "claimed"},
               queue'[e].status = "claimed", queue'[e].attempts > 0
        PROVE  EndToEnd!HandOut(e)
    <2>1. e \in Entered
      BY <1>4, QueuedWasPublished DEF Entered
    <2>2. HandedOut' = HandedOut \cup {e}
      BY <1>2, <1>4 DEF HandedOut
    <2>3. UNCHANGED Outcome /\ Outcome[e] = "none"
      BY <1>2, <1>4 DEF Outcome, Q!Terminal
    <2> QED BY <1>0, <2>1, <2>2, <2>3
            DEF EndToEnd!HandOut, Entered, HandedOut, Outcome
  <1>5. ASSUME NEW e \in Requests, \A f \in Requests \ {e} : queue'[f] = queue[f],
               queue[e].status = "claimed", queue[e].attempts > 0,
               queue'[e].status \in {"done", "failed"},
               queue'[e].attempts = queue[e].attempts
        PROVE  \E o \in EndToEnd!Outcomes : EndToEnd!Settle(e, o)
    <2>1. UNCHANGED HandedOut /\ e \in HandedOut
      BY <1>2, <1>5 DEF HandedOut
    <2>2. Outcome[e] = "none" /\ Outcome' = [Outcome EXCEPT ![e] = queue'[e].status]
      BY <1>2, <1>5 DEF Outcome, Q!Terminal
    <2> QED BY <1>0, <1>5, <2>1, <2>2
            DEF EndToEnd!Settle, EndToEnd!Outcomes, Entered, HandedOut, Outcome
  <1>6. W!QueueInv /\ W!HandedOutIffClaimed /\ [W!QueueNext]_(W!queueVars)
    BY QueueSteps DEF DeliveryInv
  <1> QED BY <1>1, <1>3, <1>4, <1>5, <1>6, W!StepShapes, DeliveryAssumption
          DEF EndToEnd!Next

(* From the brief's commit to the worker's outcome the three components    *)
(* together implement WorkQueue.                                           *)
THEOREM DeliveryImplementsWorkQueue == DeliverySpec => ImplementsWorkQueue
  <1>1. DeliveryInit => EndToEnd!Init
    <2> SUFFICES ASSUME DeliveryInit PROVE EndToEnd!Init
      OBVIOUS
    <2>1. \A r \in Requests : published[r] = 0
      BY DEF DeliveryInit, I!IdeationInit
    <2>2. \A r \in Requests : queue[r].status = "absent" /\ ~(queue[r].attempts > 0)
      BY DEF DeliveryInit, Q!QueueInit
    <2> QED BY <2>1, <2>2 DEF EndToEnd!Init, Q!Terminal
  <1>2. DeliveryInv /\ [DeliveryNext]_vars =>
          [EndToEnd!Next]_<<Entered, HandedOut, Outcome>>
    BY FinalizeEnters, OthersEnterNothing, QueueSettles
       DEF EndToEnd!Next
  <1> QED BY <1>1, <1>2, DeliveryInvariant, PTL
          DEF DeliverySpec, ImplementsWorkQueue, EndToEnd!Spec, Entered,
              HandedOut, Outcome
=============================================================================
