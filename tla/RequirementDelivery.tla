------------------------- MODULE RequirementDelivery -------------------------
(***************************************************************************)
(* From a brief to a worker's outcome: IdeationSession publishes a         *)
(* requirement-finalized event through Outbox, whose relay hands it to     *)
(* EnqueueRequirementSubscriber, which inserts the row that AgentQueue     *)
(* leases to workers.  The three components run concurrently and share     *)
(* exactly two steps: a generate that wins its round commits its outbox row*)
(* in the same transaction, and a delivery to EnqueueRequirement inserts   *)
(* the queue row.  An event is named after the request that published it.  *)
(***************************************************************************)
EXTENDS Naturals, Sequences

CONSTANTS
  Sessions, Requests, NoRequest, Repos, NoRepo,            \* IdeationSession
  Times, Relays, BatchSize, JobCap,                        \* Outbox
  Workers, LeaseSeconds, AttemptsCap, MaxFaults            \* AgentQueue

(* What the parts assume of their constants.                               *)
ASSUME DeliveryAssumption ==
  /\ Sessions # {}
  /\ NoRequest \notin Requests /\ NoRepo \notin Repos
  /\ Times \subseteq Nat
  /\ BatchSize \in Nat \ {0} /\ JobCap \in Nat \ {0}
  /\ LeaseSeconds \in Nat \ {0} /\ AttemptsCap \in Nat \ {0}
  /\ MaxFaults \in Nat

VARIABLES
  session, round, turns, draft, images, request, published,
  outbox, scan, effects,
  queue, arrivals, poll, worker, faults

I == INSTANCE IdeationSession
O == INSTANCE Outbox WITH Events <- Requests
Q == INSTANCE AgentQueue WITH Events <- Requests, NoEvent <- NoRequest

ideation == <<session, round, turns, draft, images, request, published>>
relay == <<outbox, scan, effects>>
bridge == <<queue, arrivals, poll, worker, faults>>
vars == <<ideation, relay, bridge>>

DeliveryInit == I!IdeationInit /\ O!OutboxInit /\ Q!QueueInit

-----------------------------------------------------------------------------
(* Mutant of Finalize: the event is not part of the transaction, and lost. *)
FinalizeWithoutOutbox(r) == I!GenerateCommit(r) /\ UNCHANGED <<relay, bridge>>

(* The transaction of a generate, with the outbox row if it wins.          *)
Finalize(r) ==
  /\ I!GenerateCommit(r)
  /\ IF published'[r] # 0
     THEN \E at \in Times : O!Publish(r, O!FINALIZED, "complete", at)
     ELSE UNCHANGED relay
  /\ UNCHANGED bridge

(* Mutant of EnqueueDelivered: the row is upserted.                        *)
EnqueueUpserts(x, e) ==
  /\ O!Handle(x, e)
  /\ queue' = [queue EXCEPT ![e] = [status |-> "pending", ttl |-> 0, attempts |-> 0,
                                    createdAt |-> arrivals + 1]]
  /\ arrivals' = arrivals + 1
  /\ UNCHANGED <<poll, worker, faults, ideation>>

(* createMany with skipDuplicates on source_event_id.                      *)
EnqueueDelivered(x, e) ==
  /\ O!Handle(x, e)
  /\ IF queue[e].status = "absent" THEN Q!Enqueue(e) ELSE UNCHANGED bridge
  /\ UNCHANGED ideation

IdeationStep ==
  /\ \/ \E s \in Sessions : I!CreateSession(s) \/ I!ReopenSession(s)
     \/ \E s \in Sessions, repo \in Repos : I!SetSessionRepo(s, repo)
     \/ \E r \in Requests, op \in I!Operations, s \in Sessions, image \in BOOLEAN :
          I!Begin(r, op, s, image)
     \/ \E r \in Requests :
          \/ I!Abandon(r)
          \/ I!ClarifyAsk(r) \/ I!ClarifyRead(r) \/ I!LandAssistant(r)
          \/ I!ExportRead(r) \/ I!ExportMark(r)
          \/ I!DeleteChildren(r) \/ I!DeleteCommit(r)
  /\ UNCHANGED <<relay, bridge>>

RelayStep ==
  /\ \/ \E x \in Relays : O!ScanStart(x) \/ O!ScanCrash(x)
     \/ \E x \in Relays, e \in Requests :
          O!HandleThrows(x, e) \/ O!MarkPublished(x, e) \/ O!MarkThrows(x, e)
  /\ UNCHANGED <<ideation, bridge>>

BridgeStep ==
  /\ \/ \E w \in Workers, e \in Requests : Q!PollStep(w, e) \/ Q!WorkerStep(w, e)
     \/ \E w \in Workers : Q!WorkerCrash(w)
     \/ Q!Tick
  /\ UNCHANGED <<ideation, relay>>

DeliveryNext ==
  \/ \E r \in Requests : Finalize(r)
  \/ \E x \in Relays, e \in Requests : EnqueueDelivered(x, e)
  \/ IdeationStep
  \/ RelayStep
  \/ BridgeStep

DeliverySpec == DeliveryInit /\ [][DeliveryNext]_vars

-----------------------------------------------------------------------------
(* Safety                                                                  *)

DeliveryTypeOK == I!IdeationTypeOK /\ O!OutboxTypeOK /\ Q!QueueTypeOK

(* The claim check resolves: as long as an event waits for, or is with, a  *)
(* worker, the brief the worker fetches by session id exists, unless the   *)
(* session was deleted.                                                    *)
BriefForWorker ==
  \A e \in Requests : queue[e].status \in {"pending", "claimed"} =>
    \/ draft[request[e].on] # NoRequest
    \/ session[request[e].on].status = "deleted"

(* A worker gets one event per finalised round of a session: however often *)
(* the relay repeats itself and requests race, two queue rows of a session *)
(* stand for two rounds, and none for a round that never converged.        *)
OneRowPerRound ==
  \A d, e \in Requests :
    (queue[d].status # "absent" /\ queue[e].status # "absent") =>
      /\ published[d] # 0
      /\ (d # e /\ request[d].on = request[e].on) => published[d] # published[e]

(* What becomes of a finalised requirement between the brief's commit and  *)
(* the worker's outcome is what WorkQueue allows: it enters when the brief *)
(* commits (not when the relay gets to it), is handed out only then, and is*)
(* settled at most once.                                                   *)
EndToEnd == INSTANCE WorkQueue WITH
  Events    <- Requests,
  entered   <- {r \in Requests : published[r] # 0},
  handedOut <- {r \in Requests : queue[r].attempts > 0},
  outcome   <- [r \in Requests |-> IF Q!Terminal(r) THEN queue[r].status ELSE "none"]

ImplementsWorkQueue == EndToEnd!Spec

-----------------------------------------------------------------------------
(* Liveness, under the fairness of the parts: the cron fires, subscribers  *)
(* and updates that are retried do not fail for ever, workers poll and     *)
(* finish, time passes.  Nothing is assumed of users or of requests.       *)
DeliveryFairness ==
  /\ \A x \in Relays : WF_vars(O!ScanStart(x) /\ UNCHANGED <<ideation, bridge>>)
  /\ \A x \in Relays, e \in Requests :
       /\ SF_vars(EnqueueDelivered(x, e))
       /\ SF_vars(O!MarkPublished(x, e) /\ UNCHANGED <<ideation, bridge>>)
  /\ WF_vars(Q!Tick /\ UNCHANGED <<ideation, relay>>)
  /\ \A w \in Workers :
       /\ SF_vars((\E e \in Requests : Q!PollSelect(w, e)) /\ UNCHANGED <<ideation, relay>>)
       /\ WF_vars((\E e \in Requests : Q!PollCommit(w, e)) /\ UNCHANGED <<ideation, relay>>)
       /\ SF_vars((\E e \in Requests : Q!Ends(w, e)) /\ UNCHANGED <<ideation, relay>>)

DeliveryFairSpec == DeliverySpec /\ DeliveryFairness

(* Every finalised requirement eventually has a worker's outcome, through  *)
(* relay crashes, throwing subscribers, lost replies and expired leases.   *)
FinalizedIsSettled ==
  \A r \in Requests : published[r] # 0 ~> Q!Terminal(r)
=============================================================================
