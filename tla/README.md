# TLA+ verification of no-vain-years-tech

Specifications of the server in `apps/server/src`, their TLC runs and their TLAPS
proofs. They concern what is hard to test there: use cases that are several database
calls with slow external calls in between, background scans that overlap, rows handed
out under leases, and processes that die between two steps.

Paths below are relative to `apps/server/src` unless they start with `apps/`,
`packages/` or `services/`.

## 1. The system

A NestJS server over one Postgres database (Prisma, READ COMMITTED, no explicit
locks except in one statement of the agent queue), Redis (BullMQ job queues, rate
limits, short-lived codes), an Expo mobile client and three side services. Bounded
contexts do not import each other's services: they communicate through the outbox.

| Component | State | Operations | Interacts with | What is hard, and what must hold |
|---|---|---|---|---|
| Transactional outbox (`security/outbox`) | `outbox_event` | `publish(tx)`, `scan` every 10 s, `dispatch` | every publisher; three subscribers | overlapping scans, throws and crashes half way: no delivery is lost, keyed deliveries have one effect, every event is eventually delivered |
| Subscribers (`agent-bridge`, `marketdata`, `optionsdesk`) | `agent_queue_event`, cold-start jobs, `broker_sync_run` | `handle` | outbox | idempotence; a refused payload must not throw |
| Agent queue (`agent-bridge`) | `agent_queue_event` | `poll`, `ack`, `result` | workers outside the server | concurrent polls, leases, zombie workers, lost replies: exclusive claims, one final outcome |
| Ideation (`ideation`) | `idea_session`, `idea_turn`, `requirements_draft`, `idea_attachment`, `ideation_mockup` | create, clarify, generate, export, reopen, set repo, delete, record mockup | LLM provider, outbox, agent queue | requests that overlap around LLM calls of minutes: exactly-once finalisation, a brief for every converged session |
| Account and authentication (`account`, `auth`, `security`) | `account`, `refresh_token`, `wechat_binding`, codes and failure counters in Redis | login by SMS or WeChat, refresh, logout, freeze, cancel, anonymise | every guarded endpoint | rotation against logout and freeze; the freeze deadline |
| Market data (`marketdata`) | schedules, sync runs, bars, jobs | tick, enqueue, process, record, rate-limit | vendors, outbox | claim of a tick before its job is queued; runs recorded after a restart; budgets shared by processes |
| Options desk (`optionsdesk`) | anchors, legs, broker connections, event cursor | consume broker events, backfill, re-check legs | `services/futu-shim`, market data | gaps and restarts of the event stream; bounded work per tick |
| Alerts (`alert`) | alerts, push deliveries | evaluate, dispatch pushes | push provider | a crash between sending and recording |
| Portfolio (`portfolio`) | market preferences, positions | update preferences | - | at least one market stays enabled |
| Research (`research`) | reports and versions | ingest | object store | versions under concurrent uploads |
| Chat (`chat`) | conversations, messages | stream a turn | LLM provider | like a clarify turn |
| Mobile client (`apps/mobile`) | tokens | single-flight refresh, logout | auth endpoints | logout while a refresh runs |
| App, config, integrations, observability; `services/*`; `packages/*`; scripts, ops, docs | none of their own that matters here | | | I/O, wiring, generated code |

`PROJECT.json` lists the same components with their status, and every hazard with
its line.

## 2. What is modelled

Two groups. The pipeline from an idea to a worker's result is one composed system:

    IdeationSession --requirement-finalized--> Outbox --EnqueueRequirement--> AgentQueue --> worker
                                                                                   ^            |
                                                                                   +- MockupReporting

The other subsystems share only the database and the clock with it. The synchronisation
is modelled along its own pipeline, one module per stage:

    SyncTicks (which dimensions fire) --> SyncFlow (one BullMQ flow per lane) --> SyncRuns (jobs, rows)

| Module | Models |
|---|---|
| `Outbox` | the outbox table, up to `Relays` scans in flight, the three subscribers |
| `WorkQueue` | abstract: what a work queue promises (entered once, handed out while unsettled, settled once) |
| `AgentQueue` | the queue table, polls as row lock and commit, leases, workers; implements `WorkQueue` |
| `IdeationSession` | sessions and their children; each request is the series of its database calls |
| `MockupReporting` | extends `AgentQueue` with the endpoints that derive ownership from a claimed row |
| `RequirementDelivery` | composes `IdeationSession`, `Outbox` and `AgentQueue`; implements `WorkQueue` end to end |
| `AccountSessions` | accounts, refresh tokens, confirmation codes and the anonymising sweep |
| `SyncTicks` | the schedule of the dimensions and the ticks that claim them |
| `DimensionRuns` | abstract: what one round of dimensions with dependencies promises |
| `SyncFlow` | the assembly of a flow from the dependency graph, and its execution; implements `DimensionRuns` |
| `SyncRuns` | queues and workers of the lanes, the rows of `sync_run`, the three ways an interrupted row is closed |
| `BrokerEvents` | the shim's ring buffer, the server's cursor, gap fills and the other writer of the rows |
| `PushDispatch` | push bindings, the fan-out of a hit, dispatch rounds |
| `*_proofs` | theorems about the module of that name; `Publishing_proofs` about `IdeationSession` and `Outbox`, `AgentQueue_proofs` about `AgentQueue` and `MockupReporting`, `Scheduling_proofs` about `SyncTicks` and `SyncFlow` |
| `MC*` | instances for TLC |

### Outbox

`Publish` is the insert inside a use case's transaction. `scan` is split at its database
calls: `ScanStart` (the `findMany`), `Handle` and `HandleThrows` (one subscriber of
`registry.dispatch` returns or throws), `MarkPublished` and `MarkThrows` (the update),
`ScanCrash`. A scan's local state is its batch and its position among the subscribers
(`scan[r]`); rows are taken oldest first (`IsHead`). A row carries the time its
transaction began, so rows may appear in the table out of order, behind rows that are
already published (`Publish` takes any unused time). A throw drops the row from this
scan's batch and leaves it unpublished, as the `catch` does. What a subscriber does is
counted in `effects`; payloads are the three classes the subscribers' checks tell apart.
The two subscribers of `optionsdesk.anchor-created` are registered market data first, as
the module initialisation order has it; the properties speak of whatever order `byType`
gives. An event type without subscriber is published without effect, as in the code. The
broker backfill is modelled for one connection and a real vendor.

### Agent queue

The claim is one SQL statement, and not an atomic step: its subselect takes the row lock
(`SKIP LOCKED`), its update commits later. `PollSelect` and `PollCommit` (or
`PollReplyLost`, `PollAbort`) are those two halves; `Locked` is the row lock that other
polls skip and that `ack` and `result` wait for. Leases count down with `Tick`, relative
to now; a poll's lease counts from `now()` of its statement, so time may pass before it
commits. Workers are outside the repository and modelled by what the endpoints let them
do: a worker polls when it holds nothing, keeps using an event after its lease has run
out, retries, crashes, and misses replies (`MaxFaults` bounds the last three kinds of
fault, nothing else). `Refused` is the 404.

### Ideation sessions

Requests come from one owner (a stranger's request ends at its first read). `Begin` is a
request's first read; from then on the request goes by what it has read. `GenerateCommit`
is the transaction that upserts the draft, conditionally converges the session and, if
that matched, publishes. `ClarifyAsk`, `ClarifyRead`, `LandAssistant` are the three calls
of a clarify turn, `ExportRead` and `ExportMark` those of an export. A delete is one
transaction of four statements; under READ COMMITTED its child deletes see the rows of
that moment and its session delete comes later, so it is `DeleteChildren` (the rows it
removes stay locked) and `DeleteCommit`. A brief that lands in between waits only if there
was a draft to lock (`DraftLocked`). `Abandon` ends a request anywhere: a dead process, a
failed LLM call, an incomplete brief, a rolled-back transaction.

`round` and `published` are history variables: a round is the life of a session between
two reopenings. Texts, suggestions and brief contents are abstracted to who wrote them.

### Mockup reporting

`derive` reads the queue row and tests only `status = 'claimed'`; the insert is a second
call. In between, the queue takes any step. `stale` remembers that the lease had run out
at the read.

### Composition

`RequirementDelivery` shares two steps: `Finalize` (the generate's commit and the outbox
row, one transaction) and `EnqueueDelivered` (a delivery and the queue row). Everything
else interleaves. The queue row of an event is named after the request that published it.

### Accounts and sessions

Every operation is a request that awaits the database between its steps; `req[r]` holds
where it stands and what it captured, with the clock it read (`at`). `LoginInspect`,
`CommitPhoneLogin`, `LoginPersist` are the three calls of a login; `FindActiveByHash`,
`RefreshInspect`, `Rotate` those of a refresh, where `Rotate` is the conditional update
and the new row of one transaction. A deletion is `DeleteStart` (account and code are
read), then its transaction in two steps: `DeleteClaim` (the two conditional updates take
the row locks, and `revokeAll` reads its snapshot) and `DeleteCommit`. Between them
`Locked` keeps other writers of the account waiting, and a token that is persisted is
missing from the snapshot: that is how freezing may miss a session. The sweep's
transaction is split the same way (`SweepClaim`, `SweepCommit`). `Abandon`, `SweepRowFails`
and `SweepCut` end a request or the sweep anywhere, with the open transaction rolled back.
`FindActive` is the newest unused code of a purpose. One tick is five days, the grace
three ticks or more; no request is under way for a whole tick (`Tick`). The codes' text,
the login code in Redis, rate limits and access tokens (checked against the account on
each request) are left out.

### Synchronisation: ticks

`tick[t]` is a tick under way, with the clock it read at its start. `ReadUnmaterialized`
and `ReadDue` are its two reads, `UpdateRow` one conditional update (`updateMany` on the
`nextFireAt` that was read), `Gate` everything that may hold a claim back (as-of date,
trading day, pause, freshness), `EnqueueLane` the flow of one lane. A broken cron
expression throws inside the loop over rows and is caught there. `TickThrows` stands for
any other exception, among them the configuration error of a hard edge across lanes.
Cron expressions are periods; `computeNext` is the next multiple strictly after the clock.

### Synchronisation: the flow

`assembleSyncFlow` is pure: it checks the graph for cycles, orders all dimensions with
Kahn's algorithm (`deriveExecutionOrder`), keeps those that were won, and refuses what a
chain cannot express. What BullMQ then does with a chain (a parent runs when its child has
ended; `failParentOnFailure` fails it, `ignoreDependencyOnFailure` lets it go on) is
modelled from the options the code passes. `DimensionRuns` says what the dependency graph
means without a chain; the refinement mapping is the identity on the graph, the selection
and the status of each dimension.

### Synchronisation: runs

`proc[l]` is the worker of a lane. `Converge`, `StartRun`, `FinishRun`, `Requeue`, `EndJob`
are the awaits of one attempt; `Fetch`, `StalledCheck`, `Trim` are BullMQ's part
(concurrency 1, `maxStalledCount` 0, attempts, removal of ended jobs). A job has a UUID if
a tick added it and a number of its queue otherwise; a row of `sync_run` has the id and no
lane. The three recoveries are `Converge` (the next attempt), `OnJobFailed` (the `failed`
event) and `ReconcileList`/`ReconcileCheck` (at start and every hour). Faults are `Crash`,
`Hang` (the lock expires while the processor runs on), `EventLost`, and calls that throw.

### Broker events

The shim (`services/futu-shim`) is a process with an epoch, a sequence number and a ring
buffer; `Read` is its endpoint. The server's event heartbeat is `beat`: `Poll`, `Consume`
(rows are written, then the cursor moves), `StartFill` or `SkipFill`, `FillFetch`,
`FillWrite`. Each may fail: the poll, the batch (`ConsumeFails`), the query or the insert
of the gap fill (`DecideFails`), its fetch or write (`FillFails`), and the update that
records its outcome (`OutcomeUnsaved`). `Gap` and `NextCursor` are `decideCursor`, `MayFill` is `decideGapfill` with
the tally of today's rows, `Reclaim` the stuck-run rule of the minute heartbeat. `sync` is
any other fetch and write of the same rows. An order's row is its version and `Newer` the
conditional update.

`lost` is history. A push that was missed leads somewhere as long as it is `Unread`, the
cursor or a batch shows that its shim has ended (`RestartShows`), or a gap fill is `Owed`;
else it is `Untraced`. Five steps may take the last trace in the code, each under the
condition given to `LosesIf`, and what they leave untraced is added to `lost`:

- a push, or the end of the shim, while the server has no cursor and no batch: a first read
  is never a gap;
- `ConsumeFails` of the first batch when its shim has ended;
- `ServerCrash` when the server knows of a gap: cursor and decision are memory;
- `DecideFails` on a gap. The cursor has moved (line 191 of the scheduler) before the query
  (255) and the insert (274) of the fill; if one throws, it is logged, no row is left, and
  the next beat sees no gap.

Section 6 says what the specification of the feature and its comments say instead.

### Push dispatch

`FanOut` inserts a row per bound device, inside the trigger's transaction. A round reads
the due rows with their attempts (`StartRound`), then for each in turn looks the binding up
(`CheckBinding`), calls the gateway (`Send`, or `AnswerLost`: accepted, but the call
throws), records the outcome (`Mark`) and unregisters an invalid device. The new count is
computed from the count the round read. An overlapping round, a round that dies, a database
call that throws and a lost answer are the faults.

## 3. What is checked

| Run | Checks | Instance |
|---|---|---|
| `outbox` | no lost delivery, idempotence, order, no spurious effect | 2 rows of any type and payload, in and out of time order, 2 overlapping scans, batches of 2, symmetric |
| `queue` | exclusive claims, leases and beliefs agree, final outcomes, refinement of `WorkQueue`, every event settled | 2 events, 2 workers, leases of 2 ticks, 2 faults |
| `ideation` | exactly one event per round, a brief for every converged session, answers after questions, the status machine | 1 session, 3 requests of any kind, symmetric |
| `ideation_fixed_brief` | finds a statement of a comment violated (section 6) | 1 session, 2 requests |
| `mockups` | a mockup belongs to an event that was handed out | 1 event, 2 workers, 1 fault |
| `delivery` | the brief exists for the worker, one queue row per round, refinement of `WorkQueue` end to end, every finalised requirement settled | 1 session, 2 requests, 1 scan, 1 worker, 1 fault |
| `accounts` | one successor per token, no session of an anonymised account, account, outbox and codes agree, the grace period | 2 requests of any kind and the sweep, 1 phone, 2 accounts, 3 tokens, 2 codes, 3 ticks |
| `sync_ticks` | no fire claimed twice, none lost without a fault, every due dimension claimed | 3 dimensions (periods 1 and 2, one broken), 2 lanes, 2 overlapping ticks, 1 fault, 1 reset |
| `sync_flow` | the chain implements the dependency graph, refusals have a cause, every won dimension settles | every graph of 3 dimensions (each edge none, soft or hard), priorities 0 and 1, every selection |
| `sync_runs` | rows are closed, once, and by whom they should be; attempts of a round are bounded | 2 lanes, 2 dimensions, 2 jobs, 4 rows, 2 attempts, 1 fault |
| `broker` | every push is written, or its loss is known, or is one of `lost`; an order never goes back; every push that is not lost arrives | buffer of 2, 3 pushes, 2 starts of the shim, 4 attempts, 2 faults |
| `push` | gateway calls are bounded, ended rows stay, the ledger is true without faults, every delivery ends | 1 device, 2 rows, 2 rounds, 3 attempts, 2 faults |

The bounds. Sessions do not share rows, so one session shows every interleaving; each
hazard of a session is a race of two requests, and the third lets a reopening or a
delete be part of it. Two scans are the least that overlap, two rows the least that
have an order. Two workers are the least that compete for a claim; two events let a poll
skip a locked row. A lease of two ticks has a state between fresh and expired. In the
composition, two requests suffice for a race of two generates, of a generate and a
reopening, and of a generate and a delete; scans and workers overlap in the component
runs. Every race of the accounts is one of two requests, or of a request and the sweep; a
second account appears when an anonymised phone logs in again. Three dimensions are the
least in which a third comes between the two of a hard edge. One job of a row that is
interrupted and one with the same number in another lane are the two jobs of `sync_runs`.
Three pushes overflow a buffer of two. Two rows make a round go on after its first.

Bounds that the code does not have are `AttemptsCap`, `JobCap`, `MockupCap` (counters
saturate there; properties only compare them with 0 or 1), `MaxTime`, `MaxResets`, `MaxAccounts`,
`MaxTokens`, `MaxCodes`, `MaxEvents`, `MaxEpochs` and `MaxFaults`. Requests, rows and
clocks are used up, so most runs end: `CHECK_DEADLOCK FALSE` stands for that and for a
server that is idle. `broker` is checked for deadlocks.

### Fairness

- `delivery`: the cron fires and the scan goes on with its batch: weak fairness of
  `ScanStart` and of a scan's steps. A subscriber, or the update, that is tried again and
  again succeeds some time: strong fairness of `HandleBy` (one per subscriber) and
  `MarkPublished`. This is what the code's "retry in ten seconds" relies on: an outage ends.
- `queue`, `delivery`: time passes (`Tick`), a started poll statement ends (`PollCommit`),
  workers keep polling and a worker that is handed an event again and again finishes it
  some time: strong fairness of `PollSelect` and of `Ends` (it reports a result, or is
  refused). `attempts` is counted and never used, so nothing else ends the redelivery of
  an event no worker can finish.
- `sync_ticks`: weak fairness of `TickStart` (the cron) and of a tick's next step.
- `sync_flow`: weak fairness of the next step: BullMQ runs what may run.
- `sync_runs`: weak fairness of each worker's step, of the stalled check and of the
  reconciliation. The `failed` event is not fair: the rows are closed without it.
- `broker`: the shim is started again, the heartbeats go on (`EventBeat`, `Reclaim`);
  strong fairness of `Tick`, which is disabled while the shim is down. Failures and
  restarts are bounded by `MaxFaults`; a failure caused by the shim being away is free.
- `push`: weak fairness of the sweep (`StartRound`), of each round's step and of `Tick`.
  Nothing is assumed of the gateway, whose answer may always be "retry".
- Nothing is assumed of users and requests. Crashes of scans are unbounded in the
  outbox run; other faults are bounded by `MaxFaults`.

Every property of a passing run has a mutant of a modelled definition in the module
(named and commented there as a mutant) that violates it.

## 4. What is proved

For all values of the constants that satisfy the modules' `ASSUME`s (positive bounds, a
null value that is not a member, some session, `FreezeTicks >= 3`):

| Theorem | Property |
|---|---|
| `Publishing_proofs`: `OutboxInvariant`, `OutboxTypeCorrect`, `NothingIsLost`, `DeliveryIsIdempotent`, `RegistrationOrderIsKept`, `EffectsAreMeant` | `OutboxTypeOK`, `PublishedMeansHandled`, `KeyedOnce`, `ServedInOrder`, `NoSpuriousEffect` |
| `Publishing_proofs`: `SessionInvariant`, `SessionTypeCorrect`, `ExactlyOnceFinalisation`, `BriefIsThere`, `AnswersAreInOrder`, `StatusMachine`, `BriefOutlivesRound` | `IdeationTypeOK`, `FinalizedOncePerRound`, `ConvergedHasDraft`, `AnswerFollowsQuestion`, `StatusMovesLegally`, `BriefStays` |
| `AgentQueue_proofs`: `QueueInvariant`, `QueueTypeCorrect`, `PollsClaimExclusively`, `LeasesAreKept`, `OnlyLateAcksCollide`, `FirstResultWins`, `QueueImplementsWorkQueue` | `QueueTypeOK`, `ClaimsAreExclusive`, `BeliefWithinLease`, `LiveClaimExclusive`, `OutcomeIsFinal`, `ImplementsWorkQueue` |
| `AgentQueue_proofs`: `MockupsAreClaimed` | `MockupTypeOK`, `MockupHasClaim` |
| `RequirementDelivery_proofs`: `DeliveryInvariant`, `PartsAreKept`, `DeliveryTypeCorrect`, `WorkerFindsBrief`, `RowsAreRounds`, `NothingIsDropped`, `DeliveryImplementsWorkQueue` | the parts' specifications, `DeliveryTypeOK`, `BriefForWorker`, `OneRowPerRound`, `RelayedIsQueued`, `ImplementsWorkQueue` |
| `AccountSessions_proofs`: `LedgerInvariant`, `RotatedOnce`, `NoSessionOutlivesItsAccount`, `TheLedgerBalances`, `TheGraceIsHonoured` | `OneSuccessor`, `AnonymisedHasNoSession`, `LedgerBalances`, `GraceHonoured` |
| `Scheduling_proofs`: `TicksInvariant`, `TicksTypeCorrect`, `FiresAreClaimedOnce`, `ClaimsAreNotLost` | `TicksTypeOK`, `ClaimsDoNotOverlap`, `NothingLostWithoutFault` |
| `Scheduling_proofs`: `FlowInvariant`, `FlowTypeCorrect`, `RefusedOnlyForCause`, `FlowImplementsDimensionRuns` | `FlowTypeOK`, `RefusedForCause`, `ImplementsDimensionRuns` |
| `SyncRuns_proofs`: `SyncRunsInvariant`, `SyncRunsTypeCorrect`, `OutcomesStay`, `OnlyTwinsInterrupt`, `AttemptsInvariant`, `FiresAreBounded` | `SyncRunsTypeOK`, `ReportedOutcomeStays`, `InterruptedHasTwin`, `TickRowsBounded` |
| `BrokerEvents_proofs`: `BrokerInvariant`, `BrokerTypeCorrect`, `NothingIsForgotten`, `OrderOnlyAdvances` | `BrokerTypeOK`, `NothingForgotten`, `OrderNeverGoesBack` |
| `PushDispatch_proofs`: `PushInvariant`, `CallsAreBounded`, `EndedDeliveriesStay`, `LedgerIsKept` | `SendsBounded`, `EndedStays`, `LedgerIsTrue` |

The arguments:

- **Outbox.** "Published means handled" is not inductive: a scan in the middle of a row must
  be known to have handled every subscriber before its position (`ScanProgress`), a row's
  type must not change while it is in a batch (`BatchExists`: only absent rows are written),
  and creation times must tell rows apart (`RowsOrdered`), so that the position belongs to
  one row. Effects never decrease, so what one scan has done another cannot undo.
- **Agent queue.** The lock of a poll keeps its row claimable (`ClaimsAreExclusive`), so a
  locked row is expired or pending (`LockedIsExpired`), and so nobody who holds it has lease
  left; that is why a new claim never meets a live one. `UnclaimedHasNoLease` covers
  rows that were never claimed. The refinement needs `HandedOutIffClaimed`: `attempts` is
  positive exactly for rows that are or were claimed. Each step of the queue then is
  `Enter`, `HandOut`, `Settle` or a stutter.
- **Ideation.** `EveryRound` says which rounds have an event, `PublishedInThePast` that a
  request publishes only at its end and for a round its session has reached; the conditional
  update is the only step that ends a round's being open. For the turns,
  `StreamHasQuestion`: a session that is not deleted keeps the user turn of every clarify
  request that has asked, as deletes remove rows only together with the session.
- **Mockups.** The invariants of the queue hold for any steps of it, so they carry over; its
  step shapes show that an event that was handed out stays so (`HandedOutStays`).
- **Composition.** The proofs of the parts are instantiated, not repeated. A step of the
  composition is, for each part, one of its steps or none (`PartsAreKept`), so the parts'
  invariants hold in it. `Linked` says how their states go together: a request has published
  exactly if its outbox row is there (one transaction), and a queue row is there exactly if
  the subscriber's effect is counted. A row in the queue therefore has a round, and rounds
  of a session have at most one event each. The brief is there because of `BriefStays`: a
  generate writes it in the transaction that publishes, later ones only replace it, and only
  the delete of the session removes it. For the refinement, `Finalize` is `Enter`, the
  queue's `HandOut` and `Settle` are those of the composition, and everything else stutters.
- **Accounts.** Freezing may leave a session behind, yet none survives anonymisation, and
  the reason is time. A request that will write a token has looked at the account while it
  was active and is at most a tick old (`InTime`); if the account froze meanwhile, its grace
  ends at least two ticks after that look (`Early`, `SeenActive`). So the request is gone
  when the sweep may take the account, and while the sweep's transaction is open nothing
  adds to its snapshot (`SweepHolds`, `FreezesHold`). This is where `FreezeTicks >= 3` is
  used, and an unbounded request would break it. For the ledger, each code is used in the
  step that counts an event, and a code once used stays so.
- **Ticks.** `ScheduleAhead`: the `nextFireAt` of a dimension lies after the clock of every
  claim of it, because a claim sets it strictly after its own clock. A tick that read an
  older value fails its conditional update (`RowsDue`, `RowsUnset` say what the rows in hand
  may be), so a new claim begins where the last ended.
- **Flows.** The order is a recursive function, so what it is for every graph takes an
  induction. The library's induction theorems cannot be used here, but its theorem that a
  set of naturals has a least element can (`LeastIs`): the least index at which a recursion
  fails to exist, or leaves the set it should stay in, is neither 0 nor a successor
  (`Iterates`, `StaysIn`). By it every beginning of the order has each dimension once and
  after its upstreams (`OrderPrefix`, `ExecutionOrderIs`): as the graph has no cycle, some
  dimension is ready while one is left (`OneMore`), and the pick is one that the fewest
  precede (`PickIsReady`). The chain keeps the won part of the order (`KeptOf`), so its edges
  point forward, and an inexpressible one has a hard edge that spans a won dimension:
  that is `RefusedForCause`. For the refinement, jobs leave the queue one after another
  (`InTurn`), so all upstreams of a job that starts have ended, and a hard upstream is its
  child, whose failure would have dropped it.
- **Runs.** `AtWork`: a worker has a job of its own lane that has not failed; `OnItsRow`: its
  row bears that job's id and dimension. Within a lane no two jobs share an id (`IdsGiven`,
  `IdsOfLane`), so a recovery that finds the row of a living worker was called for a job of
  another lane. Only rows that are `running` are ever rewritten by a recovery, and a worker
  closes its row once. For the number of rows of a fire, `AttemptRows` counts the rows of a
  job together with the attempts it has left: `RetryMax`, and one more from the moment the
  present attempt has its row. This needs `OneAttempt`: a job at work is active or waits only
  to be failed (deferred), so the queue never hands it out a second time. The set of rows a
  fire counts is that of one job (`RowsSayTrigger`, `FiresOfTicks`).
- **Broker.** The proof follows one push (`KeptEvent`). While its shim runs it is unread,
  beyond the cursor, and the next batch holds it or has lost it and says so (`BufferOK`,
  `BatchReads`, lemma `ReadFacts`). When the shim ends, the cursor or the batch of its epoch
  is the trace (`RestartShows`); epochs grow, so it stays until a poll compares them, and a
  failing write keeps it because the cursor is never ahead of the batch. A loss that was
  noticed is owed (`Owed`): the tally stays open until a day that has the push is written, and
  a fill between its fetch and its write is running or open (`FillOK`). Where a step may take the
  last trace, what it leaves without one is in `lost` (`LossFacts`); the proof shows that no
  other step, and none of these outside its condition, forgets a push.
- **Push.** The calls made are counted together with the calls that may still be made: the
  attempts left on the row and one for each round that has it before it (`Senders`,
  `Accounted`). An overlap adds one and costs a fault. Without faults there is one round, and
  it knows the count and status of each row it has not yet taken (`InStep`: `OneRound`,
  `Knows`, `Fresh`, `Called`, `Settled`), so table and gateway agree.

## 5. What is only model-checked

- Liveness (`EventuallySettled`, `FinalizedIsSettled`, `EveryDueIsClaimed`,
  `EveryWonDimensionSettles`, `EveryRowCloses`, `EveryEventArrives`, `EveryDeliveryEnds`):
  temporal reasoning under fairness and `ENABLED` are beyond the installed provers.

Every safety invariant and every action property that a passing run checks is proved as well.

Type invariants are proved for the modules that have a proof module and are not repeated
in runs. `EventuallyPublished` (every committed event is published) is defined in `Outbox`;
the run `delivery` checks liveness of the relay as part of `FinalizedIsSettled`.

## 6. Where code and comments disagree

One disagreement is a run: `generate-brief.usecase.ts` upserts the brief before, and
regardless of, its conditional update, so of two racing generates the loser replaces the
brief of a converged session (`ideation_fixed_brief`).

The others are stated as definitions that fail. Each is reproduced by one more
`INVARIANT` or `PROPERTY` line in the configuration named:

| Statement | Configuration | What happens |
|---|---|---|
| `NoOrphans` | `MCIdeationSession` | a generate, or an assistant's turn, that follows a delete leaves a brief or a turn without session |
| `ImageOnOwnTurn` | `MCIdeationSession` | `clarify-turn.usecase.ts` takes the last user message of the history for the turn it has just inserted; a concurrent clarify's turn may be last |
| `ExportHandsOff` | `MCIdeationSession` | `export-brief.usecase.ts` answers `handed-off` even if its update matched nothing, as for a session that was reopened |
| `ReportWithinLease` | `MCMockupReporting` | `claimed-event-ownership.ts` says that an expired claim does not count; the query looks at the status only |
| `ConvergesOnlyTheDead` | `MCSyncRuns` | `sync-run.recorder.ts` closes rows by job id alone; numbered jobs of two lanes can share it, and the row of a living attempt is closed as interrupted (it is put right when that attempt ends) |
| `RestartsAreNoticed` | `MCBrokerEvents` | a first poll is never a gap, so pushes lost in a restart of the shim while the server has no cursor stay unnoticed until a reconciliation |
| `NoticedGapIsFilled` | `MCBrokerEvents` | FR-009 (`src/specs/084-optionsdesk-broker-push-sync/spec.md` line 137) demands a gap fill at once when a gap is noticed, and user story 2 that nothing is lost for good; `broker-account.scheduler.ts` stores the cursor (191) before the query (255) and insert (274) of the gap fill, so that one failing call drops the gap: no row, nothing to retry, no new gap. The next reconciliation makes up for it |

Not a definition: `anchor-cold-start.subscriber.ts` line 29 says that a subscriber that throws
on a poison payload blocks every event behind it. The scan isolates rows, so the row is
retried for ever but later rows are published; only as many such rows as a batch holds
(100) would block the rest.

## 7. Plan

Done: the requirement pipeline (Outbox, AgentQueue, IdeationSession, MockupReporting,
RequirementDelivery), accounts and sessions, the three stages of the synchronisation,
broker events, push dispatch, and the proofs of section 4.

What would come next, in this order:

1. The rest of the account: WeChat login and binding (one account per identity and the
   reverse), the failure lock in Redis, the client's single-flight refresh against rotation.
2. The vendors' rate limiter (a budget over a sliding window shared by processes), the
   cold-start jobs of a new anchor, the re-check of legs under a budget per tick.
3. Market preferences and report versions: one use case each.

### Not modelled

- Arithmetic without shared state: prices, indicators, strategies, profit and loss, the
  recall and selection rules of legs, the merging of earnings dates. These are the largest
  files of the server; they are functions of their inputs and have tests of their own.
- What a dimension fetches and writes, and the vendors' clients: I/O.
- The streaming micro-loop of clarify and chat (no writes), HTTP validation and formatting,
  access tokens, rate limits.
- `portfolio` and `research`: one use case with one race each, listed as hazards.
- The mobile user interface, the side services other than the shim's buffer, generated
  code, deployment scripts.

The server has some 170 000 lines, most of them in the first group, the user interface and
generated code; the modules cover the orchestration, where steps of several actors meet.
