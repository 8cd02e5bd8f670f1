# A TLA+ model of Jarvis Edge AI

Jarvis Edge AI watches cameras, keeps a memory of the entities it has seen and
of the zones they were in, evaluates alert rules over that memory, streams the
resulting timeline to consoles and calls webhooks.  This directory models the
parts of it in which several actors change shared state (transactions of
several threads, queues with limits, locks that expire, processes that die) and
the algorithms they rest on: matching, projection, paging, configuration.

Source paths below are relative to the repository; the Python packages are in
`src/`, the console in `console/js/`.

## 1. Inventory

Two processes share one PostgreSQL database.

* The **vision process** (`src/jarvis_vision.py`, `src/jarvis_ai.py`) reads
  frames, detects and tracks objects, and publishes events on an in-process
  bus.  Its worker threads turn the events into rows (entities, observations,
  snapshots and zone sessions) and register a `pg_notify` in the same
  transaction.  There may be one such process per camera.
* The **API process** (`src/api/app.py`) runs on one asyncio loop and a pool of
  threads.  Its lifespan starts, in this order, the activity listener, the
  alert consumer, the due reconciler, the notification worker and the retention
  worker, and stops them in the reverse order, the listener last.  It serves
  REST, the WebSocket stream and the console.

An object seen by a camera becomes, in turn: an object event on the bus; a row
and a zone session, with a notification on commit; a timeline event that the
listener looks up and hands to the stream and to the alert consumer; an
evaluation of the rules; an alert, with deliveries in the same transaction; and
a webhook request.

| Component | State it keeps | Operations | What is hard | What makes it correct |
|---|---|---|---|---|
| Object memory, event bus (`services/memory_service.py`, `core/event_bus.py`) | tracked objects, next id, handlers | frame, stop, subscribe, publish | matching of detections to tracks, expiry after missed frames | a track is announced, updated and ended in that order |
| Identity history (`services/identity_history_service.py`) | history by identity | entered, updated, exited | events without their predecessor | frames are counted once |
| Entity memory (`services/entity_memory_service.py`) | unbounded queue, worker, entities, observations, snapshots | start, stop, handle, entered, updated, exited | transactions that roll back after memory changed; restarts; events of tracks whose entry was lost | an object on camera has one active entity |
| Zone membership (`services/spatial_service.py`) | phase of every (entity, zone), open sessions | observation inside and outside, confirm, force close, reconcile | hysteresis; memory and database that disagree after a rollback or restart | events alternate and match sessions; transitions are confirmed |
| Timeline (`timeline/`, `services/timeline_service.py`) | none; reads all tables | list, get, cursor | keyset pages while rows commit out of order | merge in order, no event twice |
| Activity notification (`storage/activity_notify.py`, `services/activity_listener.py`) | throttle times, LISTEN connection | notify on commit, resolve, reconnect | notifications lost while disconnected | a committed event is announced once |
| Activity stream (`services/activity_stream.py`, `api/activity_ws.py`) | clients, bounded queues, subscriptions | register, publish, enqueue, drop, close, heartbeat | slow consumers; what may be dropped; closing while the sender waits | only observations are dropped; order is kept; one client does not delay another |
| Alert evaluation (`services/alerts/evaluation_service.py`, `evaluators.py`, `due_reconciler.py`) | rules, evaluator states, alerts | evaluate an event, fire due states, acknowledge, resolve, update rule | two threads, several transactions per decision | one open alert per subject, one per cause, a cooldown apart, resolved when the condition clears |
| Alert consumer (`services/alerts/consumer.py`) | bounded queue, checkpoint | submit, catch up, process, checkpoint | crash between evaluation and checkpoint; full queue; gap between catch-up and live | every event evaluated or its loss explained |
| Notification outbox (`services/notifications/`, `storage/notification_repositories.py`) | targets, deliveries, locks, worker tasks | enqueue, claim, send, record, recover, manual retry | at-least-once, expiring locks, exceptions in a batch, shutdown | what a row says happened; everything settles; attempts are bounded |
| Retention (`services/ops/retention_*.py`, `storage/retention_repository.py`) | cycle lock, cooldown, dry-run flag | scheduled cycle, manual run | deletes rows that other components write; cycles share one flag | nothing live is deleted but by cascade; a dry run deletes nothing; old rows go |
| Console (`console/js/`) | store, last processed event, live buffer, cursor | load, live event, reconnect, recover, older page | every request is an await; deduplication and recovery with overlapping windows | a live page misses nothing but for known gaps; a recovery ends |
| Configuration (`config/loader.py`) | none | load: defaults, file, environment, rules | precedence in nested sections; rules written apart from the code they protect | the last layer wins; what is accepted can be used |
| API process (`api/app.py`) | services, pool of threads | wire, start, await, serve, stop | time limits at the start; threads that outlive their task | no gap between catch-up and LISTEN; a stopped service starts nothing; start and end come |
| Vision front end (`jarvis_ai.py`, `detector.py`) | which services run | start, frame, interrupt, stop | leaving half way, on every path | listeners are there before the tracker and after it |
| The rest: vision persistence, zone geometry, queries and CRUD, HTTP routes, rule validation, payloads and addresses, status and metrics, schema | little or none | one request or one pass at a time | arithmetic and formatting | unit tests reach it |

Every one is listed in `PROJECT.json` with what is modelled of it or why it is
not; the hazards are listed there at their lines.

## 2. Plan

| # | Modules | State |
|---|---|---|
| 1 | `NotificationOutbox`, its abstract specification `DeliveryContract`, `NotificationOutboxProofs` | done |
| 2 | `AlertEvaluation`, `AlertEvaluationProofs` | done |
| 3 | `AlertConsumer`, `AlertConsumerProofs` | done |
| 4 | `ActivityStream`, proved about in `ApiProcessProofs` | done |
| 5 | `ZoneMembership`, `EntityMemory` (extends it), `EntityMemoryProofs` | done |
| 6 | `Retention`, `RetentionProofs` | done |
| 7 | `ObjectMemory` with the histories of identities, its abstract specification `TrackLifecycle`, `ObjectMemoryProofs` | done |
| 8 | `TimelinePages`, `Timeline` and `Console` over it, `TimelineProofs` | done |
| 9 | `Configuration`, `ApiProcess` which extends it, `ApiProcessProofs` | done |

Two proof modules cover more than one component: `TimelineProofs` the timeline
and the console, which share the lemmas on pages, and `ApiProcessProofs` the
configuration, the API process and the activity stream that it serves.  So that
one module can extend both, the specifications of the stream and of the console
are called `StreamSpec` and `ConsoleSpec`.

Abstract specifications: `DeliveryContract` (what the outbox promises of a
delivery) and `TrackLifecycle` (what the tracker promises its listeners).  The
others are stated as properties over history variables, which say what a reader
of the component's output has seen.

## 3. Modules

### NotificationOutbox, DeliveryContract

A delivery is a pair of an alert state change and a target, its idempotency
key.  `row` is its row in `notification_deliveries`, `logged` the number of
rows it has in `notification_delivery_attempts`.  One action is one committed
transaction or one step of a thread outside any: `Enqueue` and `ToggleTarget`
are requests; `BeginManualRetry` and `ManualRetry` are the SELECT and the UPDATE
of `schedule_manual_retry`, between which any claim or record may commit, since
the SELECT locks nothing, and the UPDATE sets the status and the due time but
not the lock; `RecoverStaleLocks`, `ClaimDue` and `GatherDone` are the loop of
`NotificationDeliveryWorker`; `StartJob`, `Send` and `Record` are
`_process_delivery` in a thread.  `gen` numbers the semaphores: an exception
ends a gather, and the jobs that are left keep the old semaphore while the next
cycle has its own.  `Stop` cancels the loop and what its gather still has
waiting, but neither threads nor the jobs of a gather that an exception ended:
those that wait live until `LoopEnds`.  `Crash` ends everything.  Time is a lock
that is held or stale and a row that is due or not.  `retrying` says how many
retries have read the row of a delivery, and of how many a claim came in
between.  `claims`, `acked`, `manual` and `excuses` are history; an excuse is a
lock that expired ("expired") or such an overtaken retry that was written over
a claimed or delivered row ("overwritten").

`DeliveryContract` knows three things of a delivery: that it was asked for,
that a receiver answered, and what the outbox says.  `ImplementsContract` maps
the rows to it.

### AlertEvaluation

One zone, a set of rules of the three kinds, a set of entities; a subject is a
pair of both.  The consumer thread works in three steps: `Evaluate` (the rules
are read and actions computed), `ApplyActions` (one transaction for all
actions of the event) and `Checkpoint`.  The reconciler works through a batch:
`ListDue`, then for each state `ReadRule`, `CheckCondition` and either
`FireDue` or `ClearState`, every one in a transaction of its own, with the
clock read at the start of the pass.  `MayTrigger` is the chain of checks in
`_apply_action`: cooldown, idempotency key, open alert.  The environment moves
entities, toggles rules, opens and closes windows, resolves alerts, loses events
and crashes.  An acknowledgement is two steps, the reading of an open alert
(`acknowledging`) and the writing of its status, whatever it is by then: a
resolved alert becomes unresolved again, unless the unique index on unresolved
alerts refuses it.  `excuses` is history: why a subject's events may not
have had their effect.

### AlertConsumer

An event is its position in the order of the timeline, (occurred_at, id); `log`
is the order of commit, which differs by at most `Lag` positions.  `wire` holds
the notifications that PostgreSQL has sent and the listener has not handled,
`queue` is the `asyncio.Queue`, and the page of a catch-up the set of its events
that are not taken yet, the first of which is the smallest.  `StartProcess` and
`StartConsumer` are the lifespan; `AskFirstProvider` and `ReadPage` read a page
in the two transactions of its providers, with commits in between, of which the
first provider does not see its own (`unseen`); `EndCatchUp`, `Take`, `Evaluate`
and `SaveCheckpoint` are the rest of the consumer task, and `current` is the
event in `_process_and_checkpoint`.  `CatchUpFails` is an exception of the
checkpoint's reading or saving, of a page or of an evaluation, after which the
catch-up is over; `ProcessingFails` is one of the live loop, which goes on.
`Stop` cancels the task and empties the queue, but the thread of a catch-up
("finishing") or of an evaluation ("closing") runs on until `ProcessEnds`;
`Crash` ends everything at once.  `done` is history, and so is `excuses`, which
records every way the code has of leaving an event behind.

### ActivityStream

The broker and, of every connection, the handler that receives, the sender and
the heartbeat.  They share one event loop, so an action is what runs between
two awaits: `Publish` enqueues for all clients, and `Sent` runs from the end of
a send to the next send or wait.  `Enqueued` is `_enqueue` with the drain and
refill of the queue.  A message is its kind and number.
`OnlyObservationsDropped` is stated over the line of a client, that is what has
arrived, what is being sent and what waits: it is the numbers that were
published to it, in their order, less some observations.

### ZoneMembership, EntityMemory

`ZoneMembership` is `SpatialService` for one entity in one zone, as operators:
what an observation counts in memory, then what it settles in the database.
`EntityMemory` adds the object events of the vision process, the queue, and the
worker, whose every transaction is one action with all its zones: `Observe`
(entry or update), `CloseEntity` (exit) and `RecordLate`, each after the
reconciliation of stale sessions.  `list_stale_open` asks for no camera, so
`ReconcileElsewhere` is the same reconciliation in the vision process of another
camera, which closes sessions this process remembers.  `RollBack` leaves the database as it was and
the memory at any of the points where the transaction can fail: before the
service, between two stale sessions, in a zone, at the commit.  `Restart` ends
the process and starts the next, which numbers its tracks from one again.
`balance` and `reported` are what the events that went out say, `streak` the
last answer that was given and how often in a row; they are history.

### Retention

A row is a row of any domain with the row it refers to; it is live or dead (a
closed entity, a resolved alert, a finished delivery), and since when.  A cycle
is `run_cycle_sync` in a thread, for the loop or a manual request: `Begin` to
`End` with `Fetch`, for entities `Check`, and `DeleteBatch`, one transaction
each, and `Fail` at any.  All cycles share `dry_run`, which a manual one
overwrites, and `lock`, which `Stop` gives up while the thread goes on.
`Insert`, `Settle` and `Revive` are the other components, each mapped to the
code that writes the row: entities and sessions that open and close, alerts that
are raised and resolved with their deliveries, states that are cleared and
pending again, deliveries that are retried, and an alert that is resolved and
then overwritten by an acknowledgement that had read it before.  What they write
between two transactions of a cycle is `changed`, which is history.

### ObjectMemory, TrackLifecycle

`main` and `MemoryService` in one thread: `ProcessFrame`, then `HandleFrame`
step by step as the code publishes (`MatchBest` is one round of the greedy
matching, with exact rationals for the overlap; `ExpireOldest`; `EnterNext`),
each event going to the services subscribed at that point.  `Fail` and
`interrupted` are exceptions at the start and a KeyboardInterrupt between two
events.  `TrackLifecycle` is what a listener may rely on: a track is entered,
then updated, then exits, once.  `Lives` maps the histories to it.

### TimelinePages, Timeline

`TimelinePages` has the order of events, the cursor condition and the cut of a
page, which the server and the console share.  `Timeline` has one operator per
SELECT of the three providers, `ListTimeline` with its refusals, `AskProvider`
for each provider in a transaction of its own, and `ReturnPage` with the merge
(`Heads`, `Best` and `TakeBest` are one round of the heap).
The lookups by id are written apart, as in the code.  Rows open, close and are
pruned at any point.

### Console

The activity page: `LoadInitialHistory` with `ServeHistory`, `TakeHistory` and
`FailHistory` of each call, `Connect`, `FirstReady`, `RunRecovery`, its pages and
its end or failure, `OnEvent` with the buffer, `LoadOlder`.  A request and its
reply are two actions with anything between them, other calls of
`loadInitialHistory` included, which nothing in `main.js` holds back: `history`
has a place for each of `MaxLoads`, and replies are taken in any order.  `reach` and `excused` are history: how far back the pages go that were
loaded, and which events are missing for a reason that section 8 names.

### Configuration, ApiProcess

`Configuration` is `load_app_config` in three steps, over a table of all
settings with type, default and limits: `ReadFile` (the one file that counts,
merged), `ReadEnvironment` (parsed by type) and `Validate`.  A value is a pair
of its Python type and number, NaN and infinity included.  What the running
services demand of a configuration is a definition for each demand
(`DefaultPagesServed` to `ServerLogs`), taken from the services and not from
`_validate`; `Unmet` names those that the values do not meet.  `ApiProcess` goes
on with the accepted configuration: `Wire`, which fails if uvicorn does not know
the log level, the lifespan (`StartNext`, `Await` with its time limit, `Serve`,
`StopNext`, `Dispose`, `LoopEnds`, `End`), and the tasks, which hand jobs to one
pool of threads (`AskForThread`, `BeginJob`, `EndJob`).  `GatherFails` is a
delivery that raises: its siblings become jobs of nobody (`Sibling`), which hold
their thread, wait in the queue of the pool, or ask for a thread when their
semaphore admits them (`SiblingAsks`), also after the worker was stopped; only
`LoopEnds` cancels them.  A job that is cancelled before a thread has taken it
stays in the queue as `Cancelled`, and the thread that comes to it drops it.

## 4. Runs

Runs that pass:

| Run | Question | Bounds |
|---|---|---|
| `outbox` | safety of the rows, settling and the contract with two workers racing on a delivery whose lock may expire | 2 workers, 1 delivery, 2 attempts, one each of fault, exception and manual retry (in two steps) |
| `alerts_triggers` | alerts that are doubled, with replay after a crash, manual resolve and late acknowledgement | an event rule and an occupancy rule, 2 entities, 4 moves, one each of fault and manual action |
| `alerts_dwell` | is the open alert of an entity that left always explained, does the first dwell fire, with both threads at work | a dwell rule, 4 moves, one each of fault, toggle and manual action |
| `consumer_restart` | what becomes of every event through crashes, stops, lost connections and failures | 3 events of which any may be one position late, queue of 2, pages of 1, catch-up of 2, 2 faults |
| `stream_overflow` | what is dropped, in what order events arrive, does a client that does not read delay another | 2 clients, queues of 2, 3 events, heartbeat, subscription change, shutdown |
| `presence` | do events, sessions, entities and memory stay consistent | 2 tracks, 1 zone, 6 object events, confirmations of 2, 1 rollback, 1 restart, stale passes of another process at any time |
| `retention` | what do cycles delete, and do they delete it in the end | an entity, its alert with a delivery and an evaluator state; the loop and two manual requests, batches of 1, 4 changes, 1 failure |
| `tracking` | are objects matched well and do the histories follow the tracks | 3 frames of up to 2 detections, 2 labels, overlapping boxes with ties |
| `timeline` | are pages and scans right while rows change, does an id find its event | 4 rows that yield 9 events, 7 requests in both orders with pages of 1 to 3 |
| `console` | what does a page that shows "live" miss | 3 events, store of 2, pages of 1, 2 pages of a recovery, 2 loads of the history at a time, 3 disturbances |
| `api_process` | is every accepted configuration right and usable; does the process start and end | every setting at and beyond its limits in the file, in the environment, and in both with another of its section; a pool of 2 threads with a queue of 3 for 5 services, a worker of 2 jobs, 1 delivery that outlives its gather |

One run ends in a counterexample, for a sentence of the repository that the
code does not keep: `alerts_second_dwell` (section 8).  The other disagreements
that were found appear in the models as excuses in the properties, and section
8 tells them.

Why the bounds are enough.  Locks, claims and counters belong to one delivery
and batches only put several of them into one transaction, so one delivery with
two workers shows every race on a row; the safety properties are proved for any
number.  The alerts of two subjects meet only in the batch of the reconciler
and in the occupancy of the zone, for which there are two entities.  Only a rule
with a duration gives the reconciler work, so the two threads meet in
`alerts_dwell`; `alerts_triggers` is the consumer against replay and operators,
and `AlertEvaluationProofs` has both for all rules.  The consumer has with three
events one that is late, one that a cursor or checkpoint passes and one that it
is evaluating; a catch-up of two with pages of one reads a second page with the
rest of its limit and ends at the limit.  Overflow of a queue of two needs three events, and the client that
does not read has its queue full with the other's messages under way.  Zones
are independent except for the point where a rollback strikes between two of
them, and one zone has both sides of that point; six events are an entry with
its confirmation, an exit with its confirmation and two to spare for a second
track.  In `presence` the queue holds one event; what the order of several
events in the queue means for entities is proved.  In `retention` the chain
from entity over alert to delivery is the longest the schema has, and a batch
of one ends full as well as empty; its safety is proved for any rows.  In
`tracking` two detections against two tracks give every pattern of preference,
ties included, and a track of one frame's patience can be matched, missed once
and expire in three.  In `timeline` every kind of row is there once, events
share their time, and pages end inside, between and at the end of the ties.  In
`console` the third event is so late that the window of a recovery no longer
reaches the first; three disturbances are a disconnect, a failure and a reload,
and two loads are enough for an older reply to be taken last.  In `api_process`
one delivery that outlives its gather meets each stage of a stop: it holds a
thread, waits in the queue or has not asked yet; the rules relate two settings of one section at most, so that
the file and the environment vary one each.  Queues of two suffice elsewhere,
since every limit is then met with something in front.

`CHECK_DEADLOCK FALSE` stands where the system may rest: when moves, events,
frames or connections are used up by their bound, or the process has ended.
The outbox polls for ever and the client of the timeline may always begin
another scan; these are checked for deadlock.

Every property has a mutant: a plausible slip in one definition (a dropped
guard, a missing reset, a swapped order) under which its run fails.  The
mutated operators stand in front of what they mutate.

## 5. Fairness

Assumed of loops that the code runs without end and of threads the scheduler
does not starve; never of operators, faults, senders of events or clients.

* Outbox: the loop polls again after every error, and a process that ended is
  started again; the event loop of a worker that was stopped ends; a request
  ends by its timeout; back-off and locks run out.
* Alerts: the clock, and the `while` loops of consumer and reconciler, which
  catch every exception.
* Consumer: the listener reconnects for ever, the consumer's task and threads
  run, a process that was stopped ends and is started again.
* Stream: the event loop runs what is ready; only `Readers` take what is sent
  to them and answer a close.
* Retention: the loop wakes while it is not stopped, gets the lock it waits for
  (an `asyncio.Lock` serves in order, hence strong fairness), and a cycle that
  has begun goes on.  Nothing is assumed of manual requests.
* Console: a request of a recovery is answered, or fails, and its reply handled
  (the browser's `fetch` ends); nothing is assumed of the connection.
* API process: loading and the lifespan go on, a thread takes the next job and
  ends it (a transaction, a webhook with its time limit, a catch-up or cycle
  with its limits).  Nothing is assumed of LISTEN, for which `wait_until_ready`
  has a time limit, nor of the signal.

Entity memory and object memory have no liveness property: what they do depends
on frames, whose arrival nothing guarantees.

## 6. Proofs

All are proved for every value of the constants that the named assumptions
admit (`OutboxAssumption`, `RulesAssumption` and `BoundsAssumption`,
`ConsumerAssumption`, `StreamAssumption`, `ConfirmAssumption`,
`DetectionsAssumption` and `MemoryAssumption`, `RetentionAssumption`,
`TimelineAssumption`, `ConsoleAssumption`, `InputsAssumption` and
`ApiProcessAssumption`).

**NotificationOutboxProofs.**  The invariant has four parts beside the types.
`LockInv` says that a row that is processing is locked and that, until its
delivery has an excuse, a job is the one of the latest claim: this gives
`OneJobPerLock`, for `Stop` and abandoned gathers leave jobs but never a second
claim.  Its part `RetrySees` is what a manual retry may rely on: until a claim
overtakes it, the row it has read still waits or was given up, so that without
an excuse its UPDATE meets neither a claimed nor a delivered row.  `BudgetInv`
and `HistoryInv` carry the counter through the job's stale copy: a copy is below
the budget, less one for each retry that has not been written (`Waiting`), never
ahead of the log, and equal to it until there is an excuse.  `OnceInv` says that after an answer the delivery is delivered
or held by the job that saw it.  `OutboxImplementsContract` maps every step to
a step of `DeliveryContract` or a stutter, with `AnswerInv` (success has been
answered) and `WantedInv` (jobs work on rows that exist).

**AlertEvaluationProofs.**  `HistoryInv`: in the list of a subject's alerts at
most one is unresolved, no two keys are equal, and times are a cooldown apart.
The lemmas about `GoodHistory` show that it survives `Triggered`, `Resolved`
and a change of status; the argument does not depend on what the
two threads interleave, only on `MayTrigger` being asked in the transaction
that inserts.  `DwellResolvedHolds` needs two more parts.  `KindsInv`: no event
raises a dwell alert, only the reconciler does.  `ExitInv`: as long as a subject
has no excuse, an alert that is unresolved, or about to be fired, of an entity that
left has an exit in the inbox that is still to be applied.  An acknowledgement
that is written over a resolved alert is such an excuse.  The firing that is
under way has to be counted with the open alerts, for it is what an exit that is
applied in between cannot resolve.

**AlertConsumerProofs.**  `CheckpointCorrect`: an event that is marked as
evaluated is in `done`, and only such an event is saved.
`FirstEvaluationsInOrderHolds` says of two events that commit in their order
that the second is first evaluated after the first, or the first has an excuse,
such as having committed between the two transactions of a page.
`Known` bounds what is under way by what has committed, `Lines` says that page,
wire and queue hold what they hold in order and apart from each other, and
`OrderInv` that an event without an excuse that is not done is still in front of every
later one: in hand, ahead of the cursor or notified.  A catch-up that runs on
after a stop has no notifications, so that it only must not pass the event.  The page is a set for this proof:
which events it has is a condition on how many others precede them, and the
lemmas `LeastOf` and `FirstAreAll` say what its smallest ones are.

**EntityMemoryProofs.**  `ObjectHasEntity` needs the order of the queue:
`QueueInv` says that the events of a track begin with its entry, unless that
has been handled, and that nothing follows its exit; `SeenInv` that a track
which can still publish has been entered.  Without them an update could find no
entity, or a closed one, of a track on camera.  `ClosedEntityLeftHolds` needs
`OneActive` to know that a row that is reused is active.
`CountsInv` says that a confirmation counted in memory is backed by as many
equal answers in a row (`streak`), whatever rolled back, since a rollback leaves
the memory somewhere between the old and the new and both are backed.
`TransitionsConfirmedHolds` follows.  For `EventsMatchSessionsHold` and
`CommitKeepsAgreementHolds` the lemmas `SettledPair` and `ObservedPair` follow
one pair through a transaction, from the stale session that is closed first to
the event it ends with, and `Announced` adds up the pairs of a zone.  The
reconciliation of another process changes the table and its events alike, so the
first property holds of it too; the second has it as its one exception, a
session that was open and is closed while this process' memory stays.

**ObjectMemoryProofs.**  `StableMatchingHolds` keeps, from one round of the
greedy matching to the next, that a candidate that is no longer open was left
for one of its sides that overlaps at least as much (`Matching`).
`HistoriesOfTracksHold` keeps track and history in step at every event
(`InStep`) as long as all services hear them (`Subscribed`) and numbers are not
given twice (`Numbered`).  `TrackLivesHold` is the refinement: every step of the
tracker is a step of `TrackLifecycle` or a stutter, an update or exit because
the track is in step with its history, an entry because its number is new, and
the numbers suffice because a frame gives one to each detection at most.

**RetentionProofs.**  `Inv` has five parts beside the types.  `LockInv`: one
cycle runs at a time, the one that holds the lock, or, after `Stop` has given
the lock up, the loop's last one beside which none begins.  Hence `FlagInv`:
what a cycle found is the configured flag and what it set is in force while it
deletes, which is `DryRunDeletesNothing`.  `RowInv`: the foreign keys hold.
`BatchInv`: the ids of a batch are rows of its domain that were dead before the
cut-off, unless they have changed since; `SafeInv`: a live row below an entity
that was found safe came after the look.  `KeptForItsDaysHolds` and
`LiveRowsGoOnlyByCascadeHolds` follow step by step from these two, since only
`DeleteBatch` removes rows and the delete repeats the condition of each domain
but for entities, which are looked at again instead.

**TimelineProofs: pages.**  All that a page rests on is that a request's order
is strict and total (`IdentifiedOrdered`: of events that an id tells apart).
`Rank` counts the events in front of one, so the first of a set are those of
small rank (`FirstOfIs`), every rank up to the size is taken (`RankOnto`), and
a page holds the first of what is selected, in order (`PageIs`, `PageHolds`).
The merge is a recursive function, but it is never unrolled: `Run` is any
sequence of streams of which each follows from the one before, `RunExists` and
`MergeIsRun` say that the merge is one, and `MergeStep` that after k rounds the
streams have lost just the k events that rank lowest among what they returned.
`MergeIsFirstOf` follows by the least round that would break this.

**TimelineProofs: the timeline.**  `TimelineFoundById` needs no step: in every
state `ListedIs` says which rows yield an event in a list and `GetEventIs` which
the lookup by id finds, and they agree.  `TimelinePageIsFirst` and
`TimelineScanIsFaithful` are parts of `ScanInv`, with what they need.  `Divided`
says that nothing received lies behind the cursor.  `Reading` says, while a
page is read, that what a provider returned is the first of a set of events,
that these sets are together what was seen, and that the providers asked so far
have seen every event that was there all the time and lies behind the cursor.
The sets exist at the instants at which the providers were asked, so they are
quantified and not computed from the rows, which have moved on.

**TimelineProofs: the console.**  `ConsoleHasNoGap` follows from `Accounted`:
while the page shows "live", an event that was broadcast, is not excused, and is
neither shown nor under way is still to come from the recovery, that is, it lies
in its window and behind the cursor of its next request.  `Quiet` says that a
recovery that is over leaves nothing behind, so that its end leaves no event to
come.  Nothing is assumed of how the loads of the history overlap: a reply that
is taken replaces the store, and what it lacks of its own span although it was
shown, or was below the span of the page before, is what `TakeHistory` excuses
(`HistoryAccounted`).  `UpsertKeepsBelow` is the store at its
limit: what it drops is older than all it keeps.

**ApiProcessProofs.**  `StartInv` follows the lifespan through `StartOrder`: from
the second place on, LISTEN has been up, was given up, or there is no listener;
and only LISTEN sets the listener ready.  `QueueInv`: no job of a stopped
service waits, for the only task that asks for a thread is one that runs, and no
task is started after the first was stopped.  The deliveries that outlived a
gather are counted apart (`Outliving`), wherever they are; once the worker is
stopped no gather can fail, so that their number only falls, which is the
exception of `StopIsFinalHolds`.  `QueuedAppend` and `QueuedTail` count the jobs
of one owner in the queue as it grows and shrinks, for any length of it.
`LoaderInv` says of every path of a setting what stands there after each step
of the loader: the default, what the file says, what the variable says.  The
lemmas `DefaultsHold`, `MergedFacts`, `OverriddenFacts` and `BuiltFacts` say that
no step loses a setting or touches another (`Shaped`), in the flat sections, in
the root of the retention and in its domains; `MergedFacts` is where a partial
policy of a domain keeps the keys the file leaves out.  `LastLayerWinsHolds`
follows.  For `AcceptedIsUsableHolds`, `ValidUsable` derives the demands of every
constructor and the five of the services that `_validate` has rules for from the
type and limits of the setting in the table, and the order of two settings from
the rule that relates them.
`InputsAssumption` is only about how values are written: a pair of type and
content, whole numbers, two booleans.

**The activity stream, in the same module.**  `StreamTypeCorrect` has the two limits in it, of the queue
of a client and of the number of clients.  `OnlyObservationsDroppedHolds` rests
on `LineOK`: the events of the line ascend, belong to what was published since
the client began, and miss observations at most.  `OfferedPublished` and
`NotBegun` tie what was offered to a client to the count of the broker.  The
drain and refill of `_enqueue` is one lemma: taking one observation out of the
queue keeps the line of the others.

Five of the theorems (`SuccessCorrect`, `CounterCorrect`, `AttemptBudgetHolds`,
`CooldownCorrect`, `ConfiguredFlagReturnsHolds`) are of invariants that no run lists, since the
proofs cover them for all constants.

Only model-checked: everything under fairness (`Settles`, `DwellFires`,
`EvaluatedUnlessExcused`, `LifecycleReachesReaders`, `OldRowsGo`,
`RecoveryEnds`, `StartsAndEnds`, the fairness of the contract), which the
prover does not reach.  Every invariant that a run checks is proved, and so is
every action property.  `tlapm` checks a proof module by itself.

Where a definition is not recursive itself, an induction over its argument can
be replaced by the least counterexample: `LeastOf` in `AlertConsumerProofs`,
`TimelineProofs` and `ApiProcessProofs` has it from the well-foundedness of the
naturals.  `FirstAreAll` (when the first k + 1 of a set are no more than the
first k, they are all) and `RunExists` are proved with it.

## 7. What is abstracted

* Which targets match an alert, which rules select an event by camera, and
  which zone contains a point are constants or free choices.
* A conflict on a unique index is one of the faults of the transaction that
  loses, or refuses an acknowledgement.
* An UPDATE names the columns that differ from what its transaction has read.
  `Record` reads its row and writes it in one step: it writes all columns that
  it decides on whatever the row says, and only one that happens to be equal
  could be left as another transaction has just set it.
* The page of a catch-up is read in two transactions, one for the entities'
  events and one for the zones'; those of alerts are not evaluated.
* `ApiProcess` knows no semaphore of a gather that failed: its siblings ask for
  a thread at any time, more freely than the code lets them.
* `AlertConsumer` evaluates in one step and `AlertEvaluation` reads its inbox
  in order; each is the other's environment, and the excuses of the first are
  the lost events of the second.
* The reconciler lists the oldest states first.  With a batch that holds every
  due state nothing starves; section 8 says what happens otherwise.
* The rows of `Retention` and those of `Timeline` change by free choice of the
  environment, within what the other modules let happen to one row.
* The console takes a page as read at one instant; `Timeline` shows what the
  transactions of three providers make of it.
* Of a configured text the model keeps its class (blank, a choice, another),
  of a float whole numbers and the values that compare oddly.
* Point-in-polygon tests are reals; `EntityMemory` takes any answer for any
  observation.  The legacy table of vision persistence is written and never
  read.  Routes, payloads, signatures, address rules and metrics hold no state
  between two requests on which another component decides.
* Snapshots and running averages of entities, the throttles of snapshots and of
  observations, the ENTITY_* events on the bus, which nothing subscribes to,
  and a second vision process on the same camera are not modelled; neither are
  two transactions of two vision processes that overlap on one session.

## 8. Where the code and its texts part

With a run of its own:

* **The second dwell is silent** (`alerts_second_dwell`).  The state's row is
  reused, so is its id, and the idempotency key of the first firing forbids
  every later one.  The state stays pending, although
  `docs/durable-alerts.md:26` says "trigger if still inside".

Excused in the properties, each by the excuse or the alternative named:

* **A delivered row is not terminal** (`DeliveredFinalUnlessExcused` and
  `AnsweredOnceUnlessExcused`, "expired").  `record_attempt_and_update` looks at
  neither status nor lock: a job whose lock expired overwrites `delivered` with
  its own failure (`docs/outbound-notifications.md:65`: "terminal success").
  That a receiver may then be asked twice is what at-least-once means, and the
  idempotency key of the request is for it.
* **A manual retry may requeue any row** (the same two and `OneJobPerLock`,
  "overwritten").  `schedule_manual_retry` reads and checks a row that it does
  not lock.  A failed row that is due may be claimed, or claimed and delivered,
  before its UPDATE, which makes it pending again: a second job claims it while
  the first is at work, or a delivered row is sent again
  (`docs/outbound-notifications.md:169`: "failed/exhausted only").
* **An acknowledgement undoes a resolution** ("overwritten" in
  `DwellResolvedUnlessExcused`).  `acknowledge` checks that the alert is open and
  writes its status; a resolve that commits in between is lost, and since the
  condition cleared already nothing resolves the alert again
  (`docs/durable-alerts.md:46`: "`open` → `acknowledged` → `resolved`").
* **A disabled rule does not resolve** ("disabled" in
  `DwellResolvedUnlessExcused`).  Rules are read with `enabled` set, so the exit
  of an entity whose rule was disabled meanwhile is evaluated without it and the
  open alert stays (`docs/durable-alerts.md:51`: "Disabling a rule stops new
  triggers only").  The same goes for a rule outside its time window ("window").
* **Firing overtakes an exit** ("race" in `DwellResolvedUnlessExcused`).  The
  reconciler reads the session in one transaction and fires in the next; an
  exit evaluated in between finds no alert to resolve, and the alert that
  follows stays open (`docs/durable-alerts.md:49`: "auto-resolve when condition
  clears").
* **The overlap is never applied** ("late" in `EvaluatedUnlessExcused`).  With a
  checkpoint there is a cursor, and `occurred_after` is passed only without
  one: an event that commits behind the checkpoint and loses its notification
  is not evaluated (`docs/durable-alerts.md:65`: "Timeline replay with
  overlap").
* **A page of the catch-up may pass an event** ("between" in
  `EvaluatedUnlessExcused` and `FirstEvaluationsInOrder`).  The composer asks its
  providers one after another in transactions of their own: an entity's event
  that commits in between, in front of a zone's event that the page shows, is
  behind the cursor and the checkpoint that follow.  Its notification saves it
  while the process lives and listens.
* **A failure ends the catch-up** ("failed" in `EvaluatedUnlessExcused`).  An
  exception of the checkpoint, a page or an evaluation ends `_catch_up`, which
  only logs it; the next live event saves a checkpoint behind what was left
  (`docs/durable-alerts.md:65`: "Timeline replay with overlap, idempotent
  evaluate").
* **A slow consumer is not closed** (`LifecycleReachesReaders` counts a client
  in `closed` as done with).  `_enqueue` sets `closed` before it queues the
  close; the sender leaves its loop when the send in progress ends and the
  close is never sent (`docs/activity-stream.md:143`: "close client as slow
  consumer").
* **An entity is of two appearances** (`ObjectHasEntity` speaks of an active
  entity, not of a new one).  Nothing closes the entities that are active when
  the process ends, and the next process's track of the same number is taken
  for them (`src/core/identity.py:78`: "This remains appearance-local").
* **Another camera's process closes sessions** (the exception of
  `CommitKeepsAgreement`).  `list_stale_open` asks for stale sessions of all
  cameras.  Closed by the process of another one, the session of an entity that
  this process remembers as inside is not opened again until the entity has left
  the zone and entered again.
* **A reload may show an older reading** (`TakeHistory` adds what the page lacks
  to the excused events of `NoGapUnlessExcused`).  Nothing holds back a second
  `loadInitialHistory`; if the older of two replies comes last, it replaces the
  store of the newer, and live events that were shown are gone as well.
* **Deliveries run after `stop()`** (the exception of `StopIsFinal`).  `_cycle`
  gathers without `return_exceptions`; when one delivery raises, its siblings
  belong to no task that `stop()` cancels.  They may take a thread and send
  while the services stop and the engine is disposed of, until the event loop
  ends (`src/services/notifications/worker.py:212`).
* **Three demands have no rule** (`NotValidated` in `AcceptedIsUsable`).
  `timeline.maximum_limit` may be below 100: the consumer's catch-up asks for
  pages of the smaller of 100 and `startup_catchup_limit`, and is refused if
  that is above the limit, after every restart; the pages of 100 and 50 and the
  50 zones that the console asks for are refused as well.  `logging.level` may
  be NOTSET, which uvicorn does not know: the process ends before it serves
  (`ServerLogs` in `StartsAndEnds`).
* **A recovery stops at its page bound** (`FinishRecovery` adds what lies past
  the last page to the excused events of `NoGapUnlessExcused`).
  After 20 pages it reports success with the newest events missing
  (`docs/live-activity-console.md:78`: "Paginate with `next_cursor` until
  exhausted").

Visible in the models, without a run:

* An exception in a gather gives the next cycle a semaphore of its own, so more
  than `max_concurrent_deliveries` requests may be under way.
* `list_due` takes the 100 oldest pending states.  Second dwells stay pending
  and oldest; a hundred of them starve all others.
* The subject of an occupancy rule contains the entity of the event, so a drop
  below the threshold resolves the alert of the entity that left, not of the
  one whose entry raised it.
* Events beyond `startup_catchup_limit`, events dropped by a full queue and
  events missed while the listener reconnects are passed by the next live
  checkpoint.  Events in both the catch-up and the queue are evaluated twice,
  and the checkpoint may go back over them.
* A client that dies before `connection.ready` stays registered.  The warning
  of a dropped observation is never queued: after the drop the queue is full
  again.
* When the OBJECT_ENTERED of a reused track number is rolled back, the updates
  of the object look late and it has no entity until its exit.
* After a rollback an entity may be inside in memory without a session, until
  it exits; or outside with an open one, until the session is found stale.
* NaN passes every rule of the form `value <= 0`, infinity every rule without an
  upper limit: with a NaN poll interval the worker polls without a pause, with
  a NaN lock timeout no lock is recovered.  `AcceptedIsUsable` speaks of finite
  values where it speaks of services.
* With the activity stream disabled the consumer hears of no live event and
  evaluates only at its start.
* The threads of the default executor serve up to 50 webhooks and everything
  else; a stop waits for none of them, and jobs that have begun may still use
  the engine when it is disposed of.
* Retention deletes a resolved alert with its pending deliveries, and an entity
  with the alert that another process inserted after the look; the rows come
  and go by ON DELETE CASCADE.  A manual run reads the flag without the lock
  and may be refused because a dry run is in progress.
* The console's first connection is followed by no recovery, and neither is one
  that comes while the recovery of the one before runs; a failed recovery is
  forgotten when the next live event moves the position; the reply to "load older" may arrive
  after a reload and move the cursor.
* Two providers of one page read at two instants, so a page may show the zone
  event of a transaction and not its entity event; the scan does not lose the
  other one unless it lies behind the cursor.
