# Verification of Stugu

TLA+ models of Stugu (`open-stuga`), the runs that check them with TLC, and
proofs checked by TLAPS. Paths are relative to the repository; `api/` stands
for `src/apps/api/src/`.

## The system

Stugu is a self-hosted home telemetry server. One Node.js process (`apps/api`)
owns a SQLite control plane, ingests telemetry from integrations, raises
alerts, and copies history into an optional TimescaleDB archive. The web, iOS
and watch applications read it over HTTP; a separate runner drives the Tapo
app to export history; a host-side agent applies updates. An MCP server opens
the same SQLite database, to read it.

A sample takes this way: integration, `ingestBatch`, SQLite and the alert queue in
one transaction, alert events with their outbox rows in one more, the outbox to
webhook, Telegram or Apple; and, on its own schedule, SQLite to TimescaleDB. Gap
recovery asks the Tapo export for what is missing.

| Component | State it keeps | Operations | Hard behaviour | What makes it correct |
|---|---|---|---|---|
| Telemetry archive pipeline (`api/timeseries/archive-worker.ts`, `retention-worker.ts`, `db/methods/telemetry-archive.ts`, `timeseries/store`) | SQLite rows with archive row ids and pending revisions, two cursors per table, the live queue, worker status and timers, archive rows and checkpoints | ingest, live flush, reconcile, acknowledge, enforce the demo boundary, purge, stop | callbacks between awaits, lost answers, crashes, retries, bounded queue, purge racing updates | no accepted value is lost or reverted; the archive catches up; no failure is final |
| Ingestion, bus, demo mode (`api/telemetry`, `api/events.ts`, `api/demo`) | latch from demo to real data, subscribers | ingest batch, replay, activate real data | latch racing queued demo samples | no demo row survives the boundary |
| Hybrid reader (`api/timeseries/read-facade.ts`) | none of its own; reads SQLite and the archive | range, bucket and opening reads | purge or flush between the two reads | complete or failed, never silently short |
| Ordered rollups (`api/timeseries/ordered-rollup-worker.ts`) | dirty ranges, generations | rebuild the next range | late samples during a rebuild | a published state is never older than its inputs |
| Alert engine (`api/alerts`, `db/methods/alerts.ts`) | evaluation queue, condition state, events | evaluate samples, wall clock, follow-ups, acknowledge, retire | late samples, rule edits, failed calls, crashes | one open event per rule and sensor; no sample skipped; what is due is raised and escalated |
| Notification outbox (`api/outbox.ts`, `db/methods/notification-outbox.ts`) | rows with attempts, lock tokens, terminal states | enqueue, claim, deliver, fail, release, abandon, retry, prune | slow deliveries, stale locks, aborts, crashes | at least once, attempts bounded, no settled row changes |
| Integration secrets (`api/integration-secrets-lock.ts`, `-coordinator.ts`) | lock file, credentials file, staged file, revision in SQLite | update, coordinated commit, recover | crashes between two stores, stale locks | both stores agree after recovery, no update lost |
| Tapo history export (`api/tapo-history-export`, `db/methods/tapo-history-export-*.ts`, `apps/tapo-export-runner`) | jobs, leases, mail addresses, canary approvals, staged samples; per runner a watchdog and a phone | claim, heartbeat, report, cancel, retry, poll the mailbox, complete | expired leases, late reports, commands a phone still executes, searches overtaken by a new attempt | one attempt at a time drives a phone; a job is completed only by the mail of its own attempt |
| Gap recovery, weather recovery | gaps, provider attempts | detect, claim, resolve | retries against late answers | a gap ends resolved or exhausted |
| System updates (`api/system-updates`, `scripts/stugu-update-agent`) | request, lock and result files | request, start, report, time out | two processes sharing files, crashes | one update at a time, result reported |
| Stuguby federation (`api/stuguby`) | grants, outbound queue, sequence numbers | publish, pull, revoke, detach | lost and repeated messages | nothing delivered after revocation |
| Scheduled exports, derived analytics, spatial scheduler | schedules, jobs, revisions | claim, run, deliver | overlap, retries | no double run |

`PROJECT.json` lists these and the parts that are not modelled at all (user
interfaces, numerical models, vendor protocols, authentication) with reasons,
and the hazards of the code at the lines where they bite.

## Modules

| Module | What it is |
|---|---|
| `TelemetryHistory` | abstract specification: a recorded history per natural key that only ingestion changes |
| `TelemetryArchive` | the archive pipeline, its properties and its inductive invariant |
| `MCTelemetryArchive` (five `.cfg`) | the instance TLC checks |
| `TelemetryArchiveTypes` | type lemmas and the theorem of type correctness |
| `TelemetryArchiveProofs` | one lemma per action for the invariant, then the theorems on rows, order and history |
| `TelemetryArchiveScheduleProofs` | the worker always has something scheduled |
| `CredentialStore` | abstract specification: credentials and database rows change in one step |
| `IntegrationSecrets` | the lock file, updates, the two-store commit and its recovery, with their properties and inductive invariant |
| `MCIntegrationSecrets` (two `.cfg`) | the instance TLC checks |
| `IntegrationSecretsProofs` | type correctness, the lock, the data it protects given mutual exclusion, the refinement |
| `NotificationLedger` | abstract specification: a notification is queued, delivered or failed, and forgotten |
| `NotificationOutbox` | rows, runs of the worker, destinations, late acceptances, with their properties and inductive invariant |
| `MCNotificationOutbox` (two `.cfg`) | the instance TLC checks |
| `NotificationOutboxProofs` | type correctness, the invariant, destinations, the refinement |
| `AlertEpisodes` | abstract specification: one episode at a time for each rule and sensor |
| `AlertEvaluation` | the queue, condition state, events and the tick, with their properties and inductive invariant |
| `MCAlertEvaluation` (one `.cfg`) | the instance TLC checks |
| `AlertEvaluationProofs` | type correctness, the invariant, the tick, the refinement |
| `ExportRequests` | abstract specification: a request is put to the phone in rounds, and done by the mail of one |
| `ExportLeases` | the job queue, the runners, the phones and the mailbox poll, with their properties |
| `MCExportLeases` (two `.cfg`) | the instance TLC checks |
| `ExportLeasesProofs` | type correctness, the mail invariant with the refinement, the fence invariant |

Operators introduced by a comment that starts with "Slip" are not part of any
specification. Each is a plausible mistake in the definition that follows it;
`PROJECT.json` pairs it with the property that notices it.

### TelemetryArchive

*State.* `local`, `rowId`, `dirty`, `localCkpt`, `realMode` are SQLite (the row,
`telemetry_archive_row_ids`, `telemetry_archive_dirty_rows`, the local cursor,
the latch). `archive`, `remoteCkpt`, `boundaryRecorded` are TimescaleDB. `phase`,
`caughtUp`, `startState`, `stopping`, `enforced`, `timer`, `wake` are the
fields of `TelemetryArchiveWorker`; `queue`, `flying`, `live`, `liveLeft` its live
flush; `cycle`, `table`, `cursor`, `last`, `sent`, `stamp`, `before`, `joined` the
locals of `#reconcile`, `#reconcileTable` and `#flushDirtyTable`; `retention` the
await inside `TelemetryRetentionWorker.runOnce`.

*Abstraction.* A row is its natural key; its contents are the number of the
ingestion that wrote them. The same counter `writes` stands for the
AUTOINCREMENT sequences of row ids, dirty ids and queue ids, of which the code
uses the order only. An old row that is not the latest of its series is
`Compactable`; the cut of a purge is any subset of those, so retention windows
need no clock. A demo row is a key in `Synthetic`.

*Atomicity.* JavaScript runs to completion between awaits, and SQLite is called
synchronously; so an action is one such stretch, and every await is a state of
`cycle`, `live`, `startState` or `retention`. A call to the store takes effect
when its answer arrives, or, if the answer is lost, at that moment or never
(`LostAnswer`): batches and pages are one transaction each, while the boundary
deletes table by table and may stop part of the way.

*Faults.* `InitializeFails`, `LiveWriteFails`, `CallFails` (an answer lost before
or after its effect), `Crash` (the process dies at any point, with or without the
effect of the call in flight) and `Stop` (an orderly shutdown, followed by
`Restart`). PostgreSQL's own refusal of a batch that proposes one key twice is
not a fault but `LiveWriteRejected` and `DrainRejected`.

*Over-approximations.* `RetentionResumes` may happen later than the microtask in
which the code resumes. A purge may delete any part of what it may delete.
The latch of the real-data mode is a step before the first real row, although
both are one transaction.

*Not modelled.* TimescaleDB is assumed to be installed (without it the worker
still runs against plain tables). A call that lands after its caller gave up is
folded into the loss of its answer. A restored SQLite copy is planned.

*Constants.* `Collisions` tells whether a reading may project a measurement that
is already stored, or a replayed sample may meet a queued one with its key.
Findings 1 and 2 need it. The keys that an ignored sample may then overwrite are
`Contested`: the measurements that readings project. What the invariant says of
archived contents and of queued and sent samples it says of the real keys that are
`Uncontested`, which without collisions are all of them; what it says of the worker, the
pending revisions and the demo boundary it says of every key. So it holds with and
without collisions, and only `CheckpointSound`, which speaks of every row, needs them
away.

### IntegrationSecrets

*State.* `lock`, `file`, `stage` are the files `integration-secrets.json.lock`, the
file itself and `.pending`; `db` is the row `integration_secrets_revision` with the
rows committed along with it. Per process, `pc` is the next call that others can
see, `op` the operation, `seen` is `ownerText`, `copy` what the operation read, `ok`
whether it will return. `acked` is a history variable: the edits whose operation
returned.

*Actions.* `Open` .. `Release` are `withIntegrationSecretsLock`; `Check`, `Write`
`updateIntegrationSecrets`; `Check`, `Stage`, `Commit`, `Publish`, `Unstage`
`commitCoordinatedIntegrationSecrets`; `Boot`, `Recover`, `Publish`, `Unstage`
`recoverCoordinatedIntegrationSecrets`, called by `createCoreDataServices`.

*Abstraction.* Credentials are the set of edits applied to them; the revision of a
commit is the number of its edit. Callers that replace a whole list computed
outside the lock are not edits of this kind, so `NoEditLost` speaks of what the
lock protects, a read of the file followed by its replacement. `writeIntegrationSecrets`
is its rename. The clock is one bit of the lock file, whether it is past its limit.

*Atomicity.* A call is synchronous and blocks its process, waiting included
(`Atomics.wait`), so a process has one call at a time; other processes act between
any two calls on the file system. `Look` joins the reading of the owner with the
test of its life and age.

*Faults.* Any call may fail (`LockFails`, `OperationFails`, `PublishFails`), any process
may die (`Crash`) and come back with the same pid (`Restart`). A stage that a
failed commit could not remove blocks every later change until the next startup:
the model keeps this, and `StageSettles` promises no more.

*Constants.* `Preempted` allows others to act while a process removes an abandoned
lock, `Overruns` lets an operation outlive the limit of its lock. Each breaks the
lock (finding 3 and the first observation below); the passing run and the theorems
about the lock assume `Guarded`: no overrun, and either no preemption there or no fault
at all. The data that the lock protects needs mutual exclusion only.

### NotificationOutbox

*State.* `row` is `notification_outbox`: status, attempts, `due` for `available_at` in
the past, the lock token, whether the lock is older than five minutes, and the
`destination_ref` frozen when the row was queued. `dest` is what is configured now,
per channel; `hidden` the rows of deleted houses. `up`, `stopping` are the process
and `DurableWorker`; `run` holds, per run of the worker, the items it still has and
the one it is sending. `wire` and `heard` are the world outside: requests a
destination may still accept, and what it has accepted.

*Actions.* `Enqueue` (producers), `Wake` (`runOnce` up to its first send: claims a
batch), `Deliver` (`deliver`, `send` up to the request), `AnswerOK`, `AnswerError`
and `AnswerTerminal` (what follows the answer), `HandBack` (the release of what an aborted
run has left), `Retry` (an operator's), `Prune`, `ConfigureTelegram`, `Register`,
`DeleteHouse`, `Accept` (a request is accepted although its sender gave up),
`BecomesDue`, `LockAges`, `Stop`, `Exit`, `Crash`, `Restart`.

*Abstraction.* A claim writes one fresh token per row; the model's token is the run.
Back-off and quiet hours are the bit `due`, the order of a batch is free, payloads
are the row's name. The three channels differ as in the code: in what is checked
before sending, and in which answers end a row.

### AlertEvaluation

*State.* `queue` is `alert_evaluation_queue`, `latest` the newest sample per sensor,
`rule`, `state` and `alert` are `alert_rules`, `alert_evaluation_state` and, with its
outbox rows, the newest of `alert_events` per rule and sensor; `gone` are the sensors
of deleted houses. `work`, `todo` are the running handler and `ticking` is
`#tickActive`. `calm` is a history variable: the newest sample evaluated that did not
meet the condition.

*Actions.* `Ingest`, `Backfill` (the two ways a sample is stored), `Evaluate` and
`IngestEnds` (`evaluatePendingSamples`), `TickBegins`, `QueueDrained`, `WallClock`,
`ClockDone`, `FollowUp`, `FollowUpsDone`, `VerificationEnds` (`tick` with
`evaluateWallClock` and `enqueueDueFollowups`), `SaveRule`, `UpdateRule`, `RetireRule`,
`Acknowledge`, `DeleteHouse`, `TimePasses`, and the faults `CallFails`, `Crash`, `Restart`.

*Atomicity.* The handlers are synchronous, so they interleave only where the tick
awaits the verification of action runs; but a failed call or a crash may cut them
between any two transactions, which is why each transaction is an action. The code
evaluates up to 500 entries in one transaction; the model one, which cuts more often.

*Abstraction.* A condition is a threshold; the rows of an event are named by kind and
interval, without their channels. The verification of action runs is only the await,
and its notifications and the maintenance reminders are left out.

### ExportLeases

*State.* `job` is `tapo_history_export_jobs`: status, attempts, back-off, owner and
token of the lease and what is left of it, the claim its address was made for, the
submission it waits for, the message that completed it. `approval` and `bound` are
the canary approval and the jobs queued under the device's present name. Per worker
(one per phone): `worker` is `processJob` with its watchdog and its outstanding
request; `screen` the commands the phone may still be executing, whoever gave up on
them. `wire` are reports the API may still receive, `poll` the searches of the
mailbox poll, `asked` the claims whose mail the phone asked for. `unfenced` is a
history variable: claims whose lease was dropped while they were driven.

*Actions.* On the API's side `Enqueue`, `RequestCanary`, `Retry`, `Cancel`, `Claim`,
`ClaimCut` (dies between its two transactions), `Park`, `FindsNothing`, `Maintain`,
`Heartbeat`, `HeartbeatRefused`, `Receive`; on the runner's `ClaimArrives`, `ClaimLost`,
`Drive`, `CommandEnds`, `Report`, `GiveUp`, `HeartbeatArrives`, `Abandon`; the poll
`PollBegins`, `Delivered`, `DeliveredCut`, `Rejected`, `Drifted`, `Overdue`, `NotYet`;
the world `Rename`, `ApprovalAges`, `MailDeadline`, `Tick`.

*Time* is what is left of a limit, in ticks, and one tick cannot pass over a limit
of a request, a command or a watchdog: these fire when they are due. Nothing forces a
lease to be looked at. The assumptions `Margin > Limit`, `Grace > Limit`,
`Lease > Margin` are those of the constants in the code (125 s, 120 s, five minutes).

*Abstraction.* All jobs are for one device. The search for a job that skips parked
ones is one step per job. Whether a renewal canary is queued when one is due is left
open (`Prepared`), as it depends on settings. The two transactions of `Drifted` are
one step. The flow of a job is any number of commands, one at a time.

*Not modelled.* Jobs of the private-cloud provider, pruning, deleted houses, the staged samples
and their consumption by gap recovery, several devices, oldest-first order, and of
the runner its circuits, preflight and sign-in.

## Runs

| Run | Bounds | Shows |
|---|---|---|
| `archive_safety` | keys: a measurement, a reading that projects to it, a demo sample; 2 tables; batches of 1, queue of 2; 4 ingestions, 1 fault | the safety invariants, the inductive invariant, and the two action properties |
| `archive_history` | a second measurement, collisions, batches of 2, 3 ingestions, 2 faults | the inductive invariant and `RevisionOrder` where samples collide, refinement of `TelemetryHistory` |
| `archive_live` | batches of 1, 3 ingestions, 1 fault, `FairSpec` | `CatchesUp`, `Recovers` |
| `archive_ignored` | collisions, 2 ingestions, no fault | finding 1 |
| `archive_poison` | collisions, batches of 2, 3 ingestions, no fault, `FairSpec` | finding 2 |
| `secrets` | 2 processes, 2 lock texts, 3 edits, 2 faults, `FairSpec` | mutual exclusion, durable edits, the inductive invariant, refinement of `CredentialStore`, `StageSettles` |
| `secrets_preempted` | 2 processes, 2 edits, 1 crash, preemption everywhere | finding 3 |
| `outbox` | a Telegram row and a push row, the latter asked for again at every tick; 2 destinations per channel, 2 runs, batches of 2, 2 attempts, 1 change, 1 fault, `FairSpec` | what a run was told still stands when it acts, nothing is rerouted, refinement of `NotificationLedger`, `EverySettles` |
| `outbox_token` | 1 push row, 1 run, 1 change, no fault | finding 4 |
| `alerts` | 1 rule, 2 sensors of which 1 reports, values 0 and 1, all durations 1, reminders at 2, time to 2, 3 samples, 1 edit, 1 fault, `FairSpec` | the inductive invariant, complete ticks, no sample skipped, refinement of `AlertEpisodes`, and three liveness properties |
| `exports` | an export and a canary, 1 phone, lease 3, grace 2, margin 2, requests 1, 1 attempt, 1 outstanding, 2 troubles | own mail, the operator's limit, the fence of a phone, no phone driven without its lease, refinement of `ExportRequests` |
| `exports_live` | an export, 2 phones, the same times, 2 troubles, `FairSpec` | `Resolves` |

Why the bounds are enough to be interesting: four ingestions let a row be
inserted, paged, updated while its revision is on the wire and updated again;
batches of one make every pass take several pages and every flush several
batches; a queue of two overflows on the third sample; two tables separate the
paged from the bus-fed table and the mutable from the immutable one. Two faults
let a crash follow a lost answer. In `archive_history` collisions are possible, but
the measurement they concern is not compactable: an ignored publication (finding 1)
damages only the masked archive copy, and the recorded history still holds, which
is the hypothesis of `HistoryKept`. One measurement there is contested and another is
not, so that `ArchiveInvariant` and `RevisionOrder` are checked of the latter while the
former is damaged.

For the secrets, two faults let recovery itself crash, or a crash leave a lock and
a stage to a failing successor; three edits let a commit and an update follow a
commit. More processes add waiters only, and the theorems hold for any number.

For the outbox, two rows in one batch let the second wait while the first is sent,
its lock ages and a second run claims; one change lets credentials differ between
queueing, sending and answer; two attempts let a failed row be retried and then be
dead-lettered, and an operator ask for it again.

For the alerts, a sample may be a tick ahead of the clock or lag by any time, so that
three samples can come early, late, twice at one time or stale; the rule may be for
one sensor or any; the second sensor never reports, so a rule can be re-pointed to it;
the fault may be a failed call or a crash between any two transactions.

For the exports, lease, margin and grace are the smallest that meet their
assumptions with limit 1. Two troubles are a crash and a lost answer, or a
cancellation and the retry that follows, or a rename while a job is driven; a
requested canary parks the export that is being driven. One attempt keeps the
counters low: jobs run out of it and are tried again by an operator's retry; the
theorems have no such bound.

Deadlock is not checked in `secrets`, `outbox` and `alerts` and the two small runs of
findings, since callers stop when the edits, changes or samples of the bounds are used up.

`NeverStalled` and `QueueServed` are safety statements behind the liveness of the
archive: there is always something scheduled that will look at the queue or start a
pass. They are proved as well; that what is scheduled comes is fairness.

*Fairness.* `WF` on the timers (`TimerFires`, `WakeFires`), on the start, on the
steps of a flush and of a cycle, and on `Restart`: `setTimeout` callbacks and
promise continuations run, every call is answered or fails (the pool has
statement timeouts), and the service manager restarts the process. Nothing forces
ingestion, retention or a fault. Faults are bounded by `MaxFaults`, so the
liveness properties speak about what happens after the last of them.
For the secrets: `WF` on the steps of a call that has started and on `Restart`, as
synchronous code runs on and the service manager restarts a process, and on `Age`,
as time passes. Nothing forces a call or a fault, and a waiter is not forced to
give up.
For the outbox: `WF` on the timer of the worker, on the steps of a run, on answers
(a request is aborted after ten seconds), on the passing of time (`BecomesDue`,
`LockAges`), on the end of a shutdown and on `Restart`. Nothing forces a destination
to accept anything.
For the alerts: `WF` on the steps of a handler that has begun, on the end of the
verification and on `Restart`; `SF` on `TickBegins`, since the interval fires again
and again while other handlers come and go between.
For the exports: `WF` on time, on what comes to a worker by itself (an answer, its
watchdog), on the end of commands, on the API's answers, on the poll, on mail
deadlines and on the end of a search; `SF` on reports, since a flow is a finite list
of actions with limits but heartbeats come between, and on a search that ends with
the mailbox in order, which the code retries at every poll. Nothing forces a phone
to ask for mail, mail to come, or a job to be claimed.

## Findings

1. *An ignored measurement is published.* `TelemetryService.ingestBatch` publishes
   every measurement projected by a newly stored reading, also those that
   `INSERT OR IGNORE` dropped because the measurement was there already. The live
   flush then writes the dropped contents over the archived row; no pending
   revision exists and the row id is below the checkpoint, so no later pass
   repairs it. (`archive_ignored`, `CheckpointSound`.)
2. *A batch that can never be stored.* The queue may hold two samples with one
   natural key; a batch with both is refused by `INSERT .. ON CONFLICT DO UPDATE`,
   stays queued, and is the first thing every later cycle sends. The worker stays
   degraded until it is restarted or the queue overflows. (`archive_poison`,
   `Recovers`.)

3. *A reclaimer removes a fresh lock.* A waiter that found an abandoned lock compares
   its text and then unlinks the path. Between the two another waiter may have
   removed the same lock and created its own, which is then removed while its owner
   is at work. (`secrets_preempted`, `LiveLockStands`.)
4. *A fresh registration is disabled.* When Apple rejects a device token for good,
   `recordDeliveryFailure` disables the registration the row names without looking
   whether it still has the rejected token. A phone that registered a new token
   while the push was under way stays without notifications. (`outbox_token`,
   `FreshRegistrationStands`.)

Observed while modelling, without a run of its own:

* An operation that outlives the 60 s limit loses its lock to a waiter, as intended;
  its `finally` block then unlinks the path without looking whose lock it is. With
  `Overruns` TRUE, `LiveLockStands` is violated.
* A lease can be dropped while its phone is driven: a heartbeat or a `running` report
  of a device that was renamed parks the job and clears the lease
  (`api/tapo-history-export/core.ts:407`), and so does the retry of a job that a requested
  canary parked (`api/db/methods/tapo-history-export-jobs.ts:155` keeps the lease,
  `tapo-history-export-leases.ts:320` clears it, as only `cancelled` keeps one).
  The next attempt may then start without the reclaim grace.
  The answer to such a report does not say that the job was parked, so the runner
  drives on without a lease. `TargetDrained` excepts these claims by name
  (`unfenced`).
* The open event of a rule that is re-pointed to another sensor or disabled stays open
  until the rule is retired; re-enabled, it goes on where it was.
* `#verifyDueActionRunsFromTelemetry` settles runs one by one, and the tick publishes
  after the loop; a failing read loses the notifications of the runs settled before it.
* Follow-ups look at the thousand newest open events.

## Proofs

`TelemetryArchiveTypes` proves `Spec => []TypeOK` for all constants that satisfy
the assumptions in `TelemetryArchive`: any finite set of keys, any number of
tables, any batch and queue size, any number of ingestions and faults.

`TelemetryArchiveProofs` proves that `ArchiveInvariant` is inductive, with collisions
and without (`InvariantCorrect`), and from it:

* `CheckpointCorrect`: a row at or below the local checkpoint without a pending
  revision is archived as SQLite holds it (under `~Collisions`; finding 1 shows that it
  fails otherwise. `InvariantCorrect` has it for every uncontested key);
* `BoundaryCorrect`: no demo row is archived once the boundary is recorded;
* `AcknowledgedCorrect`: a pending revision is dropped only when archived;
* `RefusalCorrect`: a batch that PostgreSQL refuses for a repeated key holds an ignored
  sample or demo data, so finding 2 has no other cause;
* `OrderCorrect` and `NeverRegressesCorrect`: of an uncontested key the archive is never
  ahead of SQLite, what is on the wire lies between the two, and so no lost, late or
  repeated write takes the archive back;
* `SafeHistoryKept`: in every setting the pipeline implements `TelemetryHistory` for the
  keys that are not both contested and compactable, the `Safe` ones, and
  `RecordedNeverRegresses`: what the two stores together hold of such a key never gets
  older and is never gone;
* `HistoryKept`: it implements `TelemetryHistory` for all real keys, if no contested
  measurement is compactable. The hypothesis is needed: a purge of a row that an ignored
  sample overwrote leaves the wrong contents as the only ones. It holds without
  collisions, and in `archive_history`.

Why the invariant is needed: `CheckpointSound` alone is not inductive. The
checkpoint advances by what the page in flight covered (`PageSound`), which holds
because a page takes the lowest row ids above the cursor and every later change of
a row leaves a pending revision; a pending revision may be dropped because an
unchanged version means unchanged contents (`RevisionSound`); a live batch cannot
damage a checkpointed row because queued samples are what SQLite stored
(`QueueFresh`); the purge that follows a pass is safe because an unchanged token
means that nothing is pending (`PendingNew`) and the purge of the retention worker
because a worker that is caught up has no cycle and an empty queue
(`CaughtUpQuiet`). `OneWriter` keeps a flush and a cycle apart, `DemoGone` carries
the boundary through queue and wire, `RowsTracked` relates ids to their sequence.

Two properties need more. That the archive never goes back does not follow from what
checkpoints and revisions say, which is silent about a page read before an update:
`RevisionOrder` orders archive, wire and SQLite for each key and is kept by every step
that moves contents. And where samples collide, a contested key that is not compactable
is recorded correctly only because SQLite has its row from the moment anything of it is
queued, sent or archived (`StoredFirst`), and the row masks the archive.

The argument: `BoundedMax` (every bounded non-empty set of naturals has a maximum,
by the well-founded order of the integers) gives the token and page lemmas their
footing; one lemma per action shows that the action keeps each conjunct it can
disturb; `InvariantStep` collects them; the theorems follow by `PTL`. `StepEffect`
says once what a step may do to rows, archive and wire, and order and history are proved
from that.

`TelemetryArchiveScheduleProofs` proves `NeverStalledCorrect` and `QueueServedCorrect`,
for every setting. The two are not inductive alone: that a queued sample has a carrier in
a worker that is being started rests on nothing being queued or flushed before it was
(`IdleFresh`). With it they are: each step keeps the schedule of the worker, ends in a
cycle, or sets the timer or the wake that the next step needs.

`IntegrationSecretsProofs` proves, for any processes, texts and bounds:

* `TypeCorrect`, without any proviso;
* under `Guarded`: `MutualExclusion` and `LiveLockCorrect`;
* of every behaviour in which no two processes are inside the lock, preemption and
  overruns allowed: `ExclusionKeepsEdits` and `ExclusionImplementsStore` (it implements
  `CredentialStore`). So any repair of the lock that restores mutual exclusion restores
  these too;
* under `Guarded`, from both: `InvariantCorrect`, `NoEditLostCorrect` and
  `StoreImplemented`.

The invariant has two halves, `LockInvariant` and `DataInvariant`. `LockInvariant`: a
holder's lock is its own and within its limit (`HolderOwnsLock`), so nobody finds it
abandoned, and nobody holds the lock while one is reclaimed (`ReclaimsAbandoned`); it
is inductive on its own. `DataInvariant` takes from it only that there is one holder:
what a holder read is still there when it writes (`StageSound`), an edit belongs to
one call and is nowhere before that call changes something (`EditsDistinct`,
`CallsSound`), so a new stage never has the revision SQLite recorded, and the
credentials that count, `view`, agree with SQLite (`StoresAgree`). `WriteEffect`,
`CommitEffect` and `QuietEffect` state how each action changes `view`; the refinement
is a corollary.

`NotificationOutboxProofs` proves, for any rows, destinations, runs, batch and number
of attempts:

* `TypeCorrect`, and `InvariantCorrect`: `OutboxInvariant` is inductive. Its heart is
  `HoldersOwn`: what a run was told when it claimed a row still stands when it acts on
  it. A lock older than five minutes may be claimed by anybody, so this cannot come
  from the lock; it holds because a process has one run at a time (`OneRun`) and a new
  process starts with none;
* `NeverRerouted`, on that footing: the reference of a row never changes while the
  row exists, and a request is sent only when it is the one configured;
* `Implements`: every behaviour implements `NotificationLedger`;
* and from the refinement what the ledger implies for the rows: `DeliveredCorrect`, a
  row marked delivered was heard by its own destination and by no other, and
  `DeliveredIsFinal`, no late answer, restart or operator queues it again.

`AlertEvaluationProofs` proves, for any rules, sensors, values and durations:

* `TypeCorrect`, and `InvariantCorrect`: `AlertInvariant` is inductive. `OpenAgrees`
  relates event and condition state, `CalmBefore` both to the samples evaluated,
  `TickAhead` says what the tick has still to do at each of its stages;
* `TickCompleteCorrect` and `NothingSkippedCorrect`, from it;
* `Implements`: every behaviour implements `AlertEpisodes`, and so `AcknowledgedIsQuiet`:
  an open alert that somebody acknowledged stays so and is not urged again.

`ExportLeasesProofs` proves, for any jobs, workers, times within the assumptions,
attempts and bounds:

* `TypeCorrect`;
* `OwnMailCorrect` and `RequestsImplemented`, from the mail invariant: claims are
  numbered, nothing that is under way carries a number not yet given, and a report
  that a job waits for mail is on the wire only if its own claim asked for it;
* `CompletedIsFinal`, from the refinement: nothing reopens a completed export or credits
  it to another mail;
* `PendingCorrect`;
* `TargetDrainedCorrect`: no phone is driven for two attempts at once, unless a lease
  was dropped while it was driven. `TargetDrained` alone is not inductive, as it does
  not say why the phone is quiet when another attempt begins. The fence invariant
  does: every command on a screen ends before the lease of its claim and the grace
  after it are over; a worker that is at a job has a watchdog that fires while its
  lease has `Margin` left, less the time its last answer took; a report that ends a
  lease is made only when no command of the attempt is left; and a row can be claimed
  again only when lease and grace have passed, so that all its commands have ended;
* `DrivesUnderLeaseCorrect`: while a worker drives, the queue holds its lease, unexpired
  (or dropped as above). The watchdog is armed when the answer to a claim or heartbeat
  arrives, which may be `Limit` after the lease began; `Margin > Limit` pays for that.

Only model-checked: the liveness properties `CatchesUp`, `Recovers`, `StageSettles`,
`EverySettles`, `QueueDrains`, `DueIsRaised`, `EscalationComes` and `Resolves`, as liveness
under fairness is outside the reach of the prover. Every safety and action property
and every refinement that a passing run checks is proved.

## Plan

Done: `TelemetryArchive`, `IntegrationSecrets`, `NotificationOutbox`,
`AlertEvaluation`, `ExportLeases`, each with its abstract specification and proofs.
Left, in this order:

1. `TelemetryArchive` extended by a restored SQLite copy.
2. `HybridReader` over the two stores of `TelemetryArchive`; ordered rollups.
3. Gap and weather recovery, the consumers of staged samples.
4. `SystemUpdates` (API, agent, host), Stuguby's outbound synchronisation,
   scheduled exports.

## Not modelled

User interfaces, vendor protocols, request parsing and appliance builds keep no state
of the kind checked here, and the analytics kernel, thermal models and spatial
inference are numerical code over reals. Authentication, sessions and the assistant's
authorization are kept out of this project. `PROJECT.json` gives the reason for each
component, and for each hazard that no property covers yet: a restored SQLite copy, reads
that span both stores, rebuilt rollups that late samples outdate, connection lists
computed outside the lock of the secrets, lost notifications of verified runs, and the
limit of the follow-ups. Of the flag `caughtUp` the purge that relies on it is modelled,
the routes that show it are not.
