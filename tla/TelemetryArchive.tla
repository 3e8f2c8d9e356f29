-------------------------- MODULE TelemetryArchive --------------------------
(***************************************************************************)
(* The telemetry archive pipeline of apps/api: the SQLite write buffer     *)
(* with its triggers, the TelemetryArchiveWorker that copies it into       *)
(* TimescaleDB (live flush, reconciliation cycle, retries, stop), the      *)
(* durable store it writes to, and the two callers of the local retention  *)
(* purge.                                                                  *)
(*                                                                         *)
(* A row is identified by its natural key.  Its contents are abstracted to *)
(* the number of the ingestion that wrote them: `writes` is that counter,  *)
(* and it also stands for the AUTOINCREMENT sequences of the row ids and   *)
(* dirty ids and for the worker's queue ids, of which only the order is    *)
(* ever used.  An action is one stretch of code between two awaits, or a   *)
(* part of one where splitting it only adds interleavings; a call to the   *)
(* store takes effect when its answer arrives, or when it is lost.         *)
(***************************************************************************)
EXTENDS Integers, FiniteSets, FiniteSetsExt

CONSTANTS
    Key,            \* natural keys of telemetry rows
    Synthetic,      \* keys whose source is "mock" or "replay"
    NumTables,      \* tables 1..NumTables, in the order a pass visits them
    TableOf,        \* [Key -> 1..NumTables]
    LiveTable,      \* measurement_samples, the table the bus also feeds
    MutableTable,   \* tables whose rows can be updated in place
    Projection,     \* [SUBSET Key -> Key]: a reading and its measurement
    Compactable,    \* keys old enough, and not the latest of their series
    BatchSize,      \* rows of a page, samples of a batch
    MaxQueued,      \* samples the live queue holds
    Collisions,     \* TRUE: a reading may meet a measurement already stored
    MaxWrites,      \* bound on ingestions
    MaxFaults       \* bound on lost answers, crashes and shutdowns

Real == Key \ Synthetic
Table == 1..NumTables

ASSUME KeyAssumption == IsFiniteSet(Key) /\ Synthetic \subseteq Key
                        /\ Compactable \subseteq Key
ASSUME TableAssumption == /\ NumTables \in Nat \ {0}
                          /\ TableOf \in [Key -> Table]
                          /\ LiveTable \in Table
                          /\ MutableTable \subseteq Table \ {LiveTable}
ASSUME ProjectionAssumption ==
    \A r \in DOMAIN Projection :
        /\ r \in Real /\ TableOf[r] # LiveTable
        /\ Projection[r] \in Real /\ TableOf[Projection[r]] = LiveTable
ASSUME BoundAssumption == /\ BatchSize \in Nat \ {0} /\ MaxQueued \in Nat \ {0}
                          /\ MaxWrites \in Nat /\ MaxFaults \in Nat
                          /\ Collisions \in BOOLEAN

VARIABLES
    \* SQLite, durable
    local,          \* [Key -> revision held by the row, 0 when there is none]
    rowId,          \* [Key -> archive row id, 0 when there is no row]
    dirty,          \* [Key -> pending revision record, Clean when none]
    localCkpt,      \* [Table -> highest row id known to be archived]
    realMode,       \* the one-way latch from demo to real telemetry
    \* TimescaleDB, durable
    archive,        \* [Key -> revision held by the archive, 0 when none]
    remoteCkpt,     \* [Table -> archive_checkpoints.last_row_id]
    boundaryRecorded, \* archive_source_state holds the activation time
    \* worker status and timers
    phase, caughtUp, startState, stopping, enforced, timer, wake,
    \* live queue and live flush
    queue, flying, live, liveLeft,
    \* reconciliation cycle
    cycle, table, cursor, last, sent, stamp, before, joined,
    \* TelemetryRetentionWorker
    retention,
    \* bounds
    writes, faults

sqlite   == <<local, rowId, dirty, localCkpt, realMode>>
store    == <<archive, remoteCkpt, boundaryRecorded>>
status   == <<phase, caughtUp>>
lifetime == <<startState, stopping>>
queueing == <<queue, flying, live, liveLeft>>
page     == <<cursor, last, sent, stamp>>
bounds   == <<writes, faults>>
vars     == <<sqlite, store, status, lifetime, enforced, timer, wake, queueing,
              cycle, table, page, before, joined, retention, bounds>>

-----------------------------------------------------------------------------
(* SQLite rows, triggers and queries *)

Clean == [id |-> 0, version |-> 0]
NoRows == [k \in Key |-> 0]
NoStamps == [k \in Key |-> Clean]
Dirty == {k \in Key : dirty[k] # Clean}
Rows(t) == {k \in Key : local[k] # 0 /\ TableOf[k] = t}

\* Slip: an update that leaves no pending revision.
PutUntracked(keys) ==
    /\ local' = [k \in Key |-> IF k \in keys THEN writes + 1 ELSE local[k]]
    /\ rowId' = [k \in Key |-> IF k \in keys /\ local[k] = 0 THEN writes + 1 ELSE rowId[k]]
    /\ UNCHANGED dirty

\* One transaction that inserts the keys without a row and updates the others.
\* An update leaves, or bumps, the pending revision of its row.
Put(keys) ==
    /\ local' = [k \in Key |-> IF k \in keys THEN writes + 1 ELSE local[k]]
    /\ rowId' = [k \in Key |-> IF k \in keys /\ local[k] = 0 THEN writes + 1 ELSE rowId[k]]
    /\ dirty' = [k \in Key |->
                   IF k \notin keys \/ local[k] = 0 THEN dirty[k]
                   ELSE IF dirty[k] = Clean THEN [id |-> writes + 1, version |-> 1]
                   ELSE [dirty[k] EXCEPT !.version = @ + 1]]

\* Deleting a row also deletes its archive row id and its pending revision.
Delete(keys) ==
    /\ local' = [k \in Key |-> IF k \in keys THEN 0 ELSE local[k]]
    /\ rowId' = [k \in Key |-> IF k \in keys THEN 0 ELSE rowId[k]]
    /\ dirty' = [k \in Key |-> IF k \in keys THEN Clean ELSE dirty[k]]

\* Slip: a purge that forgets the watermark.
PurgeUnarchived == \E cut \in SUBSET Compactable : Delete({k \in cut : local[k] # 0})

\* purgeReadingsBefore: old rows at or below the local watermark of their table.
Purge == \E cut \in SUBSET Compactable :
            Delete({k \in cut : local[k] # 0 /\ rowId[k] <= localCkpt[TableOf[k]]})

\* telemetryArchiveStateToken
Highest(S) == IF S = {} THEN 0 ELSE Max(S)
Token == [rows     |-> [t \in Table |-> Highest({rowId[k] : k \in Rows(t)})],
          count    |-> Cardinality(Dirty),
          max      |-> Highest({dirty[k].id : k \in Dirty}),
          versions |-> MapThenSumSet(LAMBDA k : dirty[k].version, Key)]

NoToken == [rows |-> [t \in Table |-> 0], count |-> 0, max |-> 0, versions |-> 0]

\* "ORDER BY id LIMIT n": B holds the n lowest-ranked members of S.
Lowest(B, S, n, rank) ==
    /\ B \subseteq S
    /\ Cardinality(B) = IF Cardinality(S) < n THEN Cardinality(S) ELSE n
    /\ \A b \in B, s \in S \ B : rank[b] < rank[s]

-----------------------------------------------------------------------------
(* Worker helpers *)

\* start(): subscribes to the bus and initialises the store, once.
Start == /\ phase' = "starting"
         /\ startState' = "pending"

\* reconcileNow(): joins the cycle that runs, or begins one.
ReconcileNow ==
    IF cycle # "none" THEN joined' = TRUE /\ UNCHANGED <<cycle, status, wake>>
    ELSE IF stopping THEN UNCHANGED <<cycle, joined, status, wake>>
    ELSE /\ cycle' = "awaitFlush"
         /\ wake' = FALSE
         /\ caughtUp' = FALSE
         /\ phase' = IF phase = "ready" THEN "syncing" ELSE phase
         /\ UNCHANGED joined

\* The cycle's promise settles; its local variables are gone.
EndCycle == /\ cycle' = "none" /\ table' = 1 /\ cursor' = 0 /\ last' = 0
            /\ sent' = NoRows /\ stamp' = NoStamps /\ before' = NoToken /\ joined' = FALSE

\* Slip: a failure that is recorded but not retried.
DegradeSilently == phase' = "degraded" /\ caughtUp' = FALSE /\ UNCHANGED timer

\* #recordFailure and #schedule(retry), as every failure path but one does them.
Degrade == /\ phase' = "degraded"
           /\ caughtUp' = FALSE
           /\ timer' = TRUE

\* The queue bound drops the oldest sample that is not being written.
Trim(q) == {e \in q : \/ Cardinality(q) <= MaxQueued
                      \/ e \in flying
                      \/ \E f \in q \ flying : f.id < e.id}

\* #enqueue, the worker's bus listener, for the revision being ingested.
Publish(k) ==
    IF phase = "idle" \/ stopping \/ (realMode /\ k \in Synthetic)
    THEN UNCHANGED <<queue, status, wake>>
    ELSE /\ queue' = Trim(queue \cup {[id |-> writes + 1, key |-> k]})
         /\ caughtUp' = FALSE
         /\ phase' = IF phase = "ready" THEN "syncing" ELSE phase
         /\ wake' = (wake \/ phase # "degraded")

\* Slip: a latch that leaves the queue alone.
KeptWhole == queue

\* #discardSyntheticQueueInRealMode
Retained == IF realMode THEN {e \in queue : e.key \notin Synthetic} ELSE queue

QueueRank(q) == [e \in q |-> e.id]

\* The archive once the batch or page in flight has been upserted.
Landed == [k \in Key |->
             IF \E e \in flying : e.key = k
             THEN (CHOOSE e \in flying : e.key = k).id
             ELSE IF sent[k] # 0 THEN sent[k] ELSE archive[k]]

\* PostgreSQL refuses one INSERT .. ON CONFLICT DO UPDATE that proposes the
\* same natural key twice.
Accepted == \A e, f \in flying : e.key = f.key => e = f

\* Slip: a boundary that deletes rows of any source.
WithoutAnyRow(D) == IF D = {} THEN archive ELSE NoRows

WithoutSynthetic(D) == [k \in Key |-> IF k \in D THEN 0 ELSE archive[k]]
Advanced == [remoteCkpt EXCEPT ![table] = IF @ < last THEN last ELSE @]

\* What a call whose answer never arrived may have left in the store.
LostAnswer ==
    \/ UNCHANGED store
    \/ /\ flying # {} \/ cycle \in {"page", "dirty"}
       /\ Accepted
       /\ archive' = Landed
       /\ UNCHANGED <<remoteCkpt, boundaryRecorded>>
    \/ /\ cycle = "checkpoint"
       /\ remoteCkpt' = Advanced
       /\ UNCHANGED <<archive, boundaryRecorded>>
    \/ /\ cycle = "boundary" /\ ~boundaryRecorded
       /\ \E D \in SUBSET Synthetic :
            /\ archive' = WithoutSynthetic(D)
            /\ boundaryRecorded' \in {FALSE, D = Synthetic}
       /\ UNCHANGED remoteCkpt

-----------------------------------------------------------------------------
(* Ingestion: what fills the SQLite buffer and feeds the bus *)

Init ==
    /\ local = NoRows /\ rowId = NoRows /\ dirty = NoStamps
    /\ localCkpt = [t \in Table |-> 0] /\ realMode = FALSE
    /\ archive = NoRows /\ remoteCkpt = [t \in Table |-> 0] /\ boundaryRecorded = FALSE
    /\ phase = "idle" /\ caughtUp = FALSE /\ startState = "none" /\ stopping = FALSE
    /\ enforced = FALSE /\ timer = FALSE /\ wake = FALSE
    /\ queue = {} /\ flying = {} /\ live = "none" /\ liveLeft = 0
    /\ cycle = "none" /\ table = 1 /\ cursor = 0 /\ last = 0
    /\ sent = NoRows /\ stamp = NoStamps /\ before = NoToken /\ joined = FALSE
    /\ retention = "idle"
    /\ writes = 0 /\ faults = 0

\* Demo sources are refused in real mode; a real row is stored in real mode.
Admitted(k) == (k \in Synthetic) <=> ~realMode

CountWrite == writes < MaxWrites /\ writes' = writes + 1 /\ UNCHANGED faults

\* Slip: a sample that SQLite ignored is published all the same.
IngestPublished(k) ==
    /\ CountWrite
    /\ TableOf[k] = LiveTable /\ Admitted(k)
    /\ Put({j \in {k} : local[j] = 0})
    /\ Publish(k)
    /\ UNCHANGED <<localCkpt, realMode, store, lifetime, enforced, timer, flying, live,
                   liveLeft, cycle, table, page, before, joined, retention>>

\* MeasurementService.ingestBatch: what SQLite ignored is not published.
IngestSample(k) ==
    /\ CountWrite
    /\ TableOf[k] = LiveTable /\ Admitted(k) /\ local[k] = 0
    /\ Put({k})
    /\ Publish(k)
    /\ UNCHANGED <<localCkpt, realMode, store, lifetime, enforced, timer, flying, live,
                   liveLeft, cycle, table, page, before, joined, retention>>

\* TelemetryService.ingestBatch: a new reading projects a measurement, which
\* SQLite ignores if it is already stored, and publishes it in any case.
IngestReading(r) ==
    /\ CountWrite
    /\ r \in DOMAIN Projection /\ Admitted(r) /\ local[r] = 0
    /\ LET m == Projection[r]
       IN /\ local[m] = 0 \/ Collisions
          /\ Put(IF local[m] = 0 THEN {r, m} ELSE {r})
          /\ Publish(m)
    /\ UNCHANGED <<localCkpt, realMode, store, lifetime, enforced, timer, flying, live,
                   liveLeft, cycle, table, page, before, joined, retention>>

\* Rows that never reach the queue: legacy projections (ingestLegacyProjection)
\* are upserted and left to the next scheduled pass.
StoreRow(k) ==
    /\ CountWrite
    /\ TableOf[k] # LiveTable /\ Admitted(k)
    /\ local[k] = 0 \/ TableOf[k] \in MutableTable
    /\ Put({k})
    /\ UNCHANGED <<localCkpt, realMode, store, status, lifetime, enforced, timer, wake,
                   queueing, cycle, table, page, before, joined, retention>>

\* Imports, recovered gaps and external feeds: stored, then reconcileNow().
Import(k) ==
    /\ CountWrite
    /\ k \in Real /\ Admitted(k)
    /\ local[k] = 0 \/ TableOf[k] \in MutableTable
    /\ Put({k})
    /\ ReconcileNow
    /\ UNCHANGED <<localCkpt, realMode, store, lifetime, enforced, timer, queueing,
                   table, page, before, retention>>

\* ReplayEngine publishes demo samples that were never stored.
Replay(k) ==
    /\ CountWrite
    /\ k \in Synthetic /\ TableOf[k] = LiveTable /\ ~realMode
    /\ Collisions \/ \A e \in queue : e.key # k
    /\ Publish(k)
    /\ UNCHANGED <<sqlite, store, lifetime, enforced, timer, flying, live, liveLeft,
                   cycle, table, page, before, joined, retention>>

\* activateRealDataMode and the listener enforceRealDataBoundary().  The first
\* real row latches the mode in its own transaction; here the latch is the step
\* just before that row.
ActivateRealDataMode ==
    /\ ~realMode
    /\ realMode' = TRUE
    /\ Delete(Synthetic)
    /\ enforced' = FALSE
    /\ ReconcileNow
    /\ UNCHANGED <<localCkpt, store, lifetime, timer, queueing, table, page, before,
                   retention, bounds>>

Ingest == \/ \E k \in Key : \/ IngestSample(k) \/ IngestReading(k) \/ StoreRow(k)
                            \/ Import(k) \/ Replay(k)
          \/ ActivateRealDataMode

-----------------------------------------------------------------------------
(* Starting, timers, stopping *)

Startup ==
    /\ phase = "idle" /\ startState = "none"
    /\ Start
    /\ UNCHANGED <<sqlite, store, caughtUp, stopping, enforced, timer, wake, queueing,
                   cycle, table, page, before, joined, retention, bounds>>

\* #initialize: the store answered.  A worker stopped meanwhile stays stopped.
InitializeOK ==
    /\ startState = "pending"
    /\ startState' = "done"
    /\ IF stopping THEN UNCHANGED <<status, wake, cycle, joined>>
       ELSE IF cycle # "none"
       THEN phase' = "syncing" /\ joined' = TRUE /\ UNCHANGED <<caughtUp, wake, cycle>>
       ELSE /\ phase' = "syncing" /\ caughtUp' = FALSE
            /\ cycle' = "awaitFlush" /\ wake' = FALSE
            /\ UNCHANGED joined
    /\ UNCHANGED <<sqlite, store, stopping, enforced, timer, queueing, table, page,
                   before, retention, bounds>>

\* #initialize: the store failed; a flush or cycle that awaits the start fails too.
InitializeFails ==
    /\ startState = "pending" /\ faults < MaxFaults
    /\ faults' = faults + 1
    /\ startState' = "none"
    /\ phase' = "degraded" /\ caughtUp' = FALSE
    /\ timer' = ~stopping
    /\ cycle' = IF cycle = "awaitStart" \/ (cycle = "awaitFlush" /\ live = "awaitStart")
                THEN "none" ELSE cycle
    /\ live' = IF live = "awaitStart" THEN "none" ELSE live
    /\ liveLeft' = IF live = "awaitStart" THEN 0 ELSE liveLeft
    /\ UNCHANGED <<sqlite, store, stopping, enforced, wake, queue, flying, table, page,
                   before, joined, retention, writes>>

\* The retry or reconcile timer of #schedule.
TimerFires ==
    /\ timer
    /\ timer' = FALSE
    /\ IF phase = "degraded" /\ startState = "none"
       THEN Start /\ UNCHANGED <<caughtUp, stopping, wake, cycle, joined>>
       ELSE ReconcileNow /\ UNCHANGED lifetime
    /\ UNCHANGED <<sqlite, store, enforced, queueing, table, page, before, retention,
                   bounds>>

\* The coalesced wake of #enqueue, and #startLiveFlush.
WakeFires ==
    /\ wake
    /\ wake' = FALSE
    /\ IF phase = "degraded" \/ queue = {} \/ cycle # "none" \/ live # "none"
       THEN UNCHANGED <<live, liveLeft>>
       ELSE live' = "awaitStart" /\ liveLeft' = Cardinality(queue)
    /\ UNCHANGED <<sqlite, store, status, lifetime, enforced, timer, queue, flying, cycle,
                   table, page, before, joined, retention, bounds>>

\* stop(): timers are cleared, what is in flight runs to its next check.
Stop ==
    /\ ~stopping /\ faults < MaxFaults
    /\ faults' = faults + 1
    /\ stopping' = TRUE
    /\ phase' = "stopped" /\ caughtUp' = FALSE
    /\ timer' = FALSE /\ wake' = FALSE
    /\ UNCHANGED <<sqlite, store, startState, enforced, queueing, cycle, table, page,
                   before, joined, retention, writes>>

\* Everything the process held is gone; SQLite and the archive stay.
Reboot ==
    /\ phase' = "idle" /\ caughtUp' = FALSE /\ startState' = "none" /\ stopping' = FALSE
    /\ enforced' = FALSE /\ timer' = FALSE /\ wake' = FALSE
    /\ queue' = {} /\ flying' = {} /\ live' = "none" /\ liveLeft' = 0
    /\ EndCycle
    /\ retention' = "idle"
    /\ UNCHANGED <<sqlite, writes>>

Crash == /\ faults < MaxFaults /\ faults' = faults + 1
         /\ LostAnswer
         /\ Reboot

\* A stopped process exits once its operations ended, and is started again.
Restart == /\ stopping /\ cycle = "none" /\ live = "none"
           /\ Reboot
           /\ UNCHANGED <<store, faults>>

-----------------------------------------------------------------------------
(* Live flush: #startLiveFlush, #flushLiveQueue, #flushQueuedSamples *)

\* Slip: a flush that forgets the samples that arrived while it ran.
LiveContinueOnce(q, left) ==
    \E batch \in SUBSET q :
        /\ Lowest(batch, q, IF left < BatchSize THEN left ELSE BatchSize, QueueRank(q))
        /\ flying' = batch
        /\ IF batch # {}
           THEN live' = "drain" /\ liveLeft' = left /\ UNCHANGED <<status, wake>>
           ELSE /\ live' = "none" /\ liveLeft' = 0 /\ UNCHANGED wake
                /\ IF ~stopping /\ q = {} /\ cycle = "none"
                   THEN phase' = "ready" /\ caughtUp' = TRUE
                   ELSE UNCHANGED status

\* Sends the next batch of the queue q, at most `left` samples, or ends the
\* flush.  A flush that emptied the queue with no cycle about declares the
\* worker ready; one that left samples behind asks for another wake.
LiveContinue(q, left) ==
    \E batch \in SUBSET q :
        /\ Lowest(batch, q, IF left < BatchSize THEN left ELSE BatchSize, QueueRank(q))
        /\ flying' = batch
        /\ IF batch # {}
           THEN /\ live' = "drain" /\ liveLeft' = left
                /\ UNCHANGED <<status, wake>>
           ELSE /\ live' = "none" /\ liveLeft' = 0
                /\ IF ~stopping /\ q = {} /\ cycle = "none"
                   THEN phase' = "ready" /\ caughtUp' = TRUE
                   ELSE UNCHANGED status
                /\ wake' = (wake \/ (~stopping /\ q # {} /\ cycle = "none"))

LiveUnchanged == UNCHANGED <<sqlite, lifetime, enforced, cycle, table, page, before,
                             joined, retention>>

LiveStarted ==
    /\ live = "awaitStart" /\ startState = "done"
    /\ IF stopping THEN live' = "none" /\ liveLeft' = 0 /\ UNCHANGED <<flying, status, wake>>
       ELSE LiveContinue(queue, liveLeft)
    /\ LiveUnchanged
    /\ UNCHANGED <<store, timer, queue, bounds>>

LiveWriteOK ==
    /\ live = "drain" /\ Accepted
    /\ archive' = Landed
    /\ queue' = queue \ flying
    /\ LiveContinue(queue \ flying, liveLeft - Cardinality(flying))
    /\ LiveUnchanged
    /\ UNCHANGED <<remoteCkpt, boundaryRecorded, timer, bounds>>

\* The flush fails; a cycle that awaits it fails with it.
LiveEnds ==
    /\ flying' = {} /\ live' = "none" /\ liveLeft' = 0
    /\ IF stopping THEN UNCHANGED <<status, timer>> ELSE Degrade
    /\ cycle' = "none" /\ joined' = FALSE
    /\ UNCHANGED <<sqlite, lifetime, enforced, wake, queue, table, page, before,
                   retention, writes>>

LiveWriteFails == /\ live = "drain" /\ faults < MaxFaults /\ faults' = faults + 1
                  /\ LostAnswer
                  /\ LiveEnds

LiveWriteRejected == /\ live = "drain" /\ ~Accepted
                     /\ LiveEnds
                     /\ UNCHANGED <<store, faults>>

-----------------------------------------------------------------------------
(* Reconciliation cycle: #reconcileAfterLiveFlush and #reconcile *)

CycleUnchanged == UNCHANGED <<sqlite, lifetime, enforced, timer, wake, live, liveLeft,
                              retention>>

\* The live flush is over; the cycle awaits the start, or starts the worker.
CycleBegins ==
    /\ cycle = "awaitFlush" /\ live = "none"
    /\ IF startState # "none"
       THEN cycle' = "awaitStart" /\ UNCHANGED <<phase, startState>>
       ELSE IF stopping
       THEN cycle' = "none" /\ UNCHANGED <<phase, startState>>
       ELSE Start /\ cycle' = "awaitStart"
    /\ UNCHANGED <<sqlite, store, caughtUp, stopping, enforced, timer, wake, queueing,
                   table, page, before, joined, retention, bounds>>

CycleStarted ==
    /\ cycle = "awaitStart" /\ startState = "done"
    /\ cycle' = "pass"
    /\ CycleUnchanged
    /\ UNCHANGED <<store, status, queue, flying, table, page, before, joined, bounds>>

\* Sends the next batch of the queue q, or turns to the first table.
CycleDrain(q) ==
    \E batch \in SUBSET q :
        /\ Lowest(batch, q, BatchSize, QueueRank(q))
        /\ flying' = batch
        /\ cycle' = IF batch # {} THEN "drain" ELSE "cursor"

PassStart ==
    /\ cycle = "pass"
    /\ IF stopping
       THEN EndCycle /\ UNCHANGED <<phase, queue, flying>>
       ELSE /\ phase' = "syncing"
            /\ joined' = FALSE
            /\ before' = Token
            /\ queue' = Retained
            /\ CycleDrain(Retained)
            /\ table' = 1
            /\ UNCHANGED page
    /\ CycleUnchanged
    /\ UNCHANGED <<store, caughtUp, bounds>>

DrainOK ==
    /\ cycle = "drain" /\ Accepted
    /\ archive' = Landed
    /\ queue' = queue \ flying
    /\ CycleDrain(queue \ flying)
    /\ CycleUnchanged
    /\ UNCHANGED <<remoteCkpt, boundaryRecorded, status, table, page, before, joined,
                   bounds>>

\* #reconcileTable: the cursor is the lower of the remote and local checkpoints.
CursorOK ==
    /\ cycle = "cursor"
    /\ cycle' = "scan"
    /\ cursor' = IF remoteCkpt[table] < localCkpt[table] THEN remoteCkpt[table]
                 ELSE localCkpt[table]
    /\ CycleUnchanged
    /\ UNCHANGED <<store, status, queue, flying, table, last, sent, stamp, before, joined,
                   bounds>>

\* Slips: one table too many, one too few.
PastLastTable == IF table <= NumTables THEN table' = table + 1 /\ cycle' = "cursor"
                 ELSE table' = 1 /\ cycle' = "dirtyScan"
SkipLastTable == IF table < NumTables - 1 THEN table' = table + 1 /\ cycle' = "cursor"
                 ELSE table' = 1 /\ cycle' = "dirtyScan"

\* After a table, the next one; after the last, the pending revisions.
NextTable == IF table < NumTables THEN table' = table + 1 /\ cycle' = "cursor"
             ELSE table' = 1 /\ cycle' = "dirtyScan"

Beyond == {k \in Rows(table) : rowId[k] > cursor}

Scan ==
    /\ cycle = "scan"
    /\ IF stopping \/ Beyond = {}
       THEN NextTable /\ UNCHANGED page
       ELSE \E rows \in SUBSET Beyond, newest \in Beyond :
            /\ Lowest(rows, Beyond, BatchSize, rowId)
            /\ newest \in rows /\ \A k \in rows : rowId[k] <= rowId[newest]
            /\ last' = rowId[newest]
            /\ sent' = [k \in Key |-> IF k \in rows THEN local[k] ELSE 0]
            /\ cycle' = "page"
            /\ UNCHANGED <<table, cursor, stamp>>
    /\ CycleUnchanged
    /\ UNCHANGED <<store, status, queue, flying, before, joined, bounds>>

PageOK ==
    /\ cycle = "page"
    /\ archive' = Landed
    /\ cycle' = "checkpoint"
    /\ CycleUnchanged
    /\ UNCHANGED <<remoteCkpt, boundaryRecorded, status, queue, flying, table, page,
                   before, joined, bounds>>

\* Both checkpoints advance, the local one when the remote answer arrives.
CheckpointOK ==
    /\ cycle = "checkpoint"
    /\ remoteCkpt' = Advanced
    /\ localCkpt' = [localCkpt EXCEPT ![table] = IF @ < last THEN last ELSE @]
    /\ cursor' = last
    /\ sent' = NoRows
    /\ IF Cardinality({k \in Key : sent[k] # 0}) < BatchSize THEN NextTable
       ELSE cycle' = "scan" /\ UNCHANGED table
    /\ UNCHANGED <<local, rowId, dirty, realMode, archive, boundaryRecorded, status,
                   lifetime, enforced, timer, wake, queueing, last, stamp, before, joined,
                   retention, bounds>>

Pending == {k \in Dirty : TableOf[k] = table}

\* #flushDirtyTable reads a page of pending revisions with their current rows.
DirtyScan ==
    /\ cycle = "dirtyScan"
    /\ IF stopping \/ Pending = {}
       THEN /\ IF table < NumTables THEN table' = table + 1 /\ UNCHANGED cycle
               ELSE table' = 1 /\ cycle' = "settle"
            /\ UNCHANGED page
       ELSE \E rows \in SUBSET Pending :
            /\ Lowest(rows, Pending, BatchSize, [k \in Key |-> dirty[k].id])
            /\ sent' = [k \in Key |-> IF k \in rows THEN local[k] ELSE 0]
            /\ stamp' = [k \in Key |-> IF k \in rows THEN dirty[k] ELSE Clean]
            /\ cycle' = "dirty"
            /\ UNCHANGED <<table, cursor, last>>
    /\ CycleUnchanged
    /\ UNCHANGED <<store, status, queue, flying, before, joined, bounds>>

\* Slip: an acknowledgement that compares ids and not versions.
DirtyOKById ==
    /\ cycle = "dirty"
    /\ archive' = Landed
    /\ dirty' = [k \in Key |-> IF dirty[k].id = stamp[k].id THEN Clean ELSE dirty[k]]
    /\ sent' = NoRows /\ stamp' = NoStamps
    /\ cycle' = "dirtyScan"
    /\ UNCHANGED <<local, rowId, localCkpt, realMode, remoteCkpt, boundaryRecorded, status,
                   lifetime, enforced, timer, wake, queueing, table, cursor, last, before,
                   joined, retention, bounds>>

\* Only the versions that were sent are acknowledged.
DirtyOK ==
    /\ cycle = "dirty"
    /\ archive' = Landed
    /\ dirty' = [k \in Key |-> IF dirty[k] = stamp[k] THEN Clean ELSE dirty[k]]
    /\ sent' = NoRows /\ stamp' = NoStamps
    /\ cycle' = "dirtyScan"
    /\ UNCHANGED <<local, rowId, localCkpt, realMode, remoteCkpt, boundaryRecorded, status,
                   lifetime, enforced, timer, wake, queueing, table, cursor, last, before,
                   joined, retention, bounds>>

\* The demo-to-real boundary is the last archive mutation of a pass.
Settle ==
    /\ cycle = "settle"
    /\ IF realMode /\ ~enforced
       THEN cycle' = "boundary" /\ queue' = Retained
       ELSE cycle' = "end" /\ UNCHANGED queue
    /\ CycleUnchanged
    /\ UNCHANGED <<store, status, flying, table, page, before, joined, bounds>>

BoundaryOK ==
    /\ cycle = "boundary"
    /\ archive' = IF boundaryRecorded THEN archive ELSE WithoutSynthetic(Synthetic)
    /\ boundaryRecorded' = TRUE
    /\ enforced' = TRUE
    /\ cycle' = "end"
    /\ UNCHANGED <<sqlite, remoteCkpt, status, lifetime, timer, wake, queueing, table,
                   page, before, joined, retention, bounds>>

\* Slip: a pass that does not look at the queue again.
PassUnchanged == ~joined /\ Token = before

\* A pass during which nothing changed ends the cycle and may purge SQLite;
\* any other pass is followed by one more.
PassQuiet == ~joined /\ Token = before /\ queue = {}

PassEnds ==
    /\ cycle = "end"
    /\ IF stopping THEN EndCycle /\ UNCHANGED <<local, rowId, dirty, status, timer>>
       ELSE IF PassQuiet
       THEN /\ Purge
            /\ phase' = "ready" /\ caughtUp' = TRUE /\ timer' = TRUE
            /\ EndCycle
       ELSE /\ cycle' = "pass"
            /\ UNCHANGED <<local, rowId, dirty, status, timer, table, page, before, joined>>
    /\ UNCHANGED <<localCkpt, realMode, store, lifetime, enforced, wake, queueing,
                   retention, bounds>>

CycleFailed ==
    /\ flying' = {}
    /\ IF stopping THEN UNCHANGED <<status, timer>> ELSE Degrade
    /\ EndCycle
    /\ UNCHANGED <<sqlite, lifetime, enforced, wake, queue, live, liveLeft, retention,
                   writes>>

CallFails ==
    /\ cycle \in {"drain", "cursor", "page", "checkpoint", "dirty", "boundary"}
    /\ faults < MaxFaults /\ faults' = faults + 1
    /\ LostAnswer
    /\ CycleFailed

DrainRejected ==
    /\ cycle = "drain" /\ ~Accepted
    /\ CycleFailed
    /\ UNCHANGED <<store, faults>>

-----------------------------------------------------------------------------
(* TelemetryRetentionWorker.runOnce *)

RetentionUnchanged == UNCHANGED <<localCkpt, realMode, store, lifetime, enforced, timer,
                                  queueing, table, page, before, bounds>>

\* A worker that reports itself caught up is asked for one more pass; with
\* pending revisions that is all, otherwise the purge follows the pass.
RetentionWake ==
    /\ retention = "idle" /\ phase = "ready" /\ caughtUp
    /\ retention' = IF Dirty = {} THEN "waiting" ELSE "idle"
    /\ ReconcileNow
    /\ RetentionUnchanged /\ UNCHANGED <<local, rowId, dirty>>

RetentionResumes ==
    /\ retention = "waiting" /\ cycle = "none"
    /\ retention' = "idle"
    /\ IF phase = "ready" /\ caughtUp /\ Dirty = {} THEN Purge
       ELSE UNCHANGED <<local, rowId, dirty>>
    /\ RetentionUnchanged /\ UNCHANGED <<status, wake, cycle, joined>>

-----------------------------------------------------------------------------
(* Specification *)

LiveFlush == LiveStarted \/ LiveWriteOK \/ LiveWriteRejected
Cycle == \/ CycleBegins \/ CycleStarted \/ PassStart \/ DrainOK \/ DrainRejected
         \/ CursorOK \/ Scan \/ PageOK \/ CheckpointOK \/ DirtyScan \/ DirtyOK
         \/ Settle \/ BoundaryOK \/ PassEnds
Scheduling == Startup \/ InitializeOK \/ TimerFires \/ WakeFires
Fault == InitializeFails \/ Stop \/ Crash \/ LiveWriteFails \/ CallFails

Next == \/ Ingest \/ Scheduling \/ Restart \/ LiveFlush \/ Cycle
        \/ RetentionWake \/ RetentionResumes \/ Fault

Spec == Init /\ [][Next]_vars

\* Timers fire, the store answers and a stopped process is started again;
\* nothing makes ingestion, retention or a fault happen.
Fairness == /\ WF_vars(Startup) /\ WF_vars(InitializeOK)
            /\ WF_vars(TimerFires) /\ WF_vars(WakeFires)
            /\ WF_vars(LiveFlush) /\ WF_vars(Cycle) /\ WF_vars(Restart)
FairSpec == Spec /\ Fairness

-----------------------------------------------------------------------------
(* Properties *)

QueueEntry == [id : 1..MaxWrites, key : Key]
Revision == [id : Nat, version : Nat]
Stage == {"none", "awaitFlush", "awaitStart", "pass", "drain", "cursor", "scan", "page",
          "checkpoint", "dirtyScan", "dirty", "settle", "boundary", "end"}

Phase == {"idle", "starting", "syncing", "ready", "degraded", "stopped"}

BufferType == /\ local \in [Key -> Nat] /\ rowId \in [Key -> Nat]
              /\ dirty \in [Key -> Revision]
              /\ localCkpt \in [Table -> Nat] /\ realMode \in BOOLEAN
StoreType == /\ archive \in [Key -> Nat] /\ remoteCkpt \in [Table -> Nat]
             /\ boundaryRecorded \in BOOLEAN
WorkerType == /\ phase \in Phase /\ startState \in {"none", "pending", "done"}
              /\ caughtUp \in BOOLEAN /\ stopping \in BOOLEAN /\ enforced \in BOOLEAN
              /\ timer \in BOOLEAN /\ wake \in BOOLEAN
QueueType == /\ queue \subseteq QueueEntry /\ IsFiniteSet(queue)
             /\ flying \subseteq QueueEntry /\ IsFiniteSet(flying)
             /\ live \in {"none", "awaitStart", "drain"} /\ liveLeft \in Int
CycleType == /\ cycle \in Stage /\ table \in Table /\ joined \in BOOLEAN
             /\ cursor \in Nat /\ last \in Nat
             /\ sent \in [Key -> Nat] /\ stamp \in [Key -> Revision]
CountType == /\ retention \in {"idle", "waiting"}
             /\ writes \in 0..MaxWrites /\ faults \in 0..MaxFaults

\* Every variable holds a value of its kind.
TypeOK == BufferType /\ StoreType /\ WorkerType /\ QueueType /\ CycleType /\ CountType

\* Whatever a local checkpoint covers and no pending revision awaits is in the
\* archive with the contents SQLite holds: what every purge of the buffer, and
\* every reader that trusts the watermark, relies on.
Checkpointed(k) == local[k] # 0 /\ rowId[k] <= localCkpt[TableOf[k]] /\ dirty[k] = Clean
CheckpointSound == \A k \in Real : Checkpointed(k) => archive[k] = local[k]

\* Once the archive has recorded the demo-to-real boundary it holds no demo
\* row, whatever was queued or on the wire when the mode was latched.
BoundaryHolds == boundaryRecorded => \A k \in Synthetic : archive[k] = 0

\* A worker that was started and not stopped always has something scheduled
\* that will make it reconcile again: a timer, a start, or a cycle.
NeverStalled == (phase # "idle" /\ ~stopping)
                    => (timer \/ startState = "pending" \/ cycle # "none")

\* A queued sample always has a carrier: a wake, a flush, a cycle, a
\* start, or, while the worker is degraded, the retry timer.
QueueServed == (queue # {} /\ ~stopping)
                    => \/ wake \/ live # "none" \/ cycle # "none"
                       \/ startState = "pending"
                       \/ phase = "degraded" /\ timer

\* The measurements that an ignored sample may overwrite in the archive: those
\* that readings project, where a reading may meet one already stored.
Contested == IF Collisions THEN {Projection[r] : r \in DOMAIN Projection} ELSE {}
Uncontested == Real \ Contested

\* The archive never returns to an older revision of a real row that no ignored
\* sample can overwrite, whatever call is lost or retried.
NeverRegresses == [][\A k \in Uncontested : archive'[k] >= archive[k]]_vars

\* A pending revision is dropped only when the archive holds what SQLite holds.
AcknowledgedIsArchived ==
    [][\A k \in Real : (dirty[k] # Clean /\ dirty'[k] = Clean)
                            => archive'[k] = local[k]]_vars

\* Local rows purged by retention live on in the archive, and nothing else
\* changes what was recorded: the pipeline implements the abstract history.
recorded == [k \in Real |-> IF local[k] # 0 THEN local[k] ELSE archive[k]]
History == INSTANCE TelemetryHistory WITH RealKey <- Real, history <- recorded
KeepsHistory == History!Spec

\* However lost answers, crashes and shutdowns interleave, the archive again
\* and again holds everything the buffer holds.
CatchesUp == []<>(\A k \in Real : local[k] # 0 => archive[k] = local[k])

\* After the last fault the worker is again and again ready: no failure leaves
\* it degraded for good.
Recovers == []<>(phase = "ready")

-----------------------------------------------------------------------------
(* The inductive invariant behind CheckpointSound, BoundaryHolds and           *)
(* KeepsHistory.  What it says of archived contents, it says of the            *)
(* uncontested keys.                                                           *)

\* Ids never run ahead of their sequences; only stored rows are pending.
RowsTracked ==
    /\ \A k \in Key : /\ rowId[k] <= writes
                      /\ dirty[k].id <= writes
                      /\ dirty[k] # Clean => dirty[k].id # 0 /\ local[k] # 0
    /\ \A t \in Table : localCkpt[t] <= writes
    /\ before.max \in 0..writes

\* A live flush and a cycle never write together, and what is recorded as in
\* flight is in flight.
OneWriter ==
    /\ live # "none" => cycle \in {"none", "awaitFlush"}
    /\ flying \subseteq queue
    /\ flying # {} => live = "drain" \/ cycle = "drain"
    /\ cycle \notin {"page", "checkpoint", "dirty"} => sent = NoRows
    /\ cycle # "dirty" => stamp = NoStamps

\* A queued real sample is what SQLite stored.
QueueFresh == \A e \in queue : e.key \in Uncontested =>
                  TableOf[e.key] = LiveTable /\ local[e.key] = e.id

\* A purge after a pass or a retention wake finds nothing queued.
CaughtUpQuiet == caughtUp => queue = {} /\ cycle = "none"

\* The rows between the cursor and the end of the page.
Covered(k) == /\ TableOf[k] = table /\ local[k] # 0
              /\ cursor < rowId[k] /\ rowId[k] <= last

\* A page in flight, then in the archive, holds every row it will checkpoint,
\* unless an update that came meanwhile left a pending revision.
PageSound ==
    /\ cycle \in {"scan", "page", "checkpoint"} => cursor <= localCkpt[table]
    /\ cycle \in {"page", "checkpoint"} => last <= writes
    /\ cycle = "page" => \A k \in Real :
           /\ Covered(k) => sent[k] # 0
           /\ sent[k] # 0 => local[k] # 0 /\ (dirty[k] = Clean => sent[k] = local[k])
    /\ cycle = "checkpoint" => \A k \in Uncontested :
           Covered(k) /\ dirty[k] = Clean => archive[k] = local[k]

\* A revision in flight is current as long as its version is.
RevisionSound ==
    cycle = "dirty" => \A k \in Real :
        /\ sent[k] # 0 => stamp[k] # Clean
        /\ stamp[k] # Clean => /\ stamp[k].id # 0 /\ dirty[k].id = stamp[k].id
                               /\ dirty[k].version >= stamp[k].version
                               /\ dirty[k] = stamp[k] => sent[k] = local[k]

\* What is still pending in the tables the pass has flushed came after its
\* token was taken, so an unchanged token means that nothing is pending.
PendingNew ==
    (cycle \in {"dirtyScan", "dirty", "settle", "boundary", "end"} /\ ~stopping) =>
        \A k \in Dirty : (cycle \in {"dirtyScan", "dirty"} => TableOf[k] < table)
                             => dirty[k].id > before.max

\* In real mode SQLite holds no demo row, and once the boundary is recorded
\* none is queued, on the wire or archived.
DemoGone ==
    /\ realMode => \A k \in Synthetic : local[k] = 0
    /\ (boundaryRecorded \/ cycle = "boundary") =>
           realMode /\ \A e \in queue : e.key \notin Synthetic
    /\ boundaryRecorded => \A k \in Synthetic : archive[k] = 0 /\ sent[k] = 0

\* What CheckpointSound says, of the keys whose archived contents can be trusted.
UncontestedSound == \A k \in Uncontested : Checkpointed(k) => archive[k] = local[k]

ArchiveInvariant ==
    /\ RowsTracked /\ OneWriter /\ QueueFresh /\ CaughtUpQuiet
    /\ PageSound /\ RevisionSound /\ PendingNew
    /\ UncontestedSound /\ DemoGone

-----------------------------------------------------------------------------
(* The strengthenings behind the other theorems *)

\* What was ingested is ordered: the archive never runs ahead of SQLite, and
\* what is on the wire lies between the two.
RevisionOrder ==
    \A k \in Uncontested :
        /\ local[k] <= writes /\ archive[k] <= writes
        /\ local[k] # 0 => archive[k] <= local[k]
        /\ sent[k] # 0 /\ cycle \in {"page", "dirty"} =>
               archive[k] <= sent[k] /\ sent[k] <= local[k]

\* A real key that no purge takes reaches the archive from SQLite only: until a
\* row is stored it is neither archived, nor on the wire, nor queued.
StoredFirst ==
    \A k \in Real \ Compactable : local[k] = 0 =>
        archive[k] = 0 /\ sent[k] = 0 /\ \A e \in queue : e.key # k

\* Nothing is queued or flushed in a process whose worker never started.
IdleFresh == phase = "idle" => queue = {} /\ live = "none"

\* The worker is always scheduled and the queue always carried.
ScheduleInvariant == IdleFresh /\ NeverStalled /\ QueueServed
=============================================================================
