----------------------- MODULE TelemetryArchiveProofs -----------------------
EXTENDS TelemetryArchiveTypes

-----------------------------------------------------------------------------
(* What the actions do, grouped for the proof of the invariant *)

Early == {"none", "awaitFlush", "awaitStart", "pass"}

\* Nothing but scheduling: the rows, the archive and the pass stay as they are.
Quiet == /\ UNCHANGED <<local, rowId, dirty, localCkpt, realMode, store, queue, flying,
                        table, page, before, writes>>
         /\ cycle' = cycle \/ (cycle \in Early /\ cycle' \in Early)
         /\ live' # "none" => cycle' \in {"none", "awaitFlush"}
         /\ live = "drain" => live' = "drain"
         /\ caughtUp' => caughtUp /\ cycle' = cycle
         /\ stopping' = stopping \/ stopping'

\* One transaction on the buffer; the live ones may be queued, a cycle may begin.
Stored(keys) ==
    /\ Put(keys) /\ writes' = writes + 1
    /\ \A j \in keys : /\ TableOf[j] = LiveTable => local[j] = 0
                       /\ j \in Synthetic => ~realMode
    /\ flying \subseteq queue'
    /\ \A e \in queue' \ queue :
           /\ e.id = writes + 1 /\ TableOf[e.key] = LiveTable
           /\ e.key \in keys \/ (e.key \in Real \ Uncontested /\ local[e.key] # 0)
    /\ caughtUp' => caughtUp /\ queue' = queue /\ cycle' = cycle
    /\ UNCHANGED <<localCkpt, realMode, store, stopping, flying, live, table, page, before>>
    /\ cycle' = cycle \/ (cycle = "none" /\ cycle' = "awaitFlush")

LEMMA UncontestedKey ==
    /\ Uncontested \subseteq Real /\ Real \subseteq Key
    /\ Real \cap Synthetic = {}
BY DEF Uncontested, Real

LEMMA ReconcileEffect ==
    ASSUME ReconcileNow
    PROVE  /\ cycle' = cycle \/ (cycle = "none" /\ cycle' = "awaitFlush")
           /\ caughtUp' => caughtUp /\ cycle' = cycle
BY Zenon DEF ReconcileNow, status

LEMMA PublishEffect ==
    ASSUME NEW k \in Key, Publish(k), flying \subseteq queue
    PROVE  /\ flying \subseteq queue'
           /\ queue' \subseteq queue \cup {[id |-> writes + 1, key |-> k]}
           /\ caughtUp' => caughtUp /\ queue' = queue
BY DEF Publish, Trim, status

LEMMA IngestEffect ==
    ASSUME TypeOK, ArchiveInvariant, NEW k \in Key,
           IngestSample(k) \/ IngestReading(k) \/ StoreRow(k) \/ Import(k)
    PROVE  \E keys \in SUBSET Key : Stored(keys)
<1>0. flying \subseteq queue
  BY DEF ArchiveInvariant, OneWriter
<1>1. CASE IngestSample(k)
  <2>1. (k \in Synthetic => ~realMode) /\ local[k] = 0 /\ Put({k}) /\ TableOf[k] = LiveTable
    BY <1>1, Zenon DEF IngestSample, Admitted
  <2>2. Publish(k)
    BY <1>1 DEF IngestSample
  <2>3. Stored({k})
    BY <1>0, <1>1, <2>1, <2>2, PublishEffect DEF IngestSample, Stored, CountWrite, lifetime
  <2> QED BY <2>3
<1>2. CASE IngestReading(k)
  <2> DEFINE m == Projection[k]
  <2>1. /\ m \in Key /\ k \notin Synthetic /\ m \notin Synthetic
        /\ TableOf[k] # LiveTable /\ TableOf[m] = LiveTable
    BY <1>2, ProjectionAssumption DEF IngestReading, Real
  <2>2. CASE local[m] = 0
    <3>1. Put({k, m}) /\ Publish(m)
      BY <1>2, <2>2 DEF IngestReading
    <3>2. Stored({k, m})
      BY <1>0, <1>2, <2>1, <2>2, <3>1, PublishEffect
      DEF IngestReading, Stored, CountWrite, lifetime
    <3> QED BY <2>1, <3>2
  <2>3. CASE local[m] # 0
    <3>1. Put({k}) /\ Publish(m) /\ m \in Real \ Uncontested
      BY <1>2, <2>1, <2>3 DEF IngestReading, Contested, Uncontested, Real
    <3>2. Stored({k})
      BY <1>0, <1>2, <2>1, <2>3, <3>1, PublishEffect
      DEF IngestReading, Stored, CountWrite, lifetime
    <3> QED BY <3>2
  <2> QED BY <2>2, <2>3
<1>3. CASE StoreRow(k)
  <2>1. (k \in Synthetic => ~realMode) /\ TableOf[k] # LiveTable /\ Put({k})
    BY <1>3, Zenon DEF StoreRow, Admitted
  <2>2. Stored({k})
    BY <1>0, <1>3, <2>1 DEF StoreRow, Stored, CountWrite, lifetime, queueing, status
  <2> QED BY <2>2
<1>4. CASE Import(k)
  <2>1. k \notin Synthetic /\ (TableOf[k] = LiveTable => local[k] = 0)
    BY <1>4, TableAssumption DEF Import, Real
  <2>2. Stored({k})
    BY <1>0, <1>4, <2>1, ReconcileEffect DEF Import, Stored, CountWrite, lifetime, queueing
  <2> QED BY <2>2
<1> QED BY <1>1, <1>2, <1>3, <1>4

LEMMA QuietEffect ==
    ASSUME TypeOK, ArchiveInvariant,
           \/ Startup \/ InitializeOK \/ TimerFires \/ WakeFires \/ Stop
           \/ InitializeFails \/ CycleBegins \/ CycleStarted \/ RetentionWake
    PROVE  Quiet
<1>0. /\ live # "none" => cycle \in {"none", "awaitFlush"}
      /\ caughtUp => cycle = "none"
  BY DEF ArchiveInvariant, OneWriter, CaughtUpQuiet
<1>1. CASE Startup
  BY <1>0, <1>1 DEF Startup, Start, Quiet, sqlite, queueing, bounds
<1>2. CASE InitializeOK
  BY <1>0, <1>2 DEF InitializeOK, Quiet, Early, sqlite, queueing, bounds, status
<1>3. CASE TimerFires
  BY <1>0, <1>3, ReconcileEffect
  DEF TimerFires, Start, Quiet, Early, sqlite, queueing, bounds, lifetime
<1>4. CASE WakeFires
  BY <1>0, <1>4 DEF WakeFires, Quiet, sqlite, bounds, lifetime, status
<1>5. CASE Stop
  BY <1>0, <1>5 DEF Stop, Quiet, sqlite, queueing
<1>6. CASE InitializeFails
  BY <1>0, <1>6 DEF InitializeFails, Quiet, Early, sqlite
<1>7. CASE CycleBegins
  BY <1>0, <1>7 DEF CycleBegins, Start, Quiet, Early, sqlite, queueing, bounds
<1>8. CASE CycleStarted
  BY <1>0, <1>8 DEF CycleStarted, CycleUnchanged, Quiet, Early, sqlite, bounds, lifetime, status
<1>9. CASE RetentionWake
  BY <1>0, <1>9, ReconcileEffect
  DEF RetentionWake, RetentionUnchanged, Quiet, Early, sqlite, queueing, bounds, lifetime
<1> QED BY <1>1, <1>2, <1>3, <1>4, <1>5, <1>6, <1>7, <1>8, <1>9

\* A write that lands changes an uncontested row of the archive only where SQLite
\* has a row, and to its contents unless a newer revision is pending.
LEMMA LandedSound ==
    ASSUME TypeOK, ArchiveInvariant, cycle # "checkpoint", NEW k \in Uncontested,
           Landed[k] # archive[k]
    PROVE  local[k] # 0 /\ (dirty[k] = Clean => Landed[k] = local[k])
<1>0. k \in Key
  BY UncontestedKey
<1>1. CASE \E e \in flying : e.key = k
  <2>1. PICK e \in flying : e.key = k /\ Landed[k] = e.id
    BY <1>0, <1>1 DEF Landed
  <2>2. e \in queue /\ e.id \in 1..MaxWrites
    BY <2>1 DEF ArchiveInvariant, OneWriter, TypeOK, QueueType, QueueEntry
  <2> QED BY <2>1, <2>2, BoundAssumption DEF ArchiveInvariant, QueueFresh
<1>2. CASE ~\E e \in flying : e.key = k
  <2>1. Landed[k] = sent[k] /\ sent[k] # 0
    BY <1>0, <1>2 DEF Landed
  <2>2. cycle \in {"page", "dirty"}
    BY <1>0, <2>1 DEF ArchiveInvariant, OneWriter, NoRows
  <2>3. CASE cycle = "page"
    BY <2>1, <2>3, UncontestedKey DEF ArchiveInvariant, PageSound
  <2>4. CASE cycle = "dirty"
    BY <1>0, <2>1, <2>4, UncontestedKey
    DEF ArchiveInvariant, RevisionSound, RowsTracked, Clean
  <2> QED BY <2>2, <2>3, <2>4
<1> QED BY <1>1, <1>2

LEMMA LostAnswerSound ==
    ASSUME TypeOK, ArchiveInvariant, LostAnswer, NEW k \in Uncontested, archive'[k] # archive[k]
    PROVE  local[k] # 0 /\ (dirty[k] = Clean => archive'[k] = local[k])
<1>1. CASE UNCHANGED store
  BY <1>1 DEF store
<1>2. CASE (flying # {} \/ cycle \in {"page", "dirty"}) /\ archive' = Landed
  <2>1. cycle # "checkpoint"
    BY <1>2 DEF ArchiveInvariant, OneWriter
  <2> QED BY <1>2, <2>1, LandedSound
<1>3. CASE UNCHANGED archive
  BY <1>3
<1>4. ASSUME NEW D \in SUBSET Synthetic, archive' = WithoutSynthetic(D) PROVE FALSE
  BY <1>4, UncontestedKey DEF WithoutSynthetic
<1> QED BY <1>1, <1>2, <1>3, <1>4 DEF LostAnswer

\* Where the purge may run nothing is pending, so every purged real row is
\* archived with its contents.
LEMMA PurgeSound ==
    ASSUME TypeOK, ArchiveInvariant, Purge, Dirty = {}, NEW k \in Uncontested,
           local'[k] # local[k]
    PROVE  local'[k] = 0 /\ archive[k] = local[k]
<1>0. k \in Key
  BY UncontestedKey
<1>1. PICK cut \in SUBSET Compactable :
         Delete({j \in cut : local[j] # 0 /\ rowId[j] <= localCkpt[TableOf[j]]})
  BY DEF Purge
<1>2. local'[k] = 0 /\ local[k] # 0 /\ rowId[k] <= localCkpt[TableOf[k]]
  BY <1>0, <1>1 DEF Delete
<1>3. dirty[k] = Clean
  BY <1>0 DEF Dirty
<1> QED BY <1>2, <1>3 DEF ArchiveInvariant, UncontestedSound, Checkpointed

\* An unchanged token proves that nothing is pending.
LEMMA HighestBound ==
    ASSUME NEW n \in Nat, NEW S \in SUBSET (0..n)
    PROVE  Highest(S) \in 0..n /\ \A x \in S : x <= Highest(S)
<1>1. CASE S = {}
  BY <1>1 DEF Highest
<1>2. CASE S # {}
  BY <1>2, BoundedMax DEF Highest
<1> QED BY <1>1, <1>2

LEMMA DirtyMax ==
    ASSUME TypeOK, ArchiveInvariant
    PROVE  /\ Highest({dirty[k].id : k \in Dirty}) \in 0..writes
           /\ \A k \in Dirty : dirty[k].id <= Highest({dirty[j].id : j \in Dirty})
<1> DEFINE S == {dirty[k].id : k \in Dirty}
<1>1. writes \in Nat
  BY BoundAssumption DEF TypeOK, CountType
<1>2. S \in SUBSET (0..writes)
  BY <1>1 DEF TypeOK, BufferType, Revision, Dirty, ArchiveInvariant, RowsTracked
<1> HIDE DEF S
<1>3. Highest(S) \in 0..writes /\ \A x \in S : x <= Highest(S)
  BY <1>1, <1>2, HighestBound
<1> QED BY <1>3 DEF S

LEMMA QuietPassIsClean ==
    ASSUME TypeOK, ArchiveInvariant, cycle = "end", ~stopping, PassQuiet
    PROVE  Dirty = {}
<1>1. Token.max = before.max
  BY DEF PassQuiet
<1>2. before.max = Highest({dirty[k].id : k \in Dirty})
  BY <1>1 DEF Token
<1>3. ASSUME NEW k \in Dirty PROVE FALSE
  <2>1. dirty[k].id > before.max
    BY <1>3 DEF ArchiveInvariant, PendingNew
  <2>2. dirty[k].id <= before.max
    BY <1>2, DirtyMax
  <2>3. dirty[k].id \in Nat /\ before.max \in Nat
    BY DEF TypeOK, BufferType, Revision, Dirty, ArchiveInvariant, RowsTracked, CountType
  <2> QED BY <2>1, <2>2, <2>3
<1> QED BY <1>3

-----------------------------------------------------------------------------
(* Each step keeps the invariant *)

LEMMA Domains ==
    ASSUME TypeOK
    PROVE  /\ local \in [Key -> Nat] /\ rowId \in [Key -> Nat] /\ dirty \in [Key -> Revision]
           /\ localCkpt \in [Table -> Nat] /\ archive \in [Key -> Nat] /\ writes \in Nat
           /\ table \in Table /\ cursor \in Nat /\ last \in Nat
           /\ sent \in [Key -> Nat] /\ stamp \in [Key -> Revision]
BY BoundAssumption DEF TypeOK, BufferType, StoreType, CycleType, CountType

LEMMA LandedDemo ==
    ASSUME TypeOK, ArchiveInvariant, boundaryRecorded, NEW k \in Synthetic
    PROVE  Landed[k] = 0
BY KeyAssumption DEF ArchiveInvariant, DemoGone, OneWriter, Landed

LEMMA LostAnswerDemo ==
    ASSUME TypeOK, ArchiveInvariant, LostAnswer, boundaryRecorded'
    PROVE  /\ realMode /\ \A e \in queue : e.key \notin Synthetic
           /\ \A k \in Synthetic : archive'[k] = 0
<1>1. CASE boundaryRecorded
  <2>1. \A k \in Synthetic : archive[k] = 0 /\ Landed[k] = 0
    BY <1>1, LandedDemo DEF ArchiveInvariant, DemoGone
  <2>2. \A k \in Synthetic : archive'[k] = 0
    BY <1>1, <2>1 DEF LostAnswer, store
  <2> QED BY <1>1, <2>2 DEF ArchiveInvariant, DemoGone
<1>2. CASE ~boundaryRecorded
  <2>1. cycle = "boundary" /\ archive' = WithoutSynthetic(Synthetic)
    BY <1>2 DEF LostAnswer, store
  <2> QED BY <2>1, KeyAssumption DEF ArchiveInvariant, DemoGone, WithoutSynthetic
<1> QED BY <1>1, <1>2

\* When a call is lost, or the archive written, a checkpointed row stays archived.
LEMMA StillCheckpointed ==
    ASSUME TypeOK, ArchiveInvariant, UNCHANGED <<local, rowId, dirty, localCkpt>>,
           LostAnswer \/ (archive' = Landed /\ cycle # "checkpoint")
    PROVE  UncontestedSound'
<1> SUFFICES ASSUME NEW k \in Uncontested, local[k] # 0, rowId[k] <= localCkpt[TableOf[k]], dirty[k] = Clean
             PROVE  archive'[k] = local[k]
  BY DEF UncontestedSound, Checkpointed
<1>1. archive[k] = local[k]
  BY DEF ArchiveInvariant, UncontestedSound, Checkpointed
<1>2. CASE LostAnswer
  BY <1>1, <1>2, LostAnswerSound
<1>3. CASE archive' = Landed /\ cycle # "checkpoint"
  BY <1>1, <1>3, LandedSound
<1> QED BY <1>2, <1>3

\* A purge removes whole rows and nothing else.
LEMMA PurgeEffect ==
    ASSUME Purge, NEW k \in Key
    PROVE  \/ local'[k] = 0 /\ rowId'[k] = 0 /\ dirty'[k] = Clean
           \/ local'[k] = local[k] /\ rowId'[k] = rowId[k] /\ dirty'[k] = dirty[k]
BY DEF Purge, Delete

\* A purge that finds nothing queued and no cycle in the middle of a pass keeps
\* what the invariant says of the rows.
LEMMA PurgeKeeps ==
    ASSUME TypeOK, ArchiveInvariant, Purge, UNCHANGED <<localCkpt, archive, writes>>
    PROVE  /\ \A k \in Key : /\ rowId'[k] <= writes /\ dirty'[k].id <= writes
                             /\ dirty'[k] # Clean => dirty'[k].id # 0 /\ local'[k] # 0
           /\ UncontestedSound'
           /\ realMode => \A k \in Synthetic : local'[k] = 0
<1>1. ASSUME NEW k \in Key
      PROVE  /\ rowId'[k] <= writes /\ dirty'[k].id <= writes
             /\ dirty'[k] # Clean => dirty'[k].id # 0 /\ local'[k] # 0
  <2>1. Clean.id = 0 /\ 0 <= writes
    BY Domains DEF Clean
  <2>2. /\ rowId[k] <= writes /\ dirty[k].id <= writes
        /\ dirty[k] # Clean => dirty[k].id # 0 /\ local[k] # 0
    BY DEF ArchiveInvariant, RowsTracked
  <2>3. CASE local'[k] = 0 /\ rowId'[k] = 0 /\ dirty'[k] = Clean
    BY <2>1, <2>3
  <2>4. CASE local'[k] = local[k] /\ rowId'[k] = rowId[k] /\ dirty'[k] = dirty[k]
    BY <2>2, <2>4
  <2> QED BY <2>3, <2>4, PurgeEffect
<1>2. UncontestedSound'
  BY PurgeEffect, UncontestedKey DEF ArchiveInvariant, UncontestedSound, Checkpointed
<1>3. realMode => \A k \in Synthetic : local'[k] = 0
  BY PurgeEffect, KeyAssumption DEF ArchiveInvariant, DemoGone
<1> QED BY <1>1, <1>2, <1>3

LEMMA StoredInvariant ==
    ASSUME TypeOK, ArchiveInvariant, NEW keys \in SUBSET Key, Stored(keys)
    PROVE  ArchiveInvariant'
<1>0. /\ local \in [Key -> Nat] /\ rowId \in [Key -> Nat] /\ dirty \in [Key -> Revision]
      /\ localCkpt \in [Table -> Nat] /\ writes \in Nat /\ last \in Nat
      /\ table \in Table /\ TableOf \in [Key -> Table]
  BY Domains, TableAssumption
<1>1. RowsTracked'
  <2>1. before.max \in Nat /\ before.max <= writes /\ writes' = writes + 1 /\ before' = before
    BY <1>0 DEF ArchiveInvariant, RowsTracked, Stored
  <2>2. \A k \in Key : rowId'[k] <= writes'
    BY <1>0 DEF ArchiveInvariant, RowsTracked, Stored, Put
  <2>3. \A k \in Key : dirty'[k].id <= writes' /\ (dirty'[k] # Clean => dirty'[k].id # 0 /\ local'[k] # 0)
    BY <1>0 DEF ArchiveInvariant, RowsTracked, Stored, Put, Clean, Revision
  <2>4. \A t \in Table : localCkpt'[t] <= writes'
    BY <1>0 DEF ArchiveInvariant, RowsTracked, Stored
  <2> QED BY <1>0, <2>1, <2>2, <2>3, <2>4 DEF RowsTracked
<1>2. OneWriter'
  BY DEF ArchiveInvariant, OneWriter, Stored, page
<1>3. QueueFresh'
  <2>1. ASSUME NEW e \in queue, e.key \in Uncontested
        PROVE  TableOf[e.key] = LiveTable /\ local'[e.key] = e.id
    <3>1. e.id \in 1..MaxWrites /\ e.key \in Key
      BY <2>1 DEF TypeOK, QueueType, QueueEntry
    <3>2. TableOf[e.key] = LiveTable /\ local[e.key] = e.id
      BY <2>1 DEF ArchiveInvariant, QueueFresh
    <3> QED BY <3>1, <3>2, BoundAssumption DEF Stored, Put
  <2>2. ASSUME NEW e \in queue' \ queue, e.key \in Uncontested
        PROVE  TableOf[e.key] = LiveTable /\ local'[e.key] = e.id
    BY <2>2, UncontestedKey DEF Stored, Put
  <2> QED BY <2>1, <2>2 DEF QueueFresh
<1>4. CaughtUpQuiet'
  BY DEF ArchiveInvariant, CaughtUpQuiet, Stored
<1>5. PageSound'
  <2>1. /\ cycle \in {"scan", "page", "checkpoint"} => cursor <= localCkpt[table]
        /\ cycle \in {"page", "checkpoint"} => last <= writes
        /\ cycle' = cycle \/ cycle' = "awaitFlush"
        /\ UNCHANGED <<cursor, last, table, localCkpt, sent, archive>> /\ writes' = writes + 1
    BY DEF ArchiveInvariant, PageSound, Stored, page, store
  <2>2. ASSUME NEW k \in Key, last <= writes, Covered(k)'
        PROVE  Covered(k) /\ (dirty'[k] = Clean => dirty[k] = Clean /\ local'[k] = local[k])
    BY <1>0, <2>1, <2>2 DEF Covered, Stored, Put, Clean, Revision
  <2>3. ASSUME NEW k \in Key, local[k] # 0
        PROVE  local'[k] # 0 /\ (dirty'[k] = Clean => dirty[k] = Clean /\ local'[k] = local[k])
    BY <1>0, <2>3 DEF Stored, Put, Clean, Revision
  <2>4. CASE cycle' = "page"
    BY <1>0, <2>1, <2>2, <2>3, <2>4 DEF ArchiveInvariant, PageSound, Real
  <2>5. CASE cycle' = "checkpoint"
    BY <1>0, <2>1, <2>2, <2>5, UncontestedKey DEF ArchiveInvariant, PageSound
  <2> QED BY <1>0, <2>1, <2>4, <2>5 DEF PageSound
<1>6. RevisionSound'
  <2> SUFFICES ASSUME cycle = "dirty", NEW k \in Real, stamp[k] # Clean
               PROVE  /\ dirty'[k].id = stamp[k].id /\ dirty'[k].version >= stamp[k].version
                      /\ dirty'[k] = stamp[k] => sent[k] = local'[k]
    BY DEF ArchiveInvariant, RevisionSound, Stored, page
  <2>1. k \in Key /\ stamp[k] \in Revision /\ dirty[k] \in Revision
    BY Domains DEF Real
  <2>2. /\ stamp[k].id # 0 /\ dirty[k].id = stamp[k].id /\ dirty[k].version >= stamp[k].version
        /\ dirty[k] = stamp[k] => sent[k] = local[k]
    BY DEF ArchiveInvariant, RevisionSound
  <2>3. dirty[k] # Clean /\ local[k] # 0
    BY <2>1, <2>2 DEF ArchiveInvariant, RowsTracked, Clean
  <2>4. CASE k \in keys
    <3>1. dirty'[k] = [dirty[k] EXCEPT !.version = @ + 1]
      BY <2>1, <2>3, <2>4 DEF Stored, Put
    <3> QED BY <2>1, <2>2, <3>1 DEF Revision
  <2>5. CASE k \notin keys
    BY <2>1, <2>2, <2>5 DEF Stored, Put
  <2> QED BY <2>4, <2>5
<1>7. PendingNew'
  <2>1. before.max \in Nat /\ before.max <= writes
    BY <1>0 DEF ArchiveInvariant, RowsTracked
  <2>2. ASSUME NEW k \in Key, dirty'[k] # Clean
        PROVE  dirty'[k].id > before.max \/ (dirty[k] # Clean /\ dirty'[k].id = dirty[k].id)
    BY <1>0, <2>1, <2>2 DEF Stored, Put, Revision, Clean
  <2> QED BY <2>1, <2>2 DEF ArchiveInvariant, PendingNew, Dirty, Stored
<1>8. UncontestedSound'
  <2> SUFFICES ASSUME NEW k \in Uncontested, local'[k] # 0, rowId'[k] <= localCkpt[TableOf[k]], dirty'[k] = Clean
               PROVE  archive[k] = local'[k]
    BY DEF UncontestedSound, Checkpointed, Stored, store
  <2>0. k \in Key
    BY UncontestedKey
  <2>1. CASE k \in keys
    <3>1. CASE local[k] = 0
      <4>1. rowId'[k] = writes + 1
        BY <2>0, <2>1, <3>1 DEF Stored, Put
      <4>2. TableOf[k] \in Table /\ localCkpt[TableOf[k]] \in Nat /\ localCkpt[TableOf[k]] <= writes
        BY <1>0, <2>0 DEF ArchiveInvariant, RowsTracked
      <4> QED BY <1>0, <4>1, <4>2
    <3>2. CASE local[k] # 0
      BY <1>0, <2>0, <2>1, <3>2 DEF Stored, Put, Clean, Revision
    <3> QED BY <3>1, <3>2
  <2>2. CASE k \notin keys
    BY <2>0, <2>2 DEF ArchiveInvariant, UncontestedSound, Checkpointed, Stored, Put
  <2> QED BY <2>1, <2>2
<1>9. DemoGone'
  BY KeyAssumption, UncontestedKey DEF ArchiveInvariant, DemoGone, Stored, Put, store, page
<1> QED BY <1>1, <1>2, <1>3, <1>4, <1>5, <1>6, <1>7, <1>8, <1>9 DEF ArchiveInvariant

LEMMA ReplayInvariant ==
    ASSUME TypeOK, ArchiveInvariant, NEW k \in Key, Replay(k)
    PROVE  ArchiveInvariant'
<1>0. /\ k \in Synthetic /\ ~realMode
      /\ UNCHANGED <<local, rowId, dirty, localCkpt, realMode, archive, boundaryRecorded, stopping, flying, live,
                     cycle, table, cursor, last, sent, stamp, before>>
      /\ writes' = writes + 1 /\ writes \in Nat
  BY Domains DEF Replay, CountWrite, sqlite, store, lifetime, page
<1>q. /\ flying \subseteq queue'
      /\ queue' \subseteq queue \cup {[id |-> writes + 1, key |-> k]}
      /\ caughtUp' => caughtUp /\ queue' = queue
  BY PublishEffect DEF Replay, ArchiveInvariant, OneWriter
<1>1. RowsTracked'
  <2>1. \A k_1 \in Key : rowId[k_1] \in Nat /\ dirty[k_1].id \in Nat
    BY Domains DEF Revision
  <2>2. (\A t \in Table : localCkpt[t] \in Nat) /\ before.max \in Nat
    BY Domains DEF ArchiveInvariant, RowsTracked
  <2> QED BY <1>0, <2>1, <2>2 DEF ArchiveInvariant, RowsTracked
<1>2. OneWriter'
  BY <1>0, <1>q DEF ArchiveInvariant, OneWriter
<1>3. QueueFresh'
  BY <1>0, <1>q, UncontestedKey DEF ArchiveInvariant, QueueFresh
<1>4. CaughtUpQuiet'
  BY <1>0, <1>q DEF ArchiveInvariant, CaughtUpQuiet
<1>5. PageSound'
  BY <1>0, Domains DEF ArchiveInvariant, PageSound, Covered
<1>6. RevisionSound'
  BY <1>0 DEF ArchiveInvariant, RevisionSound
<1>7. PendingNew'
  BY <1>0 DEF ArchiveInvariant, PendingNew, Dirty
<1>8. UncontestedSound'
  BY <1>0 DEF ArchiveInvariant, UncontestedSound, Checkpointed
<1>9. DemoGone'
  BY <1>0, <1>q DEF ArchiveInvariant, DemoGone
<1> QED BY <1>1, <1>2, <1>3, <1>4, <1>5, <1>6, <1>7, <1>8, <1>9 DEF ArchiveInvariant

LEMMA ActivateInvariant ==
    ASSUME TypeOK, ArchiveInvariant, ActivateRealDataMode
    PROVE  ArchiveInvariant'
<1>0. /\ \A k \in Real : /\ local'[k] = local[k] /\ rowId'[k] = rowId[k]
                         /\ dirty'[k] = dirty[k]
      /\ \A k \in Key : /\ rowId'[k] = 0 \/ rowId'[k] = rowId[k]
                        /\ dirty'[k] = Clean \/ (dirty'[k] = dirty[k] /\ local'[k] = local[k])
      /\ \A k \in Synthetic : local'[k] = 0
      /\ ~realMode /\ realMode' = TRUE
      /\ UNCHANGED <<localCkpt, archive, boundaryRecorded, stopping, queue, flying, live,
                     table, cursor, last, sent, stamp, before, writes>>
  BY KeyAssumption
  DEF ActivateRealDataMode, Delete, Real, store, lifetime, queueing, page, bounds, Clean
<1>c. /\ cycle' = cycle \/ (cycle = "none" /\ cycle' = "awaitFlush")
      /\ caughtUp' => caughtUp /\ cycle' = cycle
  BY ReconcileEffect DEF ActivateRealDataMode
<1>1. RowsTracked'
  <2>1. Clean.id = 0 /\ 0 <= writes
    BY Domains DEF Clean
  <2>2. ASSUME NEW k \in Key
        PROVE  /\ rowId'[k] <= writes /\ dirty'[k].id <= writes
               /\ dirty'[k] # Clean => dirty'[k].id # 0 /\ local'[k] # 0
    <3>1. /\ rowId[k] <= writes /\ dirty[k].id <= writes
          /\ dirty[k] # Clean => dirty[k].id # 0 /\ local[k] # 0
      BY DEF ArchiveInvariant, RowsTracked
    <3>2. rowId'[k] <= writes
      <4>1. rowId'[k] = 0 \/ rowId'[k] = rowId[k]
        BY <1>0
      <4> QED BY <2>1, <3>1, <4>1
    <3>3. CASE dirty'[k] = Clean
      BY <2>1, <3>2, <3>3
    <3>4. CASE dirty'[k] = dirty[k] /\ local'[k] = local[k]
      BY <3>1, <3>2, <3>4
    <3> QED BY <1>0, <3>3, <3>4
  <2> QED BY <1>0, <2>2 DEF ArchiveInvariant, RowsTracked
<1>2. OneWriter'
  BY <1>0, <1>c DEF ArchiveInvariant, OneWriter
<1>3. QueueFresh'
  BY <1>0, UncontestedKey DEF ArchiveInvariant, QueueFresh
<1>4. CaughtUpQuiet'
  BY <1>0, <1>c DEF ArchiveInvariant, CaughtUpQuiet
<1>5. PageSound'
  BY <1>0, <1>c, UncontestedKey DEF ArchiveInvariant, PageSound, Covered
<1>6. RevisionSound'
  BY <1>0, <1>c DEF ArchiveInvariant, RevisionSound
<1>7. PendingNew'
  BY <1>0, <1>c DEF ArchiveInvariant, PendingNew, Dirty
<1>8. UncontestedSound'
  BY <1>0, UncontestedKey DEF ArchiveInvariant, UncontestedSound, Checkpointed
<1>9. DemoGone'
  BY <1>0, <1>c DEF ArchiveInvariant, DemoGone
<1> QED BY <1>1, <1>2, <1>3, <1>4, <1>5, <1>6, <1>7, <1>8, <1>9 DEF ArchiveInvariant

LEMMA QuietInvariant ==
    ASSUME TypeOK, ArchiveInvariant, Quiet
    PROVE  ArchiveInvariant'
<1>1. RowsTracked'
  BY DEF ArchiveInvariant, RowsTracked, Clean, Quiet, Early
<1>2. OneWriter'
  BY DEF ArchiveInvariant, OneWriter, Quiet, Early, page
<1>3. QueueFresh'
  BY DEF ArchiveInvariant, QueueFresh, Quiet, Early
<1>4. CaughtUpQuiet'
  BY DEF ArchiveInvariant, CaughtUpQuiet, Quiet, Early
<1>5. PageSound'
  BY DEF ArchiveInvariant, PageSound, Covered, Quiet, Early, store, page
<1>6. RevisionSound'
  BY DEF ArchiveInvariant, RevisionSound, Quiet, Early, page
<1>7. PendingNew'
  BY DEF ArchiveInvariant, PendingNew, Dirty, Quiet, Early
<1>8. UncontestedSound'
  BY DEF ArchiveInvariant, UncontestedSound, Checkpointed, Quiet, Early, store
<1>9. DemoGone'
  BY DEF ArchiveInvariant, DemoGone, Quiet, Early, store, page
<1> QED BY <1>1, <1>2, <1>3, <1>4, <1>5, <1>6, <1>7, <1>8, <1>9 DEF ArchiveInvariant

LEMMA RebootInvariant ==
    ASSUME TypeOK, ArchiveInvariant, Reboot, LostAnswer
    PROVE  ArchiveInvariant'
<1>1. RowsTracked'
  BY Domains DEF ArchiveInvariant, RowsTracked, Reboot, EndCycle, NoToken, sqlite
<1>2. OneWriter'
  BY DEF ArchiveInvariant, OneWriter, Reboot, EndCycle
<1>3. QueueFresh'
  BY DEF ArchiveInvariant, QueueFresh, Reboot, EndCycle, sqlite
<1>4. CaughtUpQuiet'
  BY DEF ArchiveInvariant, CaughtUpQuiet, Reboot, EndCycle
<1>5. PageSound'
  BY DEF ArchiveInvariant, PageSound, Covered, Reboot, EndCycle, sqlite
<1>6. RevisionSound'
  BY DEF ArchiveInvariant, RevisionSound, Reboot, EndCycle, sqlite
<1>7. PendingNew'
  BY DEF ArchiveInvariant, PendingNew, Dirty, Reboot, EndCycle, sqlite
<1>8. UncontestedSound'
  BY StillCheckpointed DEF Reboot, sqlite
<1>9. DemoGone'
  BY LostAnswerDemo, KeyAssumption
  DEF ArchiveInvariant, DemoGone, Reboot, EndCycle, NoRows, sqlite
<1> QED BY <1>1, <1>2, <1>3, <1>4, <1>5, <1>6, <1>7, <1>8, <1>9 DEF ArchiveInvariant

LEMMA LiveStartedInvariant ==
    ASSUME TypeOK, ArchiveInvariant, LiveStarted
    PROVE  ArchiveInvariant'
<1>1. RowsTracked'
  BY DEF ArchiveInvariant, RowsTracked, Clean, LiveStarted, LiveContinue, LiveUnchanged,
      sqlite, bounds
<1>2. OneWriter'
  BY DEF ArchiveInvariant, OneWriter, LiveStarted, LiveContinue, LiveUnchanged, page
<1>3. QueueFresh'
  BY DEF ArchiveInvariant, QueueFresh, LiveStarted, LiveContinue, LiveUnchanged, sqlite
<1>4. CaughtUpQuiet'
  BY DEF ArchiveInvariant, CaughtUpQuiet, LiveStarted, LiveContinue, LiveUnchanged, status
<1>5. PageSound'
  <2>1. cycle' \notin {"scan", "page", "checkpoint"}
    BY DEF ArchiveInvariant, OneWriter, LiveStarted, LiveUnchanged
  <2> QED BY <2>1 DEF PageSound
<1>6. RevisionSound'
  BY DEF ArchiveInvariant, RevisionSound, LiveStarted, LiveContinue, LiveUnchanged, sqlite, page
<1>7. PendingNew'
  BY DEF ArchiveInvariant, PendingNew, Dirty, LiveStarted, LiveContinue, LiveUnchanged, sqlite,
      lifetime
<1>8. UncontestedSound'
  BY DEF ArchiveInvariant, UncontestedSound, Checkpointed, LiveStarted, LiveContinue, LiveUnchanged, sqlite,
      store
<1>9. DemoGone'
  BY DEF ArchiveInvariant, DemoGone, LiveStarted, LiveContinue, LiveUnchanged, sqlite, store,
      page
<1> QED BY <1>1, <1>2, <1>3, <1>4, <1>5, <1>6, <1>7, <1>8, <1>9 DEF ArchiveInvariant

LEMMA LiveWriteOKInvariant ==
    ASSUME TypeOK, ArchiveInvariant, LiveWriteOK
    PROVE  ArchiveInvariant'
<1>1. RowsTracked'
  BY DEF ArchiveInvariant, RowsTracked, Clean, LiveWriteOK, LiveContinue, LiveUnchanged,
      sqlite, bounds
<1>2. OneWriter'
  BY DEF ArchiveInvariant, OneWriter, LiveWriteOK, LiveContinue, LiveUnchanged, page
<1>3. QueueFresh'
  BY DEF ArchiveInvariant, QueueFresh, LiveWriteOK, LiveContinue, LiveUnchanged, sqlite
<1>4. CaughtUpQuiet'
  BY DEF ArchiveInvariant, CaughtUpQuiet, LiveWriteOK, LiveContinue, LiveUnchanged, status
<1>5. PageSound'
  <2>1. cycle' \notin {"scan", "page", "checkpoint"}
    BY DEF ArchiveInvariant, OneWriter, LiveWriteOK, LiveUnchanged
  <2> QED BY <2>1 DEF PageSound
<1>6. RevisionSound'
  BY DEF ArchiveInvariant, RevisionSound, LiveWriteOK, LiveContinue, LiveUnchanged, sqlite, page
<1>7. PendingNew'
  BY DEF ArchiveInvariant, PendingNew, Dirty, LiveWriteOK, LiveContinue, LiveUnchanged, sqlite,
      lifetime
<1>8. UncontestedSound'
  <2>1. cycle # "checkpoint"
    BY DEF ArchiveInvariant, OneWriter, LiveWriteOK
  <2> QED BY <2>1, StillCheckpointed DEF LiveWriteOK, LiveUnchanged, sqlite
<1>9. DemoGone'
  BY LandedDemo DEF ArchiveInvariant, DemoGone, LiveWriteOK, LiveUnchanged, sqlite, page
<1> QED BY <1>1, <1>2, <1>3, <1>4, <1>5, <1>6, <1>7, <1>8, <1>9 DEF ArchiveInvariant

LEMMA LiveEndsInvariant ==
    ASSUME TypeOK, ArchiveInvariant, LiveEnds, live = "drain", LostAnswer
    PROVE  ArchiveInvariant'
<1>1. RowsTracked'
  BY DEF ArchiveInvariant, RowsTracked, Clean, LiveEnds, Degrade, sqlite
<1>2. OneWriter'
  BY DEF ArchiveInvariant, OneWriter, LiveEnds, Degrade, page
<1>3. QueueFresh'
  BY DEF ArchiveInvariant, QueueFresh, LiveEnds, Degrade, sqlite
<1>4. CaughtUpQuiet'
  BY DEF ArchiveInvariant, CaughtUpQuiet, LiveEnds, Degrade, status
<1>5. PageSound'
  BY DEF ArchiveInvariant, PageSound, Covered, LiveEnds, Degrade, sqlite, page
<1>6. RevisionSound'
  BY DEF ArchiveInvariant, RevisionSound, LiveEnds, Degrade, sqlite, page
<1>7. PendingNew'
  BY DEF ArchiveInvariant, PendingNew, Dirty, LiveEnds, Degrade, sqlite, lifetime
<1>8. UncontestedSound'
  BY StillCheckpointed DEF LiveEnds, sqlite
<1>9. DemoGone'
  <2>1. cycle # "boundary" /\ sent = NoRows
    BY DEF ArchiveInvariant, OneWriter
  <2> QED BY <2>1, LostAnswerDemo, KeyAssumption
      DEF ArchiveInvariant, DemoGone, LiveEnds, NoRows, sqlite, page
<1> QED BY <1>1, <1>2, <1>3, <1>4, <1>5, <1>6, <1>7, <1>8, <1>9 DEF ArchiveInvariant

LEMMA PassStartInvariant ==
    ASSUME TypeOK, ArchiveInvariant, PassStart
    PROVE  ArchiveInvariant'
<1>1. RowsTracked'
  <2>1. UNCHANGED <<local, rowId, dirty, localCkpt, writes>>
    BY DEF PassStart, CycleUnchanged, sqlite, bounds
  <2>2. CASE stopping
    BY <2>1, <2>2, Domains DEF ArchiveInvariant, RowsTracked, PassStart, EndCycle, NoToken
  <2>3. CASE ~stopping
    BY <2>1, <2>3, DirtyMax DEF ArchiveInvariant, RowsTracked, PassStart, Token
  <2> QED BY <2>2, <2>3
<1>2. OneWriter'
  BY DEF ArchiveInvariant, OneWriter, PassStart, CycleDrain, CycleUnchanged, EndCycle, page
<1>3. QueueFresh'
  <2>1. queue' \subseteq queue
    BY DEF PassStart, Retained
  <2> QED BY <2>1 DEF ArchiveInvariant, QueueFresh, PassStart, CycleUnchanged, sqlite
<1>4. CaughtUpQuiet'
  BY DEF ArchiveInvariant, CaughtUpQuiet, PassStart, CycleDrain, CycleUnchanged, EndCycle
<1>5. PageSound'
  BY DEF ArchiveInvariant, PageSound, Covered, PassStart, CycleDrain, CycleUnchanged, EndCycle,
      sqlite, store, page, bounds
<1>6. RevisionSound'
  BY DEF ArchiveInvariant, RevisionSound, PassStart, CycleDrain, CycleUnchanged, EndCycle,
      sqlite, page
<1>7. PendingNew'
  BY DEF ArchiveInvariant, PendingNew, Dirty, PassStart, CycleDrain, CycleUnchanged, EndCycle,
      sqlite, lifetime
<1>8. UncontestedSound'
  BY DEF ArchiveInvariant, UncontestedSound, Checkpointed, PassStart, CycleDrain, CycleUnchanged, EndCycle,
      sqlite, store
<1>9. DemoGone'
  <2>1. queue' \subseteq queue /\ cycle' # "boundary"
    BY DEF PassStart, Retained, CycleDrain, EndCycle
  <2>2. UNCHANGED <<local, realMode, archive, boundaryRecorded>> /\ (sent' = sent \/ sent' = NoRows)
    BY DEF PassStart, CycleUnchanged, EndCycle, page, sqlite, store
  <2> QED BY <2>1, <2>2, KeyAssumption DEF ArchiveInvariant, DemoGone, NoRows
<1> QED BY <1>1, <1>2, <1>3, <1>4, <1>5, <1>6, <1>7, <1>8, <1>9 DEF ArchiveInvariant

LEMMA DrainOKInvariant ==
    ASSUME TypeOK, ArchiveInvariant, DrainOK
    PROVE  ArchiveInvariant'
<1>1. RowsTracked'
  BY DEF ArchiveInvariant, RowsTracked, Clean, DrainOK, CycleDrain, CycleUnchanged, sqlite,
      bounds
<1>2. OneWriter'
  BY DEF ArchiveInvariant, OneWriter, DrainOK, CycleDrain, CycleUnchanged, page
<1>3. QueueFresh'
  BY DEF ArchiveInvariant, QueueFresh, DrainOK, CycleDrain, CycleUnchanged, sqlite
<1>4. CaughtUpQuiet'
  BY DEF ArchiveInvariant, CaughtUpQuiet, DrainOK, CycleDrain, CycleUnchanged, status
<1>5. PageSound'
  BY DEF ArchiveInvariant, PageSound, Covered, DrainOK, CycleDrain, CycleUnchanged, sqlite,
      page, bounds
<1>6. RevisionSound'
  BY DEF ArchiveInvariant, RevisionSound, DrainOK, CycleDrain, CycleUnchanged, sqlite, page
<1>7. PendingNew'
  BY DEF ArchiveInvariant, PendingNew, Dirty, DrainOK, CycleDrain, CycleUnchanged, sqlite,
      lifetime
<1>8. UncontestedSound'
  BY StillCheckpointed DEF DrainOK, CycleUnchanged, sqlite
<1>9. DemoGone'
  <2>1. cycle' # "boundary" /\ queue' \subseteq queue
    BY DEF DrainOK, CycleDrain
  <2> QED BY <2>1, LandedDemo DEF ArchiveInvariant, DemoGone, DrainOK, CycleUnchanged, sqlite, page
<1> QED BY <1>1, <1>2, <1>3, <1>4, <1>5, <1>6, <1>7, <1>8, <1>9 DEF ArchiveInvariant

LEMMA CycleFailedInvariant ==
    ASSUME TypeOK, ArchiveInvariant, CycleFailed, LostAnswer
    PROVE  ArchiveInvariant'
<1>1. RowsTracked'
  BY Domains DEF ArchiveInvariant, RowsTracked, CycleFailed, EndCycle, NoToken, sqlite
<1>2. OneWriter'
  BY DEF ArchiveInvariant, OneWriter, CycleFailed, Degrade, EndCycle
<1>3. QueueFresh'
  BY DEF ArchiveInvariant, QueueFresh, CycleFailed, Degrade, EndCycle, sqlite
<1>4. CaughtUpQuiet'
  BY DEF ArchiveInvariant, CaughtUpQuiet, CycleFailed, Degrade, EndCycle, status
<1>5. PageSound'
  BY DEF ArchiveInvariant, PageSound, Covered, CycleFailed, Degrade, EndCycle, sqlite
<1>6. RevisionSound'
  BY DEF ArchiveInvariant, RevisionSound, CycleFailed, Degrade, EndCycle, sqlite
<1>7. PendingNew'
  BY DEF ArchiveInvariant, PendingNew, Dirty, CycleFailed, Degrade, EndCycle, sqlite, lifetime
<1>8. UncontestedSound'
  BY StillCheckpointed DEF CycleFailed, sqlite
<1>9. DemoGone'
  BY LostAnswerDemo, KeyAssumption
  DEF ArchiveInvariant, DemoGone, CycleFailed, EndCycle, NoRows, sqlite
<1> QED BY <1>1, <1>2, <1>3, <1>4, <1>5, <1>6, <1>7, <1>8, <1>9 DEF ArchiveInvariant

LEMMA CursorOKInvariant ==
    ASSUME TypeOK, ArchiveInvariant, CursorOK
    PROVE  ArchiveInvariant'
<1>1. RowsTracked'
  BY DEF ArchiveInvariant, RowsTracked, Clean, CursorOK, CycleUnchanged, sqlite, bounds
<1>2. OneWriter'
  BY DEF ArchiveInvariant, OneWriter, CursorOK, CycleUnchanged
<1>3. QueueFresh'
  BY DEF ArchiveInvariant, QueueFresh, CursorOK, CycleUnchanged, sqlite
<1>4. CaughtUpQuiet'
  BY DEF ArchiveInvariant, CaughtUpQuiet, CursorOK, CycleUnchanged, status
<1>5. PageSound'
  BY Domains
  DEF TypeOK, StoreType, ArchiveInvariant, PageSound, CursorOK, CycleUnchanged, sqlite
<1>6. RevisionSound'
  BY DEF ArchiveInvariant, RevisionSound, CursorOK, CycleUnchanged, sqlite
<1>7. PendingNew'
  BY DEF ArchiveInvariant, PendingNew, Dirty, CursorOK, CycleUnchanged, sqlite, lifetime
<1>8. UncontestedSound'
  BY DEF ArchiveInvariant, UncontestedSound, Checkpointed, CursorOK, CycleUnchanged, sqlite, store
<1>9. DemoGone'
  BY DEF ArchiveInvariant, DemoGone, CursorOK, CycleUnchanged, sqlite, store
<1> QED BY <1>1, <1>2, <1>3, <1>4, <1>5, <1>6, <1>7, <1>8, <1>9 DEF ArchiveInvariant

LEMMA ScanInvariant ==
    ASSUME TypeOK, ArchiveInvariant, Scan
    PROVE  ArchiveInvariant'
<1>0. /\ cycle = "scan" /\ cycle' \in {"page", "cursor", "dirtyScan"}
      /\ cycle' = "dirtyScan" => table' = 1
      /\ UNCHANGED <<local, rowId, dirty, localCkpt, realMode, archive, boundaryRecorded, stopping, writes,
                     queue, flying, live, before>>
      /\ cycle' # "page" => sent' = sent
  BY DEF Scan, NextTable, CycleUnchanged, sqlite, store, lifetime, bounds, page
<1>1. RowsTracked'
  BY DEF ArchiveInvariant, RowsTracked, Clean, Scan, NextTable, CycleUnchanged, sqlite, bounds
<1>2. OneWriter'
  BY DEF ArchiveInvariant, OneWriter, Scan, NextTable, CycleUnchanged, page
<1>3. QueueFresh'
  BY DEF ArchiveInvariant, QueueFresh, Scan, NextTable, CycleUnchanged, sqlite
<1>4. CaughtUpQuiet'
  BY DEF ArchiveInvariant, CaughtUpQuiet, Scan, NextTable, CycleUnchanged, status
<1>5. PageSound'
  <2> SUFFICES ASSUME cycle' = "page" PROVE PageSound'
    BY <1>0 DEF PageSound
  <2>1. PICK rows \in SUBSET Beyond, newest \in Beyond :
          /\ Lowest(rows, Beyond, BatchSize, rowId)
          /\ newest \in rows /\ \A k \in rows : rowId[k] <= rowId[newest]
          /\ last' = rowId[newest]
          /\ sent' = [k \in Key |-> IF k \in rows THEN local[k] ELSE 0]
          /\ UNCHANGED <<table, cursor, stamp>>
    BY DEF Scan, NextTable
  <2>2. \A b \in rows, k \in Beyond \ rows : rowId[b] < rowId[k]
    BY <2>1 DEF Lowest
  <2>3. cursor <= localCkpt[table] /\ rowId[newest] <= writes
    BY <1>0 DEF ArchiveInvariant, PageSound, RowsTracked, Beyond, Rows
  <2>4. ASSUME NEW k \in Key, Covered(k)' PROVE k \in rows
    <3>1. k \in Beyond /\ rowId[k] <= rowId[newest]
      BY <1>0, <2>1, <2>4 DEF Covered, Beyond, Rows
    <3>2. ~(rowId[newest] < rowId[k])
      BY <3>1, Domains DEF Beyond, Rows
    <3> QED BY <2>1, <2>2, <3>1, <3>2
  <2>5. \A k \in rows : k \in Key /\ local[k] # 0
    BY DEF Beyond, Rows
  <2>6. \A k \in Key : (Covered(k)' => sent'[k] # 0)
                      /\ (sent'[k] # 0 => local[k] # 0 /\ sent'[k] = local[k])
    BY <2>1, <2>4, <2>5
  <2> QED BY <1>0, <2>1, <2>3, <2>6 DEF PageSound, Real
<1>6. RevisionSound'
  BY DEF ArchiveInvariant, RevisionSound, Scan, NextTable, CycleUnchanged, sqlite, page
<1>7. PendingNew'
  BY <1>0, TableAssumption DEF ArchiveInvariant, PendingNew, Dirty, Table
<1>8. UncontestedSound'
  BY DEF ArchiveInvariant, UncontestedSound, Checkpointed, Scan, NextTable, CycleUnchanged, sqlite, store
<1>9. DemoGone'
  <2>1. \A k \in Synthetic : realMode => sent'[k] = 0 \/ sent'[k] = sent[k]
    BY KeyAssumption DEF Scan, NextTable, ArchiveInvariant, DemoGone, page
  <2> QED BY <1>0, <2>1 DEF ArchiveInvariant, DemoGone
<1> QED BY <1>1, <1>2, <1>3, <1>4, <1>5, <1>6, <1>7, <1>8, <1>9 DEF ArchiveInvariant

LEMMA PageOKInvariant ==
    ASSUME TypeOK, ArchiveInvariant, PageOK
    PROVE  ArchiveInvariant'
<1>1. RowsTracked'
  BY DEF ArchiveInvariant, RowsTracked, Clean, PageOK, CycleUnchanged, sqlite, bounds
<1>2. OneWriter'
  BY DEF ArchiveInvariant, OneWriter, PageOK, CycleUnchanged, page
<1>3. QueueFresh'
  BY DEF ArchiveInvariant, QueueFresh, PageOK, CycleUnchanged, sqlite
<1>4. CaughtUpQuiet'
  BY DEF ArchiveInvariant, CaughtUpQuiet, PageOK, CycleUnchanged, status
<1>5. PageSound'
  <2>1. cycle = "page" /\ flying = {} /\ cycle' = "checkpoint"
    BY DEF PageOK, ArchiveInvariant, OneWriter
  <2>2. \A k \in Real : sent[k] # 0 => archive'[k] = sent[k]
    BY <2>1 DEF PageOK, Landed, Real
  <2> QED BY <2>1, <2>2, UncontestedKey
      DEF ArchiveInvariant, PageSound, Covered, PageOK, CycleUnchanged, sqlite, page, bounds
<1>6. RevisionSound'
  BY DEF ArchiveInvariant, RevisionSound, PageOK, CycleUnchanged, sqlite, page
<1>7. PendingNew'
  BY DEF ArchiveInvariant, PendingNew, Dirty, PageOK, CycleUnchanged, sqlite, lifetime
<1>8. UncontestedSound'
  <2>1. cycle # "checkpoint" /\ UNCHANGED sqlite
    BY DEF PageOK, CycleUnchanged
  <2> QED BY <2>1, StillCheckpointed DEF PageOK, sqlite
<1>9. DemoGone'
  BY LandedDemo DEF ArchiveInvariant, DemoGone, PageOK, CycleUnchanged, sqlite, page
<1> QED BY <1>1, <1>2, <1>3, <1>4, <1>5, <1>6, <1>7, <1>8, <1>9 DEF ArchiveInvariant

LEMMA CheckpointOKInvariant ==
    ASSUME TypeOK, ArchiveInvariant, CheckpointOK
    PROVE  ArchiveInvariant'
<1>0. /\ cycle = "checkpoint" /\ cycle' \in {"scan", "cursor", "dirtyScan"}
      /\ cycle' = "dirtyScan" => table' = 1
      /\ cycle' = "scan" => table' = table
      /\ localCkpt' = [localCkpt EXCEPT ![table] = IF @ < last THEN last ELSE @]
      /\ cursor' = last /\ sent' = NoRows
      /\ UNCHANGED <<local, rowId, dirty, realMode, archive, boundaryRecorded, stopping, queue, flying, live,
                     before, writes, last>>
  BY DEF CheckpointOK, NextTable, status, lifetime, queueing, bounds
<1>t. /\ rowId \in [Key -> Nat] /\ localCkpt \in [Table -> Nat] /\ last \in Nat /\ cursor \in Nat
      /\ table \in Table /\ TableOf \in [Key -> Table] /\ writes \in Nat
  BY Domains, TableAssumption
<1>b. last <= writes /\ cursor <= localCkpt[table]
  BY <1>0 DEF ArchiveInvariant, PageSound
<1>1. RowsTracked'
  BY <1>0, <1>t, <1>b DEF ArchiveInvariant, RowsTracked
<1>2. OneWriter'
  BY DEF ArchiveInvariant, OneWriter, CheckpointOK, NextTable, queueing
<1>3. QueueFresh'
  BY DEF ArchiveInvariant, QueueFresh, CheckpointOK, NextTable, queueing
<1>4. CaughtUpQuiet'
  BY DEF ArchiveInvariant, CaughtUpQuiet, CheckpointOK, NextTable, status, queueing
<1>5. PageSound'
  BY <1>0, <1>t DEF PageSound
<1>6. RevisionSound'
  BY DEF ArchiveInvariant, RevisionSound, CheckpointOK, NextTable
<1>7. PendingNew'
  BY <1>0, TableAssumption DEF ArchiveInvariant, PendingNew, Dirty, Table
<1>8. UncontestedSound'
  <2> SUFFICES ASSUME NEW k \in Uncontested, local[k] # 0, rowId[k] <= localCkpt'[TableOf[k]], dirty[k] = Clean
               PROVE  archive[k] = local[k]
    BY <1>0 DEF UncontestedSound, Checkpointed
  <2>0. k \in Key /\ TableOf[k] \in Table
    BY <1>t, UncontestedKey
  <2>1. CASE rowId[k] <= localCkpt[TableOf[k]]
    BY <2>1 DEF ArchiveInvariant, UncontestedSound, Checkpointed
  <2>2. CASE ~(rowId[k] <= localCkpt[TableOf[k]])
    <3>1. TableOf[k] = table /\ rowId[k] <= last /\ cursor < rowId[k]
      BY <1>0, <1>t, <1>b, <2>0, <2>2
    <3> QED BY <1>0, <3>1 DEF ArchiveInvariant, PageSound, Covered
  <2> QED BY <2>1, <2>2
<1>9. DemoGone'
  BY <1>0, KeyAssumption DEF ArchiveInvariant, DemoGone, NoRows
<1> QED BY <1>1, <1>2, <1>3, <1>4, <1>5, <1>6, <1>7, <1>8, <1>9 DEF ArchiveInvariant

LEMMA DirtyScanInvariant ==
    ASSUME TypeOK, ArchiveInvariant, DirtyScan
    PROVE  ArchiveInvariant'
<1>0. /\ cycle = "dirtyScan" /\ cycle' \in {"dirtyScan", "settle", "dirty"}
      /\ UNCHANGED <<local, rowId, dirty, localCkpt, realMode, archive, boundaryRecorded, stopping, writes,
                     queue, flying, live, before>>
      /\ cycle' # "dirty" => sent' = sent
  BY DEF DirtyScan, CycleUnchanged, sqlite, store, lifetime, bounds, page
<1>1. RowsTracked'
  BY DEF ArchiveInvariant, RowsTracked, Clean, DirtyScan, CycleUnchanged, sqlite, bounds
<1>2. OneWriter'
  BY DEF ArchiveInvariant, OneWriter, DirtyScan, CycleUnchanged, page
<1>3. QueueFresh'
  BY DEF ArchiveInvariant, QueueFresh, DirtyScan, CycleUnchanged, sqlite
<1>4. CaughtUpQuiet'
  BY DEF ArchiveInvariant, CaughtUpQuiet, DirtyScan, CycleUnchanged, status
<1>5. PageSound'
  BY DEF ArchiveInvariant, PageSound, Covered, DirtyScan, CycleUnchanged, sqlite, store, page,
      bounds
<1>6. RevisionSound'
  <2> SUFFICES ASSUME cycle' = "dirty" PROVE RevisionSound'
    BY DEF RevisionSound
  <2>1. PICK rows \in SUBSET Pending :
          /\ sent' = [k \in Key |-> IF k \in rows THEN local[k] ELSE 0]
          /\ stamp' = [k \in Key |-> IF k \in rows THEN dirty[k] ELSE Clean]
    BY DEF DirtyScan
  <2>2. ASSUME NEW k \in rows PROVE dirty[k] # Clean /\ dirty[k].id # 0 /\ dirty[k] \in Revision
    BY <2>2, Domains DEF Pending, Dirty, ArchiveInvariant, RowsTracked
  <2>3. \A k \in Real : k \in Key
    BY DEF Real
  <2> QED BY <1>0, <2>1, <2>2, <2>3 DEF RevisionSound, Revision
<1>7. PendingNew'
  <2> SUFFICES ASSUME ~stopping, NEW k \in Dirty,
                      cycle' \in {"dirtyScan", "dirty"} => TableOf[k] < table'
               PROVE  dirty[k].id > before.max
    BY <1>0 DEF PendingNew, Dirty
  <2>1. TableOf[k] \in 1..NumTables /\ table \in 1..NumTables /\ NumTables \in Nat
    BY Domains, TableAssumption DEF Dirty, Table
  <2>2. TableOf[k] < table => dirty[k].id > before.max
    BY <1>0 DEF ArchiveInvariant, PendingNew
  <2>3. CASE Pending # {}
    BY <2>2, <2>3 DEF DirtyScan
  <2>4. CASE Pending = {}
    <3>1. TableOf[k] # table
      BY <2>4 DEF Pending
    <3>2. IF table < NumTables THEN table' = table + 1 /\ cycle' = cycle
          ELSE table' = 1 /\ cycle' = "settle"
      BY <2>4 DEF DirtyScan
    <3> QED BY <1>0, <2>1, <2>2, <3>1, <3>2
  <2> QED BY <2>3, <2>4
<1>8. UncontestedSound'
  BY DEF ArchiveInvariant, UncontestedSound, Checkpointed, DirtyScan, CycleUnchanged, sqlite, store
<1>9. DemoGone'
  <2>1. \A k \in Synthetic : realMode => sent'[k] = 0 \/ sent'[k] = sent[k]
    BY KeyAssumption DEF DirtyScan, ArchiveInvariant, DemoGone, page
  <2> QED BY <1>0, <2>1 DEF ArchiveInvariant, DemoGone
<1> QED BY <1>1, <1>2, <1>3, <1>4, <1>5, <1>6, <1>7, <1>8, <1>9 DEF ArchiveInvariant

LEMMA DirtyOKInvariant ==
    ASSUME TypeOK, ArchiveInvariant, DirtyOK
    PROVE  ArchiveInvariant'
<1>0. /\ cycle = "dirty" /\ cycle' = "dirtyScan"
      /\ \A k \in Key : dirty'[k] = Clean \/ dirty'[k] = dirty[k]
      /\ archive' = Landed
      /\ sent' = NoRows
      /\ UNCHANGED <<local, rowId, localCkpt, realMode, boundaryRecorded, stopping, writes, queue, flying,
                     live, before, table>>
  BY DEF DirtyOK, lifetime, bounds, queueing
<1>1. RowsTracked'
  <2>1. Clean.id = 0 /\ 0 <= writes
    BY Domains DEF Clean
  <2>2. ASSUME NEW k \in Key
        PROVE  /\ dirty'[k].id <= writes
               /\ dirty'[k] # Clean => dirty'[k].id # 0 /\ local[k] # 0
    <3>1. dirty[k].id <= writes /\ (dirty[k] # Clean => dirty[k].id # 0 /\ local[k] # 0)
      BY DEF ArchiveInvariant, RowsTracked
    <3>2. CASE dirty'[k] = Clean
      BY <2>1, <3>2
    <3>3. CASE dirty'[k] = dirty[k]
      BY <3>1, <3>3
    <3> QED BY <1>0, <3>2, <3>3
  <2> QED BY <1>0, <2>2 DEF ArchiveInvariant, RowsTracked
<1>2. OneWriter'
  BY DEF ArchiveInvariant, OneWriter, DirtyOK, queueing
<1>3. QueueFresh'
  BY DEF ArchiveInvariant, QueueFresh, DirtyOK, queueing
<1>4. CaughtUpQuiet'
  BY DEF ArchiveInvariant, CaughtUpQuiet, DirtyOK, status, queueing
<1>5. PageSound'
  BY DEF ArchiveInvariant, PageSound, Covered, DirtyOK, bounds
<1>6. RevisionSound'
  BY DEF ArchiveInvariant, RevisionSound, DirtyOK
<1>7. PendingNew'
  BY <1>0 DEF ArchiveInvariant, PendingNew, Dirty
<1>8. UncontestedSound'
  <2> SUFFICES ASSUME NEW k \in Uncontested, local[k] # 0, rowId[k] <= localCkpt[TableOf[k]], dirty'[k] = Clean
               PROVE  Landed[k] = local[k]
    BY <1>0 DEF UncontestedSound, Checkpointed
  <2>0. k \in Key
    BY UncontestedKey
  <2>1. CASE dirty[k] = Clean
    <3>1. archive[k] = local[k]
      BY <2>1 DEF ArchiveInvariant, UncontestedSound, Checkpointed
    <3> QED BY <1>0, <2>1, <3>1, LandedSound
  <2>2. CASE dirty[k] # Clean
    <3>1. dirty[k] = stamp[k]
      BY <2>0, <2>2 DEF DirtyOK
    <3>2. sent[k] = local[k]
      BY <1>0, <2>2, <3>1, UncontestedKey DEF ArchiveInvariant, RevisionSound
    <3>3. flying = {}
      BY <1>0 DEF ArchiveInvariant, OneWriter
    <3> QED BY <2>0, <3>2, <3>3 DEF Landed
  <2> QED BY <2>1, <2>2
<1>9. DemoGone'
  BY <1>0, LandedDemo, KeyAssumption DEF ArchiveInvariant, DemoGone, NoRows
<1> QED BY <1>1, <1>2, <1>3, <1>4, <1>5, <1>6, <1>7, <1>8, <1>9 DEF ArchiveInvariant

LEMMA SettleInvariant ==
    ASSUME TypeOK, ArchiveInvariant, Settle
    PROVE  ArchiveInvariant'
<1>1. RowsTracked'
  BY DEF ArchiveInvariant, RowsTracked, Clean, Settle, CycleUnchanged, sqlite, bounds
<1>2. OneWriter'
  <2>1. cycle = "settle" /\ flying = {} /\ live = "none"
    BY DEF Settle, ArchiveInvariant, OneWriter
  <2> QED BY <2>1 DEF ArchiveInvariant, OneWriter, Settle, CycleUnchanged, page
<1>3. QueueFresh'
  <2>1. queue' \subseteq queue
    BY DEF Settle, Retained
  <2> QED BY <2>1 DEF ArchiveInvariant, QueueFresh, Settle, CycleUnchanged, sqlite
<1>4. CaughtUpQuiet'
  BY DEF ArchiveInvariant, CaughtUpQuiet, Settle, CycleUnchanged, status
<1>5. PageSound'
  BY DEF ArchiveInvariant, PageSound, Covered, Settle, CycleUnchanged, sqlite, store, page,
      bounds
<1>6. RevisionSound'
  BY DEF ArchiveInvariant, RevisionSound, Settle, CycleUnchanged, sqlite, page
<1>7. PendingNew'
  BY DEF ArchiveInvariant, PendingNew, Dirty, Settle, CycleUnchanged, sqlite, lifetime
<1>8. UncontestedSound'
  BY DEF ArchiveInvariant, UncontestedSound, Checkpointed, Settle, CycleUnchanged, sqlite, store
<1>9. DemoGone'
  <2>1. queue' \subseteq queue
    BY DEF Settle, Retained
  <2>2. cycle' = "boundary" => realMode /\ \A e \in queue' : e.key \notin Synthetic
    BY DEF Settle, Retained
  <2> QED BY <2>1, <2>2
      DEF ArchiveInvariant, DemoGone, Settle, CycleUnchanged, sqlite, store, page
<1> QED BY <1>1, <1>2, <1>3, <1>4, <1>5, <1>6, <1>7, <1>8, <1>9 DEF ArchiveInvariant

LEMMA BoundaryOKInvariant ==
    ASSUME TypeOK, ArchiveInvariant, BoundaryOK
    PROVE  ArchiveInvariant'
<1>0. /\ cycle = "boundary" /\ cycle' = "end"
      /\ \A k \in Real : archive'[k] = archive[k]
      /\ UNCHANGED <<sqlite, stopping, queue, flying, live, table, page, before, writes>>
  BY DEF BoundaryOK, WithoutSynthetic, Real, lifetime, queueing, bounds
<1>1. RowsTracked'
  BY DEF ArchiveInvariant, RowsTracked, Clean, BoundaryOK, sqlite, bounds
<1>2. OneWriter'
  BY DEF ArchiveInvariant, OneWriter, BoundaryOK, queueing, page
<1>3. QueueFresh'
  BY DEF ArchiveInvariant, QueueFresh, BoundaryOK, sqlite, queueing
<1>4. CaughtUpQuiet'
  BY DEF ArchiveInvariant, CaughtUpQuiet, BoundaryOK, status, queueing
<1>5. PageSound'
  BY DEF ArchiveInvariant, PageSound, Covered, BoundaryOK, sqlite, page, bounds
<1>6. RevisionSound'
  BY DEF ArchiveInvariant, RevisionSound, BoundaryOK, sqlite, page
<1>7. PendingNew'
  BY <1>0 DEF ArchiveInvariant, PendingNew, Dirty, sqlite
<1>8. UncontestedSound'
  BY <1>0, UncontestedKey DEF ArchiveInvariant, UncontestedSound, Checkpointed, sqlite
<1>9. DemoGone'
  <2>1. sent = NoRows
    BY <1>0 DEF ArchiveInvariant, OneWriter
  <2>2. \A k \in Synthetic : archive'[k] = 0
    BY KeyAssumption DEF BoundaryOK, WithoutSynthetic, ArchiveInvariant, DemoGone
  <2> QED BY <1>0, <2>1, <2>2, KeyAssumption DEF ArchiveInvariant, DemoGone, NoRows, sqlite, page
<1> QED BY <1>1, <1>2, <1>3, <1>4, <1>5, <1>6, <1>7, <1>8, <1>9 DEF ArchiveInvariant

LEMMA PassEndsInvariant ==
    ASSUME TypeOK, ArchiveInvariant, PassEnds
    PROVE  ArchiveInvariant'
<1>0. /\ cycle = "end" /\ cycle' \in {"none", "pass"}
      /\ UNCHANGED <<localCkpt, realMode, store, stopping, queueing, bounds>>
      /\ sent = NoRows /\ stamp = NoStamps /\ sent' = NoRows /\ stamp' = NoStamps
  BY DEF PassEnds, EndCycle, ArchiveInvariant, OneWriter, lifetime, page
<1>p. \/ UNCHANGED <<local, rowId, dirty>> /\ UNCHANGED status
      \/ Purge /\ queue = {} /\ cycle' = "none"
  BY DEF PassEnds, PassQuiet, EndCycle
<1>m. before'.max \in 0..writes
  BY <1>0, Domains DEF PassEnds, EndCycle, NoToken, ArchiveInvariant, RowsTracked
<1>1. RowsTracked'
  BY <1>0, <1>p, <1>m, PurgeKeeps DEF ArchiveInvariant, RowsTracked, store, bounds
<1>2. OneWriter'
  BY <1>0 DEF ArchiveInvariant, OneWriter, queueing
<1>3. QueueFresh'
  BY <1>0, <1>p DEF ArchiveInvariant, QueueFresh, queueing
<1>4. CaughtUpQuiet'
  BY <1>0, <1>p DEF ArchiveInvariant, CaughtUpQuiet, queueing, status
<1>5. PageSound'
  BY <1>0 DEF PageSound
<1>6. RevisionSound'
  BY <1>0 DEF RevisionSound
<1>7. PendingNew'
  BY <1>0 DEF PendingNew
<1>8. UncontestedSound'
  BY <1>0, <1>p, PurgeKeeps DEF ArchiveInvariant, UncontestedSound, Checkpointed, store, bounds
<1>9. DemoGone'
  BY <1>0, <1>p, PurgeKeeps, KeyAssumption
    DEF ArchiveInvariant, DemoGone, NoRows, store, bounds, queueing
<1> QED BY <1>1, <1>2, <1>3, <1>4, <1>5, <1>6, <1>7, <1>8, <1>9 DEF ArchiveInvariant

LEMMA RetentionResumesInvariant ==
    ASSUME TypeOK, ArchiveInvariant, RetentionResumes
    PROVE  ArchiveInvariant'
<1>0. /\ cycle = "none"
      /\ UNCHANGED <<localCkpt, realMode, store, stopping, queueing, bounds, cycle, caughtUp, table, page, before>>
  BY DEF RetentionResumes, RetentionUnchanged, status, lifetime
<1>p. UNCHANGED <<local, rowId, dirty>> \/ (Purge /\ queue = {})
  BY DEF RetentionResumes, ArchiveInvariant, CaughtUpQuiet
<1>1. RowsTracked'
  BY <1>0, <1>p, PurgeKeeps DEF ArchiveInvariant, RowsTracked, store, bounds
<1>2. OneWriter'
  BY <1>0 DEF ArchiveInvariant, OneWriter, queueing, page
<1>3. QueueFresh'
  BY <1>0, <1>p DEF ArchiveInvariant, QueueFresh, queueing
<1>4. CaughtUpQuiet'
  BY <1>0 DEF ArchiveInvariant, CaughtUpQuiet, queueing
<1>5. PageSound'
  BY <1>0 DEF PageSound
<1>6. RevisionSound'
  BY <1>0 DEF RevisionSound
<1>7. PendingNew'
  BY <1>0 DEF PendingNew
<1>8. UncontestedSound'
  BY <1>0, <1>p, PurgeKeeps DEF ArchiveInvariant, UncontestedSound, Checkpointed, store, bounds
<1>9. DemoGone'
  BY <1>0, <1>p, PurgeKeeps
    DEF ArchiveInvariant, DemoGone, store, bounds, queueing, page
<1> QED BY <1>1, <1>2, <1>3, <1>4, <1>5, <1>6, <1>7, <1>8, <1>9 DEF ArchiveInvariant

-----------------------------------------------------------------------------
(* The invariant holds, and what follows from it *)

LEMMA InvariantInit == Init => ArchiveInvariant
<1> SUFFICES ASSUME Init PROVE ArchiveInvariant
  OBVIOUS
<1>1. RowsTracked
  BY DEF Init, RowsTracked, NoRows, NoStamps, NoToken, Clean
<1>2. OneWriter /\ QueueFresh /\ CaughtUpQuiet
  BY DEF Init, OneWriter, QueueFresh, CaughtUpQuiet
<1>3. PageSound /\ RevisionSound /\ PendingNew
  BY DEF Init, PageSound, RevisionSound, PendingNew
<1>4. UncontestedSound /\ DemoGone
  BY KeyAssumption DEF Init, UncontestedSound, Checkpointed, DemoGone, NoRows
<1> QED BY <1>1, <1>2, <1>3, <1>4 DEF ArchiveInvariant

LEMMA InvariantStep ==
    ASSUME TypeOK, ArchiveInvariant, [Next]_vars
    PROVE  ArchiveInvariant'
<1>1. CASE UNCHANGED vars
  <2>1. Quiet
    BY <1>1 DEF Quiet, vars, sqlite, store, status, lifetime, queueing, page, bounds,
       ArchiveInvariant, OneWriter
  <2> QED BY <2>1, QuietInvariant
<1>2. ASSUME NEW k \in Key, IngestSample(k) \/ IngestReading(k) \/ StoreRow(k) \/ Import(k)
      PROVE  ArchiveInvariant'
  BY <1>2, IngestEffect, StoredInvariant
<1>3. ASSUME NEW k \in Key, Replay(k) PROVE ArchiveInvariant'
  BY <1>3, ReplayInvariant
<1>4. CASE ActivateRealDataMode
  BY <1>4, ActivateInvariant
<1>5. CASE \/ Startup \/ InitializeOK \/ TimerFires \/ WakeFires \/ Stop
           \/ InitializeFails \/ CycleBegins \/ CycleStarted \/ RetentionWake
  BY <1>5, QuietEffect, QuietInvariant
<1>6. CASE Restart \/ Crash
  <2>1. Reboot /\ LostAnswer
    BY <1>6 DEF Restart, Crash, LostAnswer
  <2> QED BY <2>1, RebootInvariant
<1>7. CASE LiveStarted
  BY <1>7, LiveStartedInvariant
<1>8. CASE LiveWriteOK
  BY <1>8, LiveWriteOKInvariant
<1>9. CASE LiveWriteRejected \/ LiveWriteFails
  <2>1. LiveEnds /\ live = "drain" /\ LostAnswer
    BY <1>9 DEF LiveWriteRejected, LiveWriteFails, LostAnswer
  <2> QED BY <2>1, LiveEndsInvariant
<1>10. CASE DrainRejected \/ CallFails
  <2>1. CycleFailed /\ LostAnswer
    BY <1>10 DEF DrainRejected, CallFails, LostAnswer
  <2> QED BY <2>1, CycleFailedInvariant
<1>11. CASE PassStart
  BY <1>11, PassStartInvariant
<1>12. CASE DrainOK
  BY <1>12, DrainOKInvariant
<1>13. CASE CursorOK
  BY <1>13, CursorOKInvariant
<1>14. CASE Scan
  BY <1>14, ScanInvariant
<1>15. CASE PageOK
  BY <1>15, PageOKInvariant
<1>16. CASE CheckpointOK
  BY <1>16, CheckpointOKInvariant
<1>17. CASE DirtyScan
  BY <1>17, DirtyScanInvariant
<1>18. CASE DirtyOK
  BY <1>18, DirtyOKInvariant
<1>19. CASE Settle
  BY <1>19, SettleInvariant
<1>20. CASE BoundaryOK
  BY <1>20, BoundaryOKInvariant
<1>21. CASE PassEnds
  BY <1>21, PassEndsInvariant
<1>22. CASE RetentionResumes
  BY <1>22, RetentionResumesInvariant
<1> QED
  BY <1>1, <1>2, <1>3, <1>4, <1>5, <1>6, <1>7, <1>8, <1>9, <1>10, <1>11, <1>12, <1>13,
     <1>14, <1>15, <1>16, <1>17, <1>18, <1>19, <1>20, <1>21, <1>22
  DEF Next, Ingest, Scheduling, LiveFlush, Cycle, Fault

\* The whole inductive invariant of the pipeline holds in every reachable
\* state: for any keys, tables, batch sizes and queue bounds, under crashes,
\* lost answers and shutdowns, and also where ignored samples are published.
THEOREM InvariantCorrect == Spec => []ArchiveInvariant
<1>1. TypeOK /\ ArchiveInvariant /\ [Next]_vars => ArchiveInvariant'
  BY InvariantStep
<1> QED BY <1>1, InvariantInit, TypeCorrect, PTL DEF Spec

\* A row of SQLite that a local checkpoint covers and no pending revision
\* awaits is archived with the contents SQLite holds, the premise on which
\* purgeReadingsBefore deletes it: of every row, where no reading meets a
\* measurement already stored.
THEOREM CheckpointCorrect ==
    ASSUME ~Collisions
    PROVE  Spec => []CheckpointSound
<1>1. ArchiveInvariant => CheckpointSound
  BY DEF ArchiveInvariant, CheckpointSound, UncontestedSound, Uncontested, Contested
<1> QED BY <1>1, InvariantCorrect, PTL

\* Once enforceRealDataBoundary has been recorded no demo row is in the archive
\* or ever enters it again.
THEOREM BoundaryCorrect == Spec => []BoundaryHolds
<1>1. ArchiveInvariant => BoundaryHolds
  BY DEF ArchiveInvariant, DemoGone, BoundaryHolds
<1> QED BY <1>1, InvariantCorrect, PTL

\* What may be in a batch that PostgreSQL refuses for a repeated key.
RefusalExplained == Accepted \/ \E e \in flying : e.key \notin Uncontested

\* A refused batch is the work of an ignored sample or of demo data: no order
\* of ingestions, retries and crashes puts two samples of one other key into it.
THEOREM RefusalCorrect == Spec => []RefusalExplained
<1>1. TypeOK /\ ArchiveInvariant => RefusalExplained
  <2> SUFFICES ASSUME TypeOK, ArchiveInvariant, \A e \in flying : e.key \in Uncontested,
                      NEW e \in flying, NEW f \in flying, e.key = f.key
               PROVE  e = f
    BY DEF RefusalExplained, Accepted
  <2>1. e \in QueueEntry /\ f \in QueueEntry
    BY DEF TypeOK, QueueType
  <2>2. e.id = f.id
    BY DEF ArchiveInvariant, OneWriter, QueueFresh
  <2> QED BY <2>1, <2>2 DEF QueueEntry
<1> QED BY <1>1, InvariantCorrect, TypeCorrect, PTL

-----------------------------------------------------------------------------
(* What a step that stores nothing may do to one real key *)

\* Its row stays, or a purge that found it archived takes it; the archive takes
\* what was on the wire, which was SQLite's row when it was read; and nothing
\* new is queued under the key.
Moved(k) ==
    /\ \/ local'[k] = local[k]
       \/ /\ k \in Compactable /\ local'[k] = 0 /\ archive'[k] = archive[k]
          /\ k \in Uncontested => archive[k] = local[k]
    /\ archive'[k] = archive[k] \/ (archive'[k] = Landed[k] /\ cycle # "checkpoint")
    /\ sent'[k] \in {0, sent[k], local[k]}
    /\ (cycle' \in {"page", "dirty"} /\ sent'[k] # 0) =>
           /\ local'[k] = local[k] /\ archive'[k] = archive[k]
           /\ sent'[k] = local[k] \/ (sent'[k] = sent[k] /\ cycle' = cycle)
    /\ \A e \in queue' : e.key = k => e \in queue

LEMMA LostAnswerEffect ==
    ASSUME ArchiveInvariant, LostAnswer, NEW k \in Real
    PROVE  archive'[k] = archive[k] \/ (archive'[k] = Landed[k] /\ cycle # "checkpoint")
<1>1. CASE (flying # {} \/ cycle \in {"page", "dirty"}) /\ archive' = Landed
  BY <1>1 DEF ArchiveInvariant, OneWriter
<1>2. ASSUME NEW D \in SUBSET Synthetic, archive' = WithoutSynthetic(D)
      PROVE  archive'[k] = archive[k]
  BY <1>2 DEF WithoutSynthetic, Real
<1> QED BY <1>1, <1>2 DEF LostAnswer, store

LEMMA PurgeMoves ==
    ASSUME TypeOK, ArchiveInvariant, Purge, Dirty = {}, NEW k \in Real
    PROVE  \/ local'[k] = local[k]
           \/ /\ k \in Compactable /\ local'[k] = 0
              /\ k \in Uncontested => archive[k] = local[k]
<1>1. local'[k] = local[k] \/ (k \in Compactable /\ local'[k] = 0)
  BY DEF Purge, Delete, Real
<1>2. k \in Uncontested /\ local'[k] # local[k] => archive[k] = local[k]
  BY PurgeSound
<1> QED BY <1>1, <1>2

\* Every step stores the rows of one ingestion, or only moves what is stored.
LEMMA StepEffect ==
    ASSUME TypeOK, ArchiveInvariant, [Next]_vars
    PROVE  \/ \E keys \in SUBSET Key : Stored(keys)
           \/ writes' \in {writes, writes + 1} /\ \A k \in Real : Moved(k)
<1>0. \A k \in Real : k \in Key /\ k \notin Synthetic
  BY DEF Real
<1>1. CASE UNCHANGED vars
  BY <1>1 DEF vars, sqlite, store, queueing, page, bounds, Moved
<1>2. ASSUME NEW k \in Key, IngestSample(k) \/ IngestReading(k) \/ StoreRow(k) \/ Import(k)
      PROVE  \E keys \in SUBSET Key : Stored(keys)
  BY <1>2, IngestEffect
<1>3. ASSUME NEW j \in Key, Replay(j)
      PROVE  writes' = writes + 1 /\ \A k \in Real : Moved(k)
  <2>1. /\ j \in Synthetic /\ writes' = writes + 1
        /\ UNCHANGED <<local, archive, sent, cycle>>
    BY <1>3 DEF Replay, CountWrite, sqlite, store, page
  <2>2. \A e \in queue' : e \in queue \/ e.key = j
    BY <1>3, PublishEffect DEF Replay, ArchiveInvariant, OneWriter
  <2> QED BY <1>0, <2>1, <2>2 DEF Moved
<1>4. CASE ActivateRealDataMode
  BY <1>0, <1>4, ReconcileEffect
  DEF ActivateRealDataMode, Delete, store, queueing, page, bounds, Moved
<1>5. CASE \/ Startup \/ InitializeOK \/ TimerFires \/ WakeFires \/ Stop
           \/ InitializeFails \/ CycleBegins \/ CycleStarted \/ RetentionWake
  BY <1>5, QuietEffect DEF Quiet, Early, store, page, Moved
<1>6. CASE Restart \/ Crash
  <2>1. Reboot /\ LostAnswer
    BY <1>6 DEF Restart, Crash, LostAnswer
  <2> QED BY <1>0, <2>1, LostAnswerEffect DEF Reboot, EndCycle, NoRows, sqlite, Moved
<1>7. CASE LiveWriteRejected \/ LiveWriteFails \/ DrainRejected \/ CallFails
  <2>1. /\ LostAnswer /\ UNCHANGED <<sqlite, queue, writes>>
        /\ cycle' = "none" /\ (sent' = sent \/ sent' = NoRows)
    BY <1>7
    DEF LiveWriteRejected, LiveWriteFails, LiveEnds, DrainRejected, CallFails, CycleFailed,
        EndCycle, LostAnswer, page
  <2> QED BY <1>0, <2>1, LostAnswerEffect DEF NoRows, sqlite, Moved
<1>8. CASE LiveStarted \/ CursorOK \/ Settle \/ BoundaryOK
  <2>1. /\ UNCHANGED <<local, sent, writes>> /\ \A k \in Real : archive'[k] = archive[k]
        /\ queue' \subseteq queue /\ cycle' \in {cycle, "scan", "boundary", "end"}
    BY <1>0, <1>8
    DEF LiveStarted, LiveUnchanged, CursorOK, Settle, Retained, BoundaryOK, WithoutSynthetic,
        CycleUnchanged, sqlite, store, page, queueing, bounds
  <2> QED BY <2>1 DEF Moved
<1>9. CASE LiveWriteOK \/ DrainOK \/ PageOK \/ DirtyOK
  <2>1. /\ UNCHANGED <<local, writes>> /\ archive' = Landed /\ queue' \subseteq queue
        /\ sent' = sent \/ sent' = NoRows
        /\ cycle' \notin {"page", "dirty"} /\ cycle # "checkpoint"
    BY <1>9
    DEF LiveWriteOK, LiveUnchanged, DrainOK, CycleDrain, PageOK, DirtyOK, CycleUnchanged,
        ArchiveInvariant, OneWriter, sqlite, page, queueing, bounds
  <2> QED BY <1>0, <2>1 DEF NoRows, Moved
<1>10. CASE Scan \/ DirtyScan
  <2>1. /\ UNCHANGED <<local, archive, queue, writes>>
        /\ \A k \in Real : sent'[k] \in {sent[k], 0, local[k]}
        /\ \A k \in Real : sent'[k] = sent[k] => cycle' = cycle \/ sent[k] \in {0, local[k]}
    <3>1. CASE Scan
      BY <1>0, <3>1
      DEF Scan, CycleUnchanged, sqlite, store, page, bounds, ArchiveInvariant, OneWriter, NoRows
    <3>2. CASE DirtyScan
      BY <1>0, <3>2
      DEF DirtyScan, CycleUnchanged, sqlite, store, page, bounds, ArchiveInvariant, OneWriter,
          NoRows
    <3> QED BY <1>10, <3>1, <3>2
  <2> QED BY <2>1 DEF Moved
<1>11. CASE PassStart \/ CheckpointOK
  <2>1. /\ UNCHANGED <<local, archive, writes>> /\ queue' \subseteq queue
        /\ sent' = sent \/ sent' = NoRows
        /\ cycle' \notin {"page", "dirty"}
    BY <1>11
    DEF PassStart, CycleDrain, Retained, EndCycle, CheckpointOK, NextTable, CycleUnchanged,
        sqlite, store, page, queueing, bounds
  <2> QED BY <1>0, <2>1 DEF NoRows, Moved
<1>12. CASE PassEnds
  <2>1. /\ UNCHANGED <<archive, queue, writes>> /\ cycle' \in {"none", "pass"}
        /\ sent' = sent \/ sent' = NoRows
    BY <1>12 DEF PassEnds, EndCycle, store, page, queueing, bounds
  <2>2. local' = local \/ (Purge /\ Dirty = {})
    BY <1>12, QuietPassIsClean DEF PassEnds
  <2> QED BY <1>0, <2>1, <2>2, PurgeMoves DEF NoRows, Moved
<1>13. CASE RetentionResumes
  <2>1. UNCHANGED <<archive, queue, writes, cycle, sent>> /\ cycle = "none"
    BY <1>13 DEF RetentionResumes, RetentionUnchanged, store, page, queueing, bounds
  <2>2. local' = local \/ (Purge /\ Dirty = {})
    BY <1>13 DEF RetentionResumes
  <2> QED BY <2>1, <2>2, PurgeMoves DEF Moved
<1> QED
  BY <1>1, <1>2, <1>3, <1>4, <1>5, <1>6, <1>7, <1>8, <1>9, <1>10, <1>11, <1>12, <1>13
  DEF Next, Ingest, Scheduling, LiveFlush, Cycle, Fault

-----------------------------------------------------------------------------
(* The pipeline implements the recorded history *)

LEMMA StoredFirstStep ==
    ASSUME TypeOK, ArchiveInvariant, StoredFirst, [Next]_vars
    PROVE  StoredFirst'
<1> SUFFICES ASSUME NEW k \in Real \ Compactable, local'[k] = 0
             PROVE  archive'[k] = 0 /\ sent'[k] = 0 /\ \A e \in queue' : e.key # k
  BY DEF StoredFirst
<1>0. k \in Key
  BY UncontestedKey
<1>1. ASSUME NEW keys \in SUBSET Key, Stored(keys)
      PROVE  archive'[k] = 0 /\ sent'[k] = 0 /\ \A e \in queue' : e.key # k
  <2>1. k \notin keys /\ local[k] = 0
    BY <1>0, <1>1, Domains DEF Stored, Put
  <2>2. archive[k] = 0 /\ sent[k] = 0 /\ \A e \in queue : e.key # k
    BY <2>1 DEF StoredFirst
  <2> QED BY <1>1, <2>1, <2>2 DEF Stored, store, page
<1>2. ASSUME Moved(k)
      PROVE  archive'[k] = 0 /\ sent'[k] = 0 /\ \A e \in queue' : e.key # k
  <2>1. local[k] = 0
    BY <1>2 DEF Moved
  <2>2. archive[k] = 0 /\ sent[k] = 0 /\ \A e \in queue : e.key # k
    BY <2>1 DEF StoredFirst
  <2>3. Landed[k] = 0
    BY <1>0, <2>2 DEF Landed, ArchiveInvariant, OneWriter
  <2> QED BY <1>2, <2>1, <2>2, <2>3 DEF Moved
<1> QED BY <1>1, <1>2, StepEffect

\* The keys whose history is safe with the archive: no ignored sample can
\* overwrite them there, or no purge leaves them there alone.
Safe == Real \ (Contested \cap Compactable)

\* A row that is not in SQLite keeps its archived contents.
LEMMA MaskedByRow ==
    ASSUME TypeOK, ArchiveInvariant, StoredFirst, NEW k \in Safe, local[k] = 0,
           cycle # "checkpoint"
    PROVE  Landed[k] = archive[k]
<1>1. CASE k \in Uncontested
  BY <1>1, LandedSound
<1>2. CASE k \notin Uncontested
  <2>1. k \in Real \ Compactable
    BY <1>2 DEF Safe, Uncontested
  <2>2. archive[k] = 0 /\ sent[k] = 0 /\ \A e \in queue : e.key # k
    BY <2>1 DEF StoredFirst
  <2> QED BY <2>2, UncontestedKey DEF Landed, Safe, ArchiveInvariant, OneWriter
<1> QED BY <1>1, <1>2

\* Every ingestion records its revision under its keys; no other step changes
\* what is recorded.
LEMMA RecordedStep ==
    ASSUME TypeOK, ArchiveInvariant, StoredFirst, [Next]_vars
    PROVE  \/ /\ writes' = writes + 1
              /\ \E keys \in SUBSET Key : \A k \in Safe :
                     recorded'[k] = IF k \in keys THEN writes + 1 ELSE recorded[k]
           \/ writes' = writes /\ \A k \in Safe : recorded'[k] = recorded[k]
<1>0. \A k \in Safe : k \in Real /\ k \in Key
  BY DEF Safe, Real
<1>1. ASSUME NEW keys \in SUBSET Key, Stored(keys)
      PROVE  /\ writes' = writes + 1
             /\ \A k \in Safe : recorded'[k] = IF k \in keys THEN writes + 1 ELSE recorded[k]
  <2>1. writes + 1 # 0
    BY BoundAssumption DEF TypeOK, CountType
  <2> QED BY <1>0, <1>1, <2>1 DEF recorded, Stored, Put, store
<1>2. ASSUME NEW k \in Safe, \A j \in Real : Moved(j)
      PROVE  recorded'[k] = recorded[k]
  <2>1. Moved(k)
    BY <1>0, <1>2
  <2>2. (IF local'[k] # 0 THEN local'[k] ELSE archive'[k])
        = (IF local[k] # 0 THEN local[k] ELSE archive[k])
    <3>1. CASE local'[k] = local[k]
      BY <2>1, <3>1, MaskedByRow DEF Moved
    <3>2. CASE k \in Compactable /\ local'[k] = 0 /\ archive'[k] = archive[k]
               /\ (k \in Uncontested => archive[k] = local[k])
      BY <3>2 DEF Safe, Uncontested
    <3> QED BY <2>1, <3>1, <3>2 DEF Moved
  <2> QED BY <1>0, <2>2 DEF recorded
<1>3. ASSUME \A j \in Real : Moved(j)
      PROVE  /\ \A k \in Safe : recorded'[k] = recorded[k]
             /\ \E keys \in SUBSET Key : \A k \in Safe :
                    recorded'[k] = IF k \in keys THEN writes + 1 ELSE recorded[k]
  <2>1. \A k \in Safe : recorded'[k] = recorded[k]
    BY <1>2, <1>3
  <2>2. \A k \in Safe : recorded'[k] = IF k \in {} THEN writes + 1 ELSE recorded[k]
    BY <2>1
  <2>3. {} \in SUBSET Key
    OBVIOUS
  <2> QED BY <2>1, <2>2, <2>3
<1>4. CASE \E keys \in SUBSET Key : Stored(keys)
  BY <1>1, <1>4
<1>5. CASE writes' \in {writes, writes + 1} /\ \A j \in Real : Moved(j)
  BY <1>3, <1>5
<1> QED BY <1>4, <1>5, StepEffect

\* StoredFirst is an invariant.
LEMMA StoredFirstCorrect == Spec => []StoredFirst
<1>1. Init => StoredFirst
  BY KeyAssumption DEF Init, StoredFirst, NoRows, Real
<1>2. TypeOK /\ ArchiveInvariant /\ StoredFirst /\ [Next]_vars => StoredFirst'
  BY StoredFirstStep
<1> QED BY <1>1, <1>2, InvariantCorrect, TypeCorrect, PTL DEF Spec

SafeHistory == INSTANCE TelemetryHistory WITH
    RealKey <- Safe, history <- [k \in Safe |-> recorded[k]]

\* No recorded value of a safe key is ever lost or rolled back, in any setting:
\* with SQLite rows masking archived ones, the pipeline with its purges, crashes
\* and retries implements the abstract history of these keys, the ignored
\* samples of other keys notwithstanding.
THEOREM SafeHistoryKept == Spec => SafeHistory!Spec
<1>1. Init => SafeHistory!Init
  BY DEF Init, SafeHistory!Init, recorded, NoRows, Safe, Real
<1>2. TypeOK /\ ArchiveInvariant /\ StoredFirst /\ [Next]_vars
        => [SafeHistory!Next]_(SafeHistory!historyVars)
  <2> SUFFICES ASSUME TypeOK, ArchiveInvariant, StoredFirst, [Next]_vars
               PROVE  [SafeHistory!Next]_(SafeHistory!historyVars)
    OBVIOUS
  <2>1. ASSUME writes' = writes + 1, NEW keys \in SUBSET Key,
               \A k \in Safe : recorded'[k] = IF k \in keys THEN writes + 1 ELSE recorded[k]
        PROVE  SafeHistory!Record(keys \cap Safe)
    BY <2>1 DEF SafeHistory!Record
  <2>2. ASSUME writes' = writes, \A k \in Safe : recorded'[k] = recorded[k]
        PROVE  UNCHANGED SafeHistory!historyVars
    BY <2>2 DEF SafeHistory!historyVars
  <2> QED BY <2>1, <2>2, RecordedStep DEF SafeHistory!Next
<1> QED
  BY <1>1, <1>2, StoredFirstCorrect, InvariantCorrect, TypeCorrect, PTL DEF Spec, SafeHistory!Spec

\* Revisions are recorded in the order of the ingestions.
LEMMA RecordedInOrder ==
    ASSUME TypeOK, ArchiveInvariant, StoredFirst, [Next]_vars,
           \A k \in Safe : recorded[k] <= writes
    PROVE  \A k \in Safe : recorded'[k] <= writes' /\ recorded'[k] >= recorded[k]
<1>1. writes \in Nat /\ \A k \in Safe : recorded[k] \in Nat
  BY DEF recorded, Safe, Real, TypeOK, BufferType, StoreType, CountType
<1>2. ASSUME writes' = writes + 1, NEW keys \in SUBSET Key, NEW k \in Safe,
             recorded'[k] = IF k \in keys THEN writes + 1 ELSE recorded[k]
      PROVE  recorded'[k] <= writes' /\ recorded'[k] >= recorded[k]
  BY <1>1, <1>2
<1>3. ASSUME writes' = writes, NEW k \in Safe, recorded'[k] = recorded[k]
      PROVE  recorded'[k] <= writes' /\ recorded'[k] >= recorded[k]
  BY <1>1, <1>3
<1> QED BY <1>2, <1>3, RecordedStep

\* What a reader of archive and SQLite together finds under a safe key is never
\* older than what it found before, and is never gone: not after a purge, a
\* crash, a shutdown or a write that arrives late.
THEOREM RecordedNeverRegresses ==
    Spec => [][\A k \in Safe : recorded'[k] >= recorded[k]]_vars
<1> DEFINE Bounded == \A k \in Safe : recorded[k] <= writes
<1>1. Init => Bounded
  BY DEF Init, recorded, NoRows, Safe, Real
<1>2. TypeOK /\ ArchiveInvariant /\ StoredFirst /\ Bounded /\ [Next]_vars => Bounded'
  BY RecordedInOrder
<1>3. TypeOK /\ ArchiveInvariant /\ StoredFirst /\ Bounded /\ [Next]_vars
        => [\A k \in Safe : recorded'[k] >= recorded[k]]_vars
  BY RecordedInOrder
<1> QED
  BY <1>1, <1>2, <1>3, StoredFirstCorrect, InvariantCorrect, TypeCorrect, PTL DEF Spec

\* Every ingestion is one Record of the history; every other step is invisible.
LEMMA HistoryStep ==
    ASSUME TypeOK, ArchiveInvariant, StoredFirst, Contested \cap Compactable = {}, [Next]_vars
    PROVE  [History!Next]_(History!historyVars)
<1>0. Safe = Real
  BY DEF Safe
<1>1. recorded = [k \in Real |-> recorded[k]] /\ recorded' = [k \in Real |-> recorded'[k]]
  BY DEF recorded
<1>2. ASSUME writes' = writes + 1, NEW keys \in SUBSET Key,
             \A k \in Safe : recorded'[k] = IF k \in keys THEN writes + 1 ELSE recorded[k]
      PROVE  History!Record(keys \cap Real)
  BY <1>0, <1>1, <1>2 DEF History!Record
<1>3. ASSUME writes' = writes, \A k \in Safe : recorded'[k] = recorded[k]
      PROVE  UNCHANGED History!historyVars
  BY <1>0, <1>1, <1>3 DEF History!historyVars
<1> QED BY <1>2, <1>3, RecordedStep DEF History!Next

\* No recorded value at all is lost or rolled back, where retention takes no
\* measurement that an ignored sample may overwrite: the archived copy would be
\* all that is left of it.
THEOREM HistoryKept ==
    ASSUME Contested \cap Compactable = {}
    PROVE  Spec => KeepsHistory
<1>1. Init => History!Init
  BY DEF Init, History!Init, recorded, NoRows, Real
<1>2. TypeOK /\ ArchiveInvariant /\ StoredFirst /\ [Next]_vars
        => [History!Next]_(History!historyVars)
  BY HistoryStep
<1> QED
  BY <1>1, <1>2, StoredFirstCorrect, InvariantCorrect, TypeCorrect, PTL
  DEF Spec, KeepsHistory, History!Spec

-----------------------------------------------------------------------------
(* The order of revisions *)

\* What lands lies between the archive and SQLite.
LEMMA LandedOrder ==
    ASSUME TypeOK, ArchiveInvariant, RevisionOrder, cycle # "checkpoint", NEW k \in Uncontested
    PROVE  /\ Landed[k] \in Nat /\ archive[k] <= Landed[k] /\ Landed[k] <= writes
           /\ local[k] # 0 => Landed[k] <= local[k]
<1>0. k \in Key /\ archive[k] \in Nat /\ local[k] \in Nat /\ sent[k] \in Nat /\ writes \in Nat
  BY UncontestedKey, Domains
<1>1. /\ local[k] <= writes /\ archive[k] <= writes
      /\ local[k] # 0 => archive[k] <= local[k]
  BY DEF RevisionOrder
<1>2. CASE \E e \in flying : e.key = k
  <2>1. PICK e \in flying : e.key = k /\ Landed[k] = e.id
    BY <1>0, <1>2 DEF Landed
  <2>2. Landed[k] = local[k]
    BY <2>1 DEF ArchiveInvariant, OneWriter, QueueFresh
  <2>3. local[k] # 0
    <3>1. e.id \in 1..MaxWrites
      BY <2>1 DEF TypeOK, QueueType, QueueEntry
    <3> QED BY <2>1, <2>2, <3>1, BoundAssumption
  <2> QED BY <1>0, <1>1, <2>2, <2>3
<1>3. CASE ~(\E e \in flying : e.key = k) /\ sent[k] # 0
  <2>1. Landed[k] = sent[k]
    BY <1>0, <1>3 DEF Landed
  <2>2. cycle \in {"page", "dirty"}
    BY <1>0, <1>3 DEF ArchiveInvariant, OneWriter, NoRows
  <2>3. archive[k] <= sent[k] /\ sent[k] <= local[k]
    BY <1>3, <2>2 DEF RevisionOrder
  <2> QED BY <1>0, <1>1, <2>1, <2>3
<1>4. CASE ~(\E e \in flying : e.key = k) /\ sent[k] = 0
  <2>1. Landed[k] = archive[k]
    BY <1>0, <1>4 DEF Landed
  <2> QED BY <1>0, <1>1, <2>1
<1> QED BY <1>2, <1>3, <1>4

\* What RevisionOrder says of one key.
Ordered(k) ==
    /\ local[k] <= writes /\ archive[k] <= writes
    /\ local[k] # 0 => archive[k] <= local[k]
    /\ sent[k] # 0 /\ cycle \in {"page", "dirty"} =>
           archive[k] <= sent[k] /\ sent[k] <= local[k]

LEMMA StoredOrder ==
    ASSUME TypeOK, ArchiveInvariant, NEW k \in Uncontested, Ordered(k),
           NEW keys \in SUBSET Key, Stored(keys)
    PROVE  Ordered(k)' /\ archive'[k] >= archive[k]
<1>1. /\ k \in Key
      /\ archive[k] \in Nat /\ local[k] \in Nat /\ sent[k] \in Nat /\ writes \in Nat
  BY UncontestedKey, Domains
<1>2. /\ writes' = writes + 1 /\ archive' = archive /\ sent' = sent
      /\ cycle' = cycle \/ cycle' = "awaitFlush"
      /\ local'[k] = writes + 1 \/ local'[k] = local[k]
  BY <1>1 DEF Stored, Put, store, page
<1> QED BY <1>1, <1>2 DEF Ordered

LEMMA MovedOrder ==
    ASSUME TypeOK, ArchiveInvariant, RevisionOrder, NEW k \in Uncontested, Ordered(k),
           Moved(k), writes' \in {writes, writes + 1}
    PROVE  Ordered(k)' /\ archive'[k] >= archive[k]
<1>1. /\ k \in Key
      /\ archive[k] \in Nat /\ local[k] \in Nat /\ sent[k] \in Nat /\ writes \in Nat
  BY UncontestedKey, Domains
<1>2. /\ archive'[k] \in Nat /\ archive[k] <= archive'[k] /\ archive'[k] <= writes
      /\ local[k] # 0 => archive'[k] <= local[k]
  <2>1. archive'[k] = archive[k] \/ (archive'[k] = Landed[k] /\ cycle # "checkpoint")
    BY DEF Moved
  <2> QED BY <1>1, <2>1, LandedOrder DEF Ordered
<1>3. local'[k] = local[k] \/ local'[k] = 0
  BY DEF Moved
<1>4. ASSUME sent'[k] # 0, cycle' \in {"page", "dirty"}
      PROVE  archive'[k] <= sent'[k] /\ sent'[k] <= local'[k]
  <2>1. /\ local'[k] = local[k] /\ archive'[k] = archive[k]
        /\ sent'[k] = local[k] \/ (sent'[k] = sent[k] /\ cycle' = cycle)
    BY <1>4 DEF Moved
  <2> QED BY <1>1, <1>4, <2>1 DEF Ordered
<1> QED BY <1>1, <1>2, <1>3, <1>4 DEF Ordered

LEMMA OrderStep ==
    ASSUME TypeOK, ArchiveInvariant, RevisionOrder, [Next]_vars
    PROVE  RevisionOrder' /\ \A k \in Uncontested : archive'[k] >= archive[k]
<1>1. ASSUME NEW k \in Uncontested PROVE Ordered(k)' /\ archive'[k] >= archive[k]
  <2>1. Ordered(k)
    BY DEF RevisionOrder, Ordered
  <2> QED BY <2>1, StepEffect, StoredOrder, MovedOrder, UncontestedKey
<1>2. (\A k \in Uncontested : Ordered(k)') => RevisionOrder'
  BY DEF RevisionOrder, Ordered
<1> QED BY <1>1, <1>2

\* The archive never runs ahead of SQLite, and what is on the wire lies between
\* the two: what a pass read and sent is never newer than the row, nor older
\* than what the archive holds.
THEOREM OrderCorrect == Spec => []RevisionOrder
<1>1. Init => RevisionOrder
  BY UncontestedKey DEF Init, RevisionOrder, NoRows
<1>2. TypeOK /\ ArchiveInvariant /\ RevisionOrder /\ [Next]_vars => RevisionOrder'
  BY OrderStep
<1> QED BY <1>1, <1>2, InvariantCorrect, TypeCorrect, PTL DEF Spec

\* No delayed, lost or repeated write takes the archive back to an older
\* revision: a page or a revision read before an update, or a live batch that
\* reaches the store after it, never overwrites what is newer.
THEOREM NeverRegressesCorrect == Spec => NeverRegresses
<1>1. TypeOK /\ ArchiveInvariant /\ RevisionOrder /\ [Next]_vars
        => [\A k \in Uncontested : archive'[k] >= archive[k]]_vars
  BY OrderStep
<1> QED BY <1>1, OrderCorrect, InvariantCorrect, TypeCorrect, PTL DEF Spec, NeverRegresses

-----------------------------------------------------------------------------
(* What an acknowledged revision leaves *)

LEMMA AcknowledgedStep ==
    ASSUME TypeOK, ArchiveInvariant, [Next]_vars, NEW k \in Real,
           dirty[k] # Clean, dirty'[k] = Clean
    PROVE  archive'[k] = local[k]
<1>0. k \in Key
  BY UncontestedKey
<1>1. CASE DirtyOK
  <2>1. dirty[k] = stamp[k] /\ archive' = Landed /\ cycle = "dirty"
    BY <1>0, <1>1 DEF DirtyOK
  <2>2. sent[k] = local[k] /\ local[k] # 0 /\ flying = {}
    BY <1>0, <2>1 DEF ArchiveInvariant, RevisionSound, RowsTracked, OneWriter
  <2> QED BY <1>0, <2>1, <2>2 DEF Landed
<1>2. CASE PassEnds
  BY <1>0, <1>2, QuietPassIsClean DEF PassEnds, Dirty
<1>3. CASE RetentionResumes
  BY <1>0, <1>3 DEF RetentionResumes, Dirty
<1>4. CASE ActivateRealDataMode
  BY <1>0, <1>4 DEF ActivateRealDataMode, Delete, Real
<1>5. ASSUME NEW keys \in SUBSET Key, Stored(keys) PROVE FALSE
  <2>1. dirty[k] \in Revision /\ dirty[k].id # 0
    BY <1>0, Domains DEF ArchiveInvariant, RowsTracked
  <2> QED BY <1>0, <1>5, <2>1, Domains DEF Stored, Put, Revision, Clean
<1>6. CASE UNCHANGED dirty
  BY <1>6
<1>7. CASE \E j \in Key : IngestSample(j) \/ IngestReading(j) \/ StoreRow(j) \/ Import(j)
  BY <1>5, <1>7, IngestEffect
<1>8. CASE \/ Startup \/ InitializeOK \/ TimerFires \/ WakeFires \/ Stop
           \/ InitializeFails \/ CycleBegins \/ CycleStarted \/ RetentionWake
  BY <1>6, <1>8, QuietEffect DEF Quiet
<1>9. CASE \/ \E j \in Key : Replay(j)
           \/ Restart \/ Crash \/ LiveStarted \/ LiveWriteOK \/ LiveWriteRejected \/ LiveWriteFails
           \/ PassStart \/ DrainOK \/ DrainRejected \/ CallFails \/ CursorOK \/ Scan \/ PageOK
           \/ CheckpointOK \/ DirtyScan \/ Settle \/ BoundaryOK \/ UNCHANGED vars
  <2>1. UNCHANGED dirty
    BY <1>9 DEF Replay, Restart, Crash, Reboot, LiveStarted, LiveWriteOK, LiveWriteRejected,
       LiveWriteFails, LiveEnds, LiveUnchanged, PassStart, DrainOK, DrainRejected, CallFails,
       CycleFailed, CursorOK, Scan, PageOK, CheckpointOK, DirtyScan, Settle, BoundaryOK,
       CycleUnchanged, vars, sqlite
  <2> QED BY <1>6, <2>1
<1> QED
  BY <1>1, <1>2, <1>3, <1>4, <1>7, <1>8, <1>9
  DEF Next, Ingest, Scheduling, LiveFlush, Cycle, Fault

\* A pending revision leaves SQLite's dirty table only in the step in which the
\* archive comes to hold what SQLite holds: an update that arrives while the
\* previous version is on the wire keeps its row pending.
THEOREM AcknowledgedCorrect == Spec => AcknowledgedIsArchived
<1>1. TypeOK /\ ArchiveInvariant /\ [Next]_vars
        => [\A k \in Real : (dirty[k] # Clean /\ dirty'[k] = Clean)
                               => archive'[k] = local[k]]_vars
  BY AcknowledgedStep
<1> QED BY <1>1, InvariantCorrect, TypeCorrect, PTL DEF Spec, AcknowledgedIsArchived

=============================================================================
