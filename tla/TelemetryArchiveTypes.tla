----------------------- MODULE TelemetryArchiveTypes ------------------------
EXTENDS TelemetryArchive, FiniteSetTheorems, NaturalsInduction, WellFoundedInduction, TLAPS

\* The relation < on Nat is well founded, so a bounded nonempty set of naturals
\* has a largest member: the least distance to the bound is reached.
LEMMA BoundedMax ==
    ASSUME NEW n \in Nat, NEW S \in SUBSET (0..n), S # {}
    PROVE  /\ Max(S) \in S
           /\ \A x \in S : x <= Max(S)
<1> DEFINE LessThan == {ss \in Nat \X Nat : ss[1] < ss[2]}
           U == {n - x : x \in S}
<1>1. IsWellFoundedOn(LessThan, Nat)
  BY NatLessThanWellFounded DEF OpToRel, LessThan
<1>2. U \subseteq Nat /\ U # {}
  <2>1. \A x \in S : n - x \in Nat
    BY SMT
  <2> QED BY <2>1
<1>3. \E u \in U : \A v \in U : <<v, u>> \notin LessThan
  <2> HIDE DEF U, LessThan
  <2> QED BY <1>1, <1>2, WFMin
<1>4. \E m \in S : \A x \in S : m >= x
  <2>1. PICK u \in U : \A v \in U : <<v, u>> \notin LessThan
    BY <1>3
  <2>2. PICK m \in S : u = n - m
    OBVIOUS
  <2>3. ASSUME NEW x \in S PROVE m >= x
    <3>1. <<n - x, n - m>> \notin LessThan
      BY <2>1, <2>2
    <3> QED BY <3>1, SMT
  <2> QED BY <2>3
<1> QED BY <1>4 DEF Max

-----------------------------------------------------------------------------
(* Type correctness *)

\* What each helper of the specification leaves in the variables it sets.
LEMMA PutType ==
    ASSUME TypeOK, NEW keys \in SUBSET Key, Put(keys)
    PROVE  local' \in [Key -> Nat] /\ rowId' \in [Key -> Nat] /\ dirty' \in [Key -> Revision]
BY BoundAssumption DEF TypeOK, BufferType, CountType, Put, Revision, Clean

LEMMA DeleteType ==
    ASSUME TypeOK, NEW keys, Delete(keys)
    PROVE  local' \in [Key -> Nat] /\ rowId' \in [Key -> Nat] /\ dirty' \in [Key -> Revision]
BY DEF TypeOK, BufferType, Delete, Revision, Clean

LEMMA PurgeType ==
    ASSUME TypeOK, Purge
    PROVE  local' \in [Key -> Nat] /\ rowId' \in [Key -> Nat] /\ dirty' \in [Key -> Revision]
BY DeleteType DEF Purge

LEMMA ProjectedKey ==
    ASSUME NEW k \in DOMAIN Projection
    PROVE  Projection[k] \in Key
BY ProjectionAssumption DEF Real

LEMMA PublishType ==
    ASSUME TypeOK, NEW k \in Key, CountWrite, Publish(k)
    PROVE  /\ queue' \subseteq QueueEntry /\ IsFiniteSet(queue')
           /\ phase' \in Phase /\ caughtUp' \in BOOLEAN /\ wake' \in BOOLEAN
<1> DEFINE q == queue \cup {[id |-> writes + 1, key |-> k]}
<1>1. q \subseteq QueueEntry
  BY BoundAssumption DEF TypeOK, QueueType, CountType, QueueEntry, CountWrite
<1>2. IsFiniteSet(q)
  BY FS_AddElement DEF TypeOK, QueueType
<1>3. Trim(q) \subseteq q
  BY DEF Trim
<1>4. IsFiniteSet(Trim(q))
  BY <1>2, <1>3, FS_Subset
<1> HIDE DEF q
<1>5. queue' = queue \/ queue' = Trim(q)
  BY DEF Publish, q
<1>6. phase' \in Phase /\ caughtUp' \in BOOLEAN /\ wake' \in BOOLEAN
  BY DEF Publish, TypeOK, WorkerType, Phase, status
<1> QED BY <1>1, <1>3, <1>4, <1>5, <1>6 DEF TypeOK, QueueType

LEMMA ReconcileNowType ==
    ASSUME TypeOK, ReconcileNow
    PROVE  /\ cycle' \in Stage /\ joined' \in BOOLEAN /\ wake' \in BOOLEAN
           /\ phase' \in Phase /\ caughtUp' \in BOOLEAN
BY DEF TypeOK, WorkerType, CycleType, Phase, ReconcileNow, Stage, status

LEMMA LandedType ==
    ASSUME TypeOK
    PROVE  Landed \in [Key -> Nat]
<1>1. ASSUME NEW k \in Key, \E e \in flying : e.key = k
      PROVE  (CHOOSE e \in flying : e.key = k).id \in Nat
  BY <1>1, BoundAssumption DEF TypeOK, QueueType, QueueEntry
<1> QED BY <1>1 DEF Landed, TypeOK, StoreType, CycleType

LEMMA LostAnswerType ==
    ASSUME TypeOK, LostAnswer
    PROVE  StoreType'
<1>1. \A D : WithoutSynthetic(D) \in [Key -> Nat]
  BY DEF TypeOK, StoreType, WithoutSynthetic
<1>2. Advanced \in [Table -> Nat]
  BY DEF TypeOK, StoreType, CycleType, Advanced
<1>3. CASE UNCHANGED store
  BY <1>3 DEF TypeOK, StoreType, store
<1>4. CASE archive' = Landed /\ UNCHANGED <<remoteCkpt, boundaryRecorded>>
  BY <1>4, LandedType DEF TypeOK, StoreType
<1>5. CASE remoteCkpt' = Advanced /\ UNCHANGED <<archive, boundaryRecorded>>
  BY <1>5, <1>2 DEF TypeOK, StoreType
<1>6. ASSUME NEW D \in SUBSET Synthetic, archive' = WithoutSynthetic(D),
             boundaryRecorded' \in {FALSE, D = Synthetic}, UNCHANGED remoteCkpt
      PROVE  StoreType'
  BY <1>6, <1>1 DEF TypeOK, StoreType
<1> QED BY <1>3, <1>4, <1>5, <1>6 DEF LostAnswer

LEMMA LiveContinueType ==
    ASSUME TypeOK, NEW q \in SUBSET QueueEntry, IsFiniteSet(q), NEW left \in Int,
           LiveContinue(q, left)
    PROVE  /\ flying' \subseteq QueueEntry /\ IsFiniteSet(flying')
           /\ live' \in {"none", "awaitStart", "drain"} /\ liveLeft' \in Int
           /\ phase' \in Phase /\ caughtUp' \in BOOLEAN /\ wake' \in BOOLEAN
<1>1. PICK batch \in SUBSET q : LiveContinue(q, left)!(batch)
  BY DEF LiveContinue
<1>2. IsFiniteSet(batch)
  BY FS_Subset
<1>3. CASE batch # {}
  BY <1>1, <1>2, <1>3 DEF TypeOK, WorkerType, status
<1>4. CASE batch = {}
  <2>1. flying' = batch /\ live' = "none" /\ liveLeft' = 0
    BY <1>1, <1>4
  <2>2. wake' = (wake \/ (~stopping /\ q # {} /\ cycle = "none"))
    BY <1>1, <1>4
  <2>3. \/ phase' = "ready" /\ caughtUp' = TRUE
        \/ phase' = phase /\ caughtUp' = caughtUp
    BY <1>1, <1>4 DEF status
  <2>4. wake' \in BOOLEAN
    BY <2>2
  <2>5. phase' \in Phase /\ caughtUp' \in BOOLEAN
    BY <2>3 DEF TypeOK, WorkerType, Phase
  <2>6. liveLeft' \in Int
    BY <2>1
  <2> QED BY <1>2, <2>1, <2>4, <2>5, <2>6, Zenon
<1> QED BY <1>3, <1>4

LEMMA CycleDrainType ==
    ASSUME TypeOK, NEW q \in SUBSET QueueEntry, IsFiniteSet(q), CycleDrain(q)
    PROVE  flying' \subseteq QueueEntry /\ IsFiniteSet(flying') /\ cycle' \in Stage
<1>1. PICK batch \in SUBSET q : CycleDrain(q)!(batch)
  BY DEF CycleDrain
<1>2. IsFiniteSet(batch)
  BY FS_Subset
<1> QED BY <1>1, <1>2 DEF Stage

LEMMA RetainedType ==
    ASSUME TypeOK
    PROVE  Retained \in SUBSET QueueEntry /\ IsFiniteSet(Retained)
BY FS_Subset DEF TypeOK, QueueType, Retained

LEMMA QueueRest ==
    ASSUME TypeOK
    PROVE  queue \ flying \in SUBSET QueueEntry /\ IsFiniteSet(queue \ flying)
BY FS_Subset DEF TypeOK, QueueType

\* The state a written live batch leaves.
LEMMA LiveRest ==
    ASSUME TypeOK, LiveWriteOK
    PROVE  /\ queue' \subseteq QueueEntry /\ IsFiniteSet(queue')
           /\ flying' \subseteq QueueEntry /\ IsFiniteSet(flying')
           /\ live' \in {"none", "awaitStart", "drain"} /\ liveLeft' \in Int
           /\ phase' \in Phase /\ caughtUp' \in BOOLEAN /\ wake' \in BOOLEAN
<1>1. liveLeft - Cardinality(flying) \in Int
  BY FS_CardinalityType DEF TypeOK, QueueType
<1>2. queue' = queue \ flying /\ LiveContinue(queue \ flying, liveLeft - Cardinality(flying))
  BY DEF LiveWriteOK
<1>3. LiveContinue(queue \ flying, liveLeft - Cardinality(flying)) =>
           /\ flying' \subseteq QueueEntry /\ IsFiniteSet(flying')
           /\ live' \in {"none", "awaitStart", "drain"} /\ liveLeft' \in Int
           /\ phase' \in Phase /\ caughtUp' \in BOOLEAN /\ wake' \in BOOLEAN
  BY <1>1, QueueRest, LiveContinueType, Zenon
<1> QED BY <1>2, <1>3, QueueRest, Zenon

LEMMA ClearedType ==
    /\ 1 \in Table
    /\ NoRows \in [Key -> Nat]
    /\ NoStamps \in [Key -> Revision]
<1>1. 1 \in Table
  BY TableAssumption DEF Table
<1> QED BY <1>1 DEF NoRows, NoStamps, Clean, Revision

LEMMA EndCycleType ==
    ASSUME EndCycle
    PROVE  CycleType'
BY ClearedType DEF EndCycle, CycleType, Stage

LEMMA RebootType ==
    ASSUME Reboot
    PROVE  CycleType' /\ QueueType' /\ phase' \in Phase /\ startState' \in {"none", "pending", "done"}
BY EndCycleType, FS_EmptySet DEF Reboot, QueueType, Phase

LEMMA DegradeType ==
    ASSUME TypeOK, IF stopping THEN UNCHANGED <<status, timer>> ELSE Degrade
    PROVE  phase' \in Phase /\ caughtUp' \in BOOLEAN /\ timer' \in BOOLEAN
BY DEF TypeOK, WorkerType, Degrade, Phase, status

LEMMA NextTableType ==
    ASSUME TypeOK, NextTable
    PROVE  table' \in Table /\ cycle' \in Stage
BY TableAssumption DEF TypeOK, CycleType, NextTable, Table, Stage

\* Every step keeps every variable well typed.
LEMMA TypeStep ==
    TypeOK /\ [Next]_vars => TypeOK'
<1> SUFFICES ASSUME TypeOK, [Next]_vars PROVE TypeOK'
  OBVIOUS
<1> USE BoundAssumption
<1>0. CASE UNCHANGED vars
  BY <1>0 DEF TypeOK, BufferType, StoreType, WorkerType, QueueType, CycleType, CountType,
     vars, sqlite, store, status, lifetime, queueing, page, bounds
<1>1. ASSUME NEW k \in Key, IngestSample(k) PROVE TypeOK'
  <2>1. BufferType'
    BY <1>1, PutType
    DEF TypeOK, IngestSample, CountWrite, BufferType, sqlite
  <2>2. WorkerType'
    BY <1>1, PublishType
    DEF TypeOK, IngestSample, CountWrite, WorkerType, status, lifetime
  <2>3. QueueType'
    BY <1>1, PublishType
    DEF TypeOK, IngestSample, CountWrite, QueueType, queueing
  <2>4. CountType'
    BY <1>1
    DEF TypeOK, IngestSample, CountWrite, CountType, bounds
  <2>5. StoreType' /\ CycleType'
    BY <1>1 DEF TypeOK, IngestSample, CountWrite, StoreType, CycleType,
       sqlite, store, status, lifetime, queueing, page, bounds
  <2> QED BY <2>1, <2>2, <2>3, <2>4, <2>5 DEF TypeOK
<1>2. ASSUME NEW k \in Key, IngestReading(k) PROVE TypeOK'
  <2>1. BufferType'
    <3>1. PICK keys \in SUBSET Key : Put(keys)
      BY <1>2, ProjectedKey DEF IngestReading
    <3> QED BY <1>2, <3>1, PutType DEF TypeOK, BufferType, IngestReading
  <2>2. WorkerType'
    BY <1>2, ProjectedKey, PublishType
    DEF TypeOK, IngestReading, CountWrite, WorkerType, status, lifetime
  <2>3. QueueType'
    BY <1>2, ProjectedKey, PublishType
    DEF TypeOK, IngestReading, CountWrite, QueueType, queueing
  <2>4. CountType'
    BY <1>2
    DEF TypeOK, IngestReading, CountWrite, CountType, bounds
  <2>5. StoreType' /\ CycleType'
    BY <1>2 DEF TypeOK, IngestReading, CountWrite, StoreType, CycleType,
       sqlite, store, status, lifetime, queueing, page, bounds
  <2> QED BY <2>1, <2>2, <2>3, <2>4, <2>5 DEF TypeOK
<1>3. ASSUME NEW k \in Key, StoreRow(k) PROVE TypeOK'
  <2>1. BufferType'
    BY <1>3, PutType
    DEF TypeOK, StoreRow, CountWrite, BufferType, sqlite
  <2>2. CountType'
    BY <1>3
    DEF TypeOK, StoreRow, CountWrite, CountType, bounds
  <2>3. StoreType' /\ WorkerType' /\ QueueType' /\ CycleType'
    BY <1>3 DEF TypeOK, StoreRow, CountWrite, StoreType, WorkerType, QueueType, CycleType,
       sqlite, store, status, lifetime, queueing, page, bounds
  <2> QED BY <2>1, <2>2, <2>3 DEF TypeOK
<1>4. ASSUME NEW k \in Key, Import(k) PROVE TypeOK'
  <2>1. BufferType'
    BY <1>4, PutType
    DEF TypeOK, Import, CountWrite, BufferType, sqlite
  <2>2. WorkerType'
    BY <1>4, ReconcileNowType
    DEF TypeOK, Import, CountWrite, WorkerType, status, lifetime
  <2>3. CycleType'
    BY <1>4, ReconcileNowType
    DEF TypeOK, Import, CountWrite, CycleType, page
  <2>4. CountType'
    BY <1>4
    DEF TypeOK, Import, CountWrite, CountType, bounds
  <2>5. StoreType' /\ QueueType'
    BY <1>4 DEF TypeOK, Import, CountWrite, StoreType, QueueType,
       sqlite, store, status, lifetime, queueing, page, bounds
  <2> QED BY <2>1, <2>2, <2>3, <2>4, <2>5 DEF TypeOK
<1>5. ASSUME NEW k \in Key, Replay(k) PROVE TypeOK'
  <2>1. WorkerType'
    BY <1>5, PublishType
    DEF TypeOK, Replay, CountWrite, WorkerType, status, lifetime
  <2>2. QueueType'
    BY <1>5, PublishType
    DEF TypeOK, Replay, CountWrite, QueueType, queueing
  <2>3. CountType'
    BY <1>5
    DEF TypeOK, Replay, CountWrite, CountType, bounds
  <2>4. BufferType' /\ StoreType' /\ CycleType'
    BY <1>5 DEF TypeOK, Replay, CountWrite, BufferType, StoreType, CycleType,
       sqlite, store, status, lifetime, queueing, page, bounds
  <2> QED BY <2>1, <2>2, <2>3, <2>4 DEF TypeOK
<1>6. CASE ActivateRealDataMode
  <2>1. BufferType'
    BY <1>6, DeleteType
    DEF TypeOK, ActivateRealDataMode, BufferType, sqlite
  <2>2. WorkerType'
    BY <1>6, ReconcileNowType
    DEF TypeOK, ActivateRealDataMode, WorkerType, status, lifetime
  <2>3. CycleType'
    BY <1>6, ReconcileNowType
    DEF TypeOK, ActivateRealDataMode, CycleType, page
  <2>4. StoreType' /\ QueueType' /\ CountType'
    BY <1>6 DEF TypeOK, ActivateRealDataMode, StoreType, QueueType, CountType,
       sqlite, store, status, lifetime, queueing, page, bounds
  <2> QED BY <2>1, <2>2, <2>3, <2>4 DEF TypeOK
<1>7. CASE Startup
  <2>1. WorkerType'
    BY <1>7
    DEF TypeOK, Startup, Start, Phase, WorkerType, status, lifetime
  <2>2. BufferType' /\ StoreType' /\ QueueType' /\ CycleType' /\ CountType'
    BY <1>7 DEF TypeOK, Startup, BufferType, StoreType, QueueType, CycleType, CountType,
       sqlite, store, status, lifetime, queueing, page, bounds
  <2> QED BY <2>1, <2>2 DEF TypeOK
<1>8. CASE InitializeOK
  <2>1. WorkerType'
    BY <1>8
    DEF TypeOK, InitializeOK, Phase, WorkerType, status, lifetime
  <2>2. CycleType'
    BY <1>8
    DEF TypeOK, InitializeOK, Stage, CycleType, page
  <2>3. BufferType' /\ StoreType' /\ QueueType' /\ CountType'
    BY <1>8 DEF TypeOK, InitializeOK, BufferType, StoreType, QueueType, CountType,
       sqlite, store, status, lifetime, queueing, page, bounds
  <2> QED BY <2>1, <2>2, <2>3 DEF TypeOK
<1>9. CASE TimerFires
  <2>1. WorkerType'
    BY <1>9, ReconcileNowType
    DEF TypeOK, TimerFires, Start, Phase, WorkerType, status, lifetime
  <2>2. CycleType'
    BY <1>9, ReconcileNowType
    DEF TypeOK, TimerFires, CycleType, page
  <2>3. BufferType' /\ StoreType' /\ QueueType' /\ CountType'
    BY <1>9 DEF TypeOK, TimerFires, BufferType, StoreType, QueueType, CountType,
       sqlite, store, status, lifetime, queueing, page, bounds
  <2> QED BY <2>1, <2>2, <2>3 DEF TypeOK
<1>10. CASE WakeFires
  <2>1. WorkerType'
    BY <1>10
    DEF TypeOK, WakeFires, WorkerType, status, lifetime
  <2>2. QueueType'
    BY <1>10, FS_CardinalityType
    DEF TypeOK, WakeFires, QueueType, queueing
  <2>3. BufferType' /\ StoreType' /\ CycleType' /\ CountType'
    BY <1>10 DEF TypeOK, WakeFires, BufferType, StoreType, CycleType, CountType,
       sqlite, store, status, lifetime, queueing, page, bounds
  <2> QED BY <2>1, <2>2, <2>3 DEF TypeOK
<1>11. CASE Restart
  <2>1. BufferType'
    BY <1>11
    DEF TypeOK, Restart, Reboot, BufferType, sqlite
  <2>2. WorkerType'
    BY <1>11, RebootType
    DEF TypeOK, Restart, Reboot, WorkerType, status, lifetime
  <2>3. QueueType'
    BY <1>11, RebootType
    DEF TypeOK, Restart, QueueType, queueing
  <2>4. CycleType'
    BY <1>11, RebootType
    DEF TypeOK, Restart, CycleType, page
  <2>5. CountType'
    BY <1>11
    DEF TypeOK, Restart, Reboot, CountType, bounds
  <2>6. StoreType'
    BY <1>11 DEF TypeOK, Restart, StoreType,
       sqlite, store, status, lifetime, queueing, page, bounds
  <2> QED BY <2>1, <2>2, <2>3, <2>4, <2>5, <2>6 DEF TypeOK
<1>12. CASE LiveStarted
  <2>1. WorkerType'
    BY <1>12, LiveContinueType
    DEF TypeOK, LiveStarted, LiveUnchanged, WorkerType, QueueType, status, lifetime
  <2>2. QueueType'
    BY <1>12, LiveContinueType
    DEF TypeOK, LiveStarted, LiveUnchanged, QueueType, queueing
  <2>3. BufferType' /\ StoreType' /\ CycleType' /\ CountType'
    BY <1>12 DEF TypeOK, LiveStarted, LiveUnchanged, BufferType, StoreType, CycleType, CountType,
       sqlite, store, status, lifetime, queueing, page, bounds
  <2> QED BY <2>1, <2>2, <2>3 DEF TypeOK
<1>13. CASE LiveWriteOK
  <2>1. StoreType'
    BY <1>13, LandedType
    DEF TypeOK, LiveWriteOK, LiveUnchanged, StoreType, store
  <2>2. WorkerType'
    BY <1>13, LiveRest
    DEF TypeOK, LiveWriteOK, LiveUnchanged, WorkerType, status, lifetime
  <2>3. QueueType'
    BY <1>13, LiveRest
    DEF TypeOK, LiveWriteOK, LiveUnchanged, QueueType, queueing
  <2>4. BufferType' /\ CycleType' /\ CountType'
    BY <1>13 DEF TypeOK, LiveWriteOK, LiveUnchanged, BufferType, CycleType, CountType,
       sqlite, store, status, lifetime, queueing, page, bounds
  <2> QED BY <2>1, <2>2, <2>3, <2>4 DEF TypeOK
<1>14. CASE LiveWriteRejected
  <2>1. WorkerType'
    BY <1>14, DegradeType
    DEF TypeOK, LiveWriteRejected, LiveEnds, WorkerType, status, lifetime
  <2>2. QueueType'
    BY <1>14, FS_EmptySet
    DEF TypeOK, LiveWriteRejected, LiveEnds, QueueType, queueing
  <2>3. CycleType'
    BY <1>14
    DEF TypeOK, LiveWriteRejected, LiveEnds, Stage, CycleType, page
  <2>4. BufferType' /\ StoreType' /\ CountType'
    BY <1>14 DEF TypeOK, LiveWriteRejected, LiveEnds, BufferType, StoreType, CountType,
       sqlite, store, status, lifetime, queueing, page, bounds
  <2> QED BY <2>1, <2>2, <2>3, <2>4 DEF TypeOK
<1>15. CASE CycleBegins
  <2>1. WorkerType'
    BY <1>15
    DEF TypeOK, CycleBegins, Start, Phase, WorkerType, status, lifetime
  <2>2. CycleType'
    BY <1>15
    DEF TypeOK, CycleBegins, Stage, CycleType, page
  <2>3. BufferType' /\ StoreType' /\ QueueType' /\ CountType'
    BY <1>15 DEF TypeOK, CycleBegins, BufferType, StoreType, QueueType, CountType,
       sqlite, store, status, lifetime, queueing, page, bounds
  <2> QED BY <2>1, <2>2, <2>3 DEF TypeOK
<1>16. CASE CycleStarted
  <2>1. CycleType'
    BY <1>16
    DEF TypeOK, CycleStarted, CycleUnchanged, Stage, CycleType, page
  <2>2. BufferType' /\ StoreType' /\ WorkerType' /\ QueueType' /\ CountType'
    BY <1>16 DEF TypeOK, CycleStarted, CycleUnchanged, BufferType, StoreType, WorkerType, QueueType, CountType,
       sqlite, store, status, lifetime, queueing, page, bounds
  <2> QED BY <2>1, <2>2 DEF TypeOK
<1>17. CASE PassStart
  <2>1. WorkerType'
    BY <1>17
    DEF TypeOK, PassStart, CycleUnchanged, Phase, WorkerType, status, lifetime
  <2>2. QueueType'
    BY <1>17, RetainedType, CycleDrainType
    DEF TypeOK, PassStart, CycleUnchanged, QueueType, queueing
  <2>3. CycleType'
    <3>1. CASE stopping
      BY <1>17, <3>1, EndCycleType DEF PassStart
    <3>2. CASE ~stopping
      <4>1. CycleDrain(Retained) /\ joined' = FALSE /\ table' = 1 /\ UNCHANGED page
        BY <1>17, <3>2 DEF PassStart
      <4>2. cycle' \in Stage
        BY <4>1, RetainedType, CycleDrainType
      <4> QED BY <4>1, <4>2, ClearedType DEF TypeOK, CycleType, page
    <3> QED BY <3>1, <3>2
  <2>4. BufferType' /\ StoreType' /\ CountType'
    BY <1>17 DEF TypeOK, PassStart, CycleUnchanged, BufferType, StoreType, CountType,
       sqlite, store, status, lifetime, queueing, page, bounds
  <2> QED BY <2>1, <2>2, <2>3, <2>4 DEF TypeOK
<1>18. CASE DrainOK
  <2>1. StoreType'
    BY <1>18, LandedType
    DEF TypeOK, DrainOK, CycleUnchanged, StoreType, store
  <2>2. QueueType'
    BY <1>18, QueueRest, CycleDrainType
    DEF TypeOK, DrainOK, CycleUnchanged, QueueType, queueing
  <2>3. CycleType'
    BY <1>18, QueueRest, CycleDrainType
    DEF TypeOK, DrainOK, CycleUnchanged, CycleType, page
  <2>4. BufferType' /\ WorkerType' /\ CountType'
    BY <1>18 DEF TypeOK, DrainOK, CycleUnchanged, BufferType, WorkerType, CountType,
       sqlite, store, status, lifetime, queueing, page, bounds
  <2> QED BY <2>1, <2>2, <2>3, <2>4 DEF TypeOK
<1>19. CASE DrainRejected
  <2>1. WorkerType'
    BY <1>19, DegradeType
    DEF TypeOK, DrainRejected, CycleFailed, WorkerType, status, lifetime
  <2>2. QueueType'
    BY <1>19, FS_EmptySet
    DEF TypeOK, DrainRejected, CycleFailed, QueueType, queueing
  <2>3. CycleType'
    BY <1>19, EndCycleType
    DEF TypeOK, DrainRejected, CycleFailed, CycleType, page
  <2>4. BufferType' /\ StoreType' /\ CountType'
    BY <1>19 DEF TypeOK, DrainRejected, CycleFailed, BufferType, StoreType, CountType,
       sqlite, store, status, lifetime, queueing, page, bounds
  <2> QED BY <2>1, <2>2, <2>3, <2>4 DEF TypeOK
<1>20. CASE CursorOK
  <2>1. CycleType'
    BY <1>20
    DEF TypeOK, CursorOK, CycleUnchanged, BufferType, StoreType, Stage, CycleType, page
  <2>2. BufferType' /\ StoreType' /\ WorkerType' /\ QueueType' /\ CountType'
    BY <1>20 DEF TypeOK, CursorOK, CycleUnchanged, BufferType, StoreType, WorkerType, QueueType, CountType,
       sqlite, store, status, lifetime, queueing, page, bounds
  <2> QED BY <2>1, <2>2 DEF TypeOK
<1>21. CASE Scan
  <2>1. CycleType'
    <3>1. CASE stopping \/ Beyond = {}
      BY <1>21, <3>1, NextTableType DEF TypeOK, Scan, CycleUnchanged, CycleType, page
    <3>2. CASE ~(stopping \/ Beyond = {})
      <4>1. PICK newest \in Beyond : last' = rowId[newest]
        BY <1>21, <3>2 DEF Scan
      <4>2. last' \in Nat
        BY <4>1 DEF TypeOK, Beyond, Rows, BufferType
      <4> QED BY <1>21, <3>2, <4>2 DEF TypeOK, Scan, CycleUnchanged, CycleType, BufferType, Stage
    <3> QED BY <3>1, <3>2
  <2>2. BufferType' /\ StoreType' /\ WorkerType' /\ QueueType' /\ CountType'
    BY <1>21 DEF TypeOK, Scan, CycleUnchanged, BufferType, StoreType, WorkerType, QueueType, CountType,
       sqlite, store, status, lifetime, queueing, page, bounds
  <2> QED BY <2>1, <2>2 DEF TypeOK
<1>22. CASE PageOK
  <2>1. StoreType'
    BY <1>22, LandedType
    DEF TypeOK, PageOK, CycleUnchanged, StoreType, store
  <2>2. CycleType'
    BY <1>22
    DEF TypeOK, PageOK, CycleUnchanged, Stage, CycleType, page
  <2>3. BufferType' /\ WorkerType' /\ QueueType' /\ CountType'
    BY <1>22 DEF TypeOK, PageOK, CycleUnchanged, BufferType, WorkerType, QueueType, CountType,
       sqlite, store, status, lifetime, queueing, page, bounds
  <2> QED BY <2>1, <2>2, <2>3 DEF TypeOK
<1>23. CASE CheckpointOK
  <2>1. BufferType'
    BY <1>23
    DEF TypeOK, CheckpointOK, BufferType, CycleType, sqlite
  <2>2. StoreType'
    BY <1>23
    DEF TypeOK, CheckpointOK, Advanced, StoreType, CycleType, store
  <2>3. CycleType'
    <3>1. cycle' \in Stage /\ table' \in Table
      BY <1>23, NextTableType DEF TypeOK, CheckpointOK, CycleType, Stage
    <3> QED BY <1>23, <3>1 DEF TypeOK, CheckpointOK, CycleType, NoRows
  <2>4. WorkerType' /\ QueueType' /\ CountType'
    BY <1>23 DEF TypeOK, CheckpointOK, WorkerType, QueueType, CountType,
       sqlite, store, status, lifetime, queueing, page, bounds
  <2> QED BY <2>1, <2>2, <2>3, <2>4 DEF TypeOK
<1>24. CASE DirtyScan
  <2>1. CycleType'
    <3>1. CASE stopping \/ Pending = {}
      BY <1>24, <3>1, TableAssumption DEF TypeOK, DirtyScan, CycleUnchanged, CycleType, Table, Stage, page
    <3>2. CASE ~(stopping \/ Pending = {})
      <4>0. PICK rows \in SUBSET Pending :
                /\ sent' = [k \in Key |-> IF k \in rows THEN local[k] ELSE 0]
                /\ stamp' = [k \in Key |-> IF k \in rows THEN dirty[k] ELSE Clean]
        BY <1>24, <3>2, Zenon DEF DirtyScan
      <4>1. sent' \in [Key -> Nat]
        BY <4>0 DEF TypeOK, BufferType
      <4>2. stamp' \in [Key -> Revision]
        BY <4>0 DEF TypeOK, BufferType, Clean, Revision
      <4>3. cycle' \in Stage /\ UNCHANGED <<table, cursor, last, joined>>
        BY <1>24, <3>2 DEF DirtyScan, Stage
      <4> QED BY <4>1, <4>2, <4>3 DEF TypeOK, CycleType
    <3> QED BY <3>1, <3>2
  <2>2. BufferType' /\ StoreType' /\ WorkerType' /\ QueueType' /\ CountType'
    BY <1>24 DEF TypeOK, DirtyScan, CycleUnchanged, BufferType, StoreType, WorkerType, QueueType, CountType,
       sqlite, store, status, lifetime, queueing, page, bounds
  <2> QED BY <2>1, <2>2 DEF TypeOK
<1>25. CASE DirtyOK
  <2>1. BufferType'
    BY <1>25
    DEF TypeOK, DirtyOK, Clean, Revision, BufferType, sqlite
  <2>2. StoreType'
    BY <1>25, LandedType
    DEF TypeOK, DirtyOK, StoreType, store
  <2>3. CycleType'
    BY <1>25
    DEF TypeOK, DirtyOK, NoRows, NoStamps, Clean, Revision, Stage, CycleType, page
  <2>4. WorkerType' /\ QueueType' /\ CountType'
    BY <1>25 DEF TypeOK, DirtyOK, WorkerType, QueueType, CountType,
       sqlite, store, status, lifetime, queueing, page, bounds
  <2> QED BY <2>1, <2>2, <2>3, <2>4 DEF TypeOK
<1>26. CASE Settle
  <2>1. QueueType'
    BY <1>26, RetainedType
    DEF TypeOK, Settle, CycleUnchanged, QueueType, queueing
  <2>2. CycleType'
    BY <1>26
    DEF TypeOK, Settle, CycleUnchanged, Stage, CycleType, page
  <2>3. BufferType' /\ StoreType' /\ WorkerType' /\ CountType'
    BY <1>26 DEF TypeOK, Settle, CycleUnchanged, BufferType, StoreType, WorkerType, CountType,
       sqlite, store, status, lifetime, queueing, page, bounds
  <2> QED BY <2>1, <2>2, <2>3 DEF TypeOK
<1>27. CASE BoundaryOK
  <2>1. StoreType'
    BY <1>27
    DEF TypeOK, BoundaryOK, WithoutSynthetic, StoreType, store
  <2>2. WorkerType'
    BY <1>27
    DEF TypeOK, BoundaryOK, WorkerType, status, lifetime
  <2>3. CycleType'
    BY <1>27
    DEF TypeOK, BoundaryOK, Stage, CycleType, page
  <2>4. BufferType' /\ QueueType' /\ CountType'
    BY <1>27 DEF TypeOK, BoundaryOK, BufferType, QueueType, CountType,
       sqlite, store, status, lifetime, queueing, page, bounds
  <2> QED BY <2>1, <2>2, <2>3, <2>4 DEF TypeOK
<1>28. CASE PassEnds
  <2>1. BufferType'
    BY <1>28, PurgeType
    DEF TypeOK, PassEnds, BufferType, sqlite
  <2>2. WorkerType'
    BY <1>28
    DEF TypeOK, PassEnds, Phase, WorkerType, status, lifetime
  <2>3. CycleType'
    BY <1>28, EndCycleType
    DEF TypeOK, PassEnds, Stage, CycleType, page
  <2>4. StoreType' /\ QueueType' /\ CountType'
    BY <1>28 DEF TypeOK, PassEnds, StoreType, QueueType, CountType,
       sqlite, store, status, lifetime, queueing, page, bounds
  <2> QED BY <2>1, <2>2, <2>3, <2>4 DEF TypeOK
<1>29. CASE RetentionWake
  <2>1. BufferType'
    BY <1>29
    DEF TypeOK, RetentionWake, RetentionUnchanged, BufferType, sqlite
  <2>2. WorkerType'
    BY <1>29, ReconcileNowType
    DEF TypeOK, RetentionWake, RetentionUnchanged, WorkerType, status, lifetime
  <2>3. CycleType'
    BY <1>29, ReconcileNowType
    DEF TypeOK, RetentionWake, RetentionUnchanged, CycleType, page
  <2>4. CountType'
    BY <1>29
    DEF TypeOK, RetentionWake, RetentionUnchanged, CountType, bounds
  <2>5. StoreType' /\ QueueType'
    BY <1>29 DEF TypeOK, RetentionWake, RetentionUnchanged, StoreType, QueueType,
       sqlite, store, status, lifetime, queueing, page, bounds
  <2> QED BY <2>1, <2>2, <2>3, <2>4, <2>5 DEF TypeOK
<1>30. CASE RetentionResumes
  <2>1. BufferType'
    BY <1>30, PurgeType
    DEF TypeOK, RetentionResumes, RetentionUnchanged, BufferType, sqlite
  <2>2. CountType'
    BY <1>30
    DEF TypeOK, RetentionResumes, RetentionUnchanged, CountType, bounds
  <2>3. StoreType' /\ WorkerType' /\ QueueType' /\ CycleType'
    BY <1>30 DEF TypeOK, RetentionResumes, RetentionUnchanged, StoreType, WorkerType, QueueType, CycleType,
       sqlite, store, status, lifetime, queueing, page, bounds
  <2> QED BY <2>1, <2>2, <2>3 DEF TypeOK
<1>31. CASE InitializeFails
  <2>1. WorkerType'
    BY <1>31
    DEF TypeOK, InitializeFails, Phase, WorkerType, status, lifetime
  <2>2. QueueType'
    BY <1>31
    DEF TypeOK, InitializeFails, QueueType, queueing
  <2>3. CycleType'
    BY <1>31
    DEF TypeOK, InitializeFails, Stage, CycleType, page
  <2>4. CountType'
    BY <1>31
    DEF TypeOK, InitializeFails, CountType, bounds
  <2>5. BufferType' /\ StoreType'
    BY <1>31 DEF TypeOK, InitializeFails, BufferType, StoreType,
       sqlite, store, status, lifetime, queueing, page, bounds
  <2> QED BY <2>1, <2>2, <2>3, <2>4, <2>5 DEF TypeOK
<1>32. CASE Stop
  <2>1. WorkerType'
    BY <1>32
    DEF TypeOK, Stop, Phase, WorkerType, status, lifetime
  <2>2. CountType'
    BY <1>32
    DEF TypeOK, Stop, CountType, bounds
  <2>3. BufferType' /\ StoreType' /\ QueueType' /\ CycleType'
    BY <1>32 DEF TypeOK, Stop, BufferType, StoreType, QueueType, CycleType,
       sqlite, store, status, lifetime, queueing, page, bounds
  <2> QED BY <2>1, <2>2, <2>3 DEF TypeOK
<1>33. CASE Crash
  <2>1. BufferType'
    BY <1>33
    DEF TypeOK, Crash, Reboot, BufferType, sqlite
  <2>2. StoreType'
    BY <1>33, LostAnswerType
    DEF TypeOK, Crash, StoreType, store
  <2>3. WorkerType'
    BY <1>33, RebootType
    DEF TypeOK, Crash, Reboot, WorkerType, status, lifetime
  <2>4. QueueType'
    BY <1>33, RebootType
    DEF TypeOK, Crash, QueueType, queueing
  <2>5. CycleType'
    BY <1>33, RebootType
    DEF TypeOK, Crash, CycleType, page
  <2>6. CountType'
    BY <1>33
    DEF TypeOK, Crash, Reboot, CountType, bounds
  <2> QED BY <2>1, <2>2, <2>3, <2>4, <2>5, <2>6 DEF TypeOK
<1>34. CASE LiveWriteFails
  <2>1. StoreType'
    BY <1>34, LostAnswerType
    DEF TypeOK, LiveWriteFails, LiveEnds, StoreType, store
  <2>2. WorkerType'
    BY <1>34, DegradeType
    DEF TypeOK, LiveWriteFails, LiveEnds, WorkerType, status, lifetime
  <2>3. QueueType'
    BY <1>34, FS_EmptySet
    DEF TypeOK, LiveWriteFails, LiveEnds, QueueType, queueing
  <2>4. CycleType'
    BY <1>34
    DEF TypeOK, LiveWriteFails, LiveEnds, Stage, CycleType, page
  <2>5. CountType'
    BY <1>34
    DEF TypeOK, LiveWriteFails, LiveEnds, CountType, bounds
  <2>6. BufferType'
    BY <1>34 DEF TypeOK, LiveWriteFails, LiveEnds, BufferType,
       sqlite, store, status, lifetime, queueing, page, bounds
  <2> QED BY <2>1, <2>2, <2>3, <2>4, <2>5, <2>6 DEF TypeOK
<1>35. CASE CallFails
  <2>1. StoreType'
    BY <1>35, LostAnswerType
    DEF TypeOK, CallFails, CycleFailed, StoreType, store
  <2>2. WorkerType'
    BY <1>35, DegradeType
    DEF TypeOK, CallFails, CycleFailed, WorkerType, status, lifetime
  <2>3. QueueType'
    BY <1>35, FS_EmptySet
    DEF TypeOK, CallFails, CycleFailed, QueueType, queueing
  <2>4. CycleType'
    BY <1>35, EndCycleType
    DEF TypeOK, CallFails, CycleFailed, CycleType, page
  <2>5. CountType'
    BY <1>35
    DEF TypeOK, CallFails, CycleFailed, CountType, bounds
  <2>6. BufferType'
    BY <1>35 DEF TypeOK, CallFails, CycleFailed, BufferType,
       sqlite, store, status, lifetime, queueing, page, bounds
  <2> QED BY <2>1, <2>2, <2>3, <2>4, <2>5, <2>6 DEF TypeOK
<1> QED
  BY <1>0, <1>1, <1>2, <1>3, <1>4, <1>5, <1>6, <1>7, <1>8, <1>9, <1>10, <1>11, <1>12, <1>13, <1>14, <1>15, <1>16, <1>17, <1>18, <1>19, <1>20, <1>21, <1>22, <1>23, <1>24, <1>25, <1>26, <1>27, <1>28, <1>29, <1>30, <1>31, <1>32, <1>33, <1>34, <1>35
  DEF Next, Ingest, Scheduling, LiveFlush, Cycle, Fault

(* Every reachable state is well typed. *)
THEOREM TypeCorrect == Spec => []TypeOK
<1>1. Init => TypeOK
  <2> SUFFICES ASSUME Init PROVE TypeOK
    OBVIOUS
  <2>1. BufferType /\ StoreType
    BY DEF Init, BufferType, StoreType, NoRows, NoStamps, Clean, Revision
  <2>2. WorkerType /\ QueueType /\ CountType
    <3>1. WorkerType
      BY DEF Init, WorkerType, Phase
    <3>2. QueueType
      BY FS_EmptySet DEF Init, QueueType
    <3>3. CountType
      BY BoundAssumption DEF Init, CountType
    <3> QED BY <3>1, <3>2, <3>3
  <2>3. CycleType
    BY ClearedType DEF Init, CycleType, Stage
  <2> QED BY <2>1, <2>2, <2>3 DEF TypeOK
<1> QED BY <1>1, TypeStep, PTL DEF Spec
=============================================================================
