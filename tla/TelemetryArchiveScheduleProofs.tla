-------------------- MODULE TelemetryArchiveScheduleProofs --------------------
(***************************************************************************)
(* No failure, wake or timer leaves the archive worker with nothing to do  *)
(* next: the invariant of its scheduling is inductive by itself.           *)
(***************************************************************************)
EXTENDS TelemetryArchive, TLAPS

\* A step that keeps the worker's schedule, or has a cycle as its outcome.
Carried ==
    /\ phase' # "idle" \/ (phase' = phase /\ queue' = queue /\ live' = live)
    /\ \/ cycle' # "none" \/ startState' = "pending" \/ stopping'
       \/ UNCHANGED <<phase, stopping, timer, startState, cycle, queue, wake, live>>

LEMMA CarriedKeeps ==
    ASSUME ScheduleInvariant, Carried
    PROVE  ScheduleInvariant'
BY DEF ScheduleInvariant, IdleFresh, NeverStalled, QueueServed, Carried

\* #enqueue wakes the worker, or leaves the sample to the retry that is due.
LEMMA PublishKeeps ==
    ASSUME ScheduleInvariant, NEW k, Publish(k),
           UNCHANGED <<stopping, timer, startState, cycle, live>>
    PROVE  ScheduleInvariant'
<1>1. CASE phase = "idle" \/ stopping \/ (realMode /\ k \in Synthetic)
  <2>1. UNCHANGED <<queue, phase, wake>>
    BY <1>1 DEF Publish, status
  <2> QED BY <2>1 DEF ScheduleInvariant, IdleFresh, NeverStalled, QueueServed
<1>2. CASE ~(phase = "idle" \/ stopping \/ (realMode /\ k \in Synthetic))
  <2>1. /\ phase # "idle" /\ ~stopping
        /\ phase' = IF phase = "ready" THEN "syncing" ELSE phase
        /\ wake' = (wake \/ phase # "degraded")
    BY <1>2 DEF Publish
  <2>2. timer \/ startState = "pending" \/ cycle # "none"
    BY <2>1 DEF ScheduleInvariant, NeverStalled
  <2>3. phase' # "idle" /\ (wake' \/ phase' = "degraded")
    BY <2>1
  <2> QED BY <2>2, <2>3 DEF ScheduleInvariant, IdleFresh, NeverStalled, QueueServed
<1> QED BY <1>1, <1>2

\* reconcileNow() leaves a cycle, unless the worker stops.
LEMMA ReconcileKeeps ==
    ASSUME ScheduleInvariant, ReconcileNow, UNCHANGED <<stopping, startState, queue, live>>
    PROVE  ScheduleInvariant'
<1>1. cycle' # "none" \/ stopping'
  BY DEF ReconcileNow
<1>2. phase' = "idle" => phase = "idle"
  BY DEF ReconcileNow, status
<1> QED BY <1>1, <1>2 DEF ScheduleInvariant, IdleFresh, NeverStalled, QueueServed

\* A flush that goes on is its own carrier; one that ends leaves an empty
\* queue, or asks for a wake, or gives way to the cycle that waits for it.
LEMMA LiveContinueKeeps ==
    ASSUME ScheduleInvariant, live # "none", NEW q, NEW left, LiveContinue(q, left), queue' = q,
           UNCHANGED <<stopping, timer, startState, cycle>>
    PROVE  ScheduleInvariant'
<1>1. phase # "idle" /\ phase' # "idle"
  BY DEF ScheduleInvariant, IdleFresh, LiveContinue, status
<1>2. NeverStalled'
  BY <1>1 DEF ScheduleInvariant, NeverStalled
<1>3. QueueServed'
  BY DEF QueueServed, LiveContinue
<1> QED BY <1>1, <1>2, <1>3 DEF ScheduleInvariant, IdleFresh

\* A failure schedules a retry.
LEMMA DegradeKeeps ==
    ASSUME IF stopping THEN UNCHANGED <<status, timer>> ELSE Degrade, ScheduleInvariant,
           UNCHANGED <<stopping, queue>>, live' = "none"
    PROVE  ScheduleInvariant'
<1>1. CASE stopping
  BY <1>1 DEF ScheduleInvariant, IdleFresh, NeverStalled, QueueServed, status
<1>2. CASE ~stopping
  BY <1>2 DEF ScheduleInvariant, IdleFresh, NeverStalled, QueueServed, Degrade
<1> QED BY <1>1, <1>2

LEMMA RebootKeeps ==
    ASSUME Reboot
    PROVE  ScheduleInvariant'
BY DEF Reboot, ScheduleInvariant, IdleFresh, NeverStalled, QueueServed

\* Each step keeps the worker scheduled.
LEMMA ScheduleStep == ScheduleInvariant /\ [Next]_vars => ScheduleInvariant'
<1> SUFFICES ASSUME ScheduleInvariant, [Next]_vars PROVE ScheduleInvariant'
  OBVIOUS
<1>1. ASSUME NEW k \in Key, IngestSample(k) \/ Replay(k) PROVE ScheduleInvariant'
  BY <1>1, PublishKeeps DEF IngestSample, Replay, lifetime
<1>2. ASSUME NEW r \in Key, IngestReading(r) PROVE ScheduleInvariant'
  BY <1>2, PublishKeeps DEF IngestReading, lifetime
<1>3. ASSUME NEW k \in Key, StoreRow(k) PROVE ScheduleInvariant'
  BY <1>3, CarriedKeeps DEF StoreRow, Carried, status, lifetime, queueing
<1>4. ASSUME NEW k \in Key, Import(k) PROVE ScheduleInvariant'
  BY <1>4, ReconcileKeeps DEF Import, lifetime, queueing
<1>5. CASE ActivateRealDataMode
  BY <1>5, ReconcileKeeps DEF ActivateRealDataMode, lifetime, queueing
<1>6. CASE Startup
  BY <1>6, CarriedKeeps DEF Startup, Start, Carried
<1>7. CASE InitializeOK
  <2>1. CASE stopping
    BY <1>7, <2>1
    DEF InitializeOK, ScheduleInvariant, IdleFresh, NeverStalled, QueueServed, status, queueing
  <2>2. CASE ~stopping
    BY <1>7, <2>2, CarriedKeeps DEF InitializeOK, Carried
  <2> QED BY <2>1, <2>2
<1>8. CASE InitializeFails
  BY <1>8 DEF InitializeFails, ScheduleInvariant, IdleFresh, NeverStalled, QueueServed
<1>9. CASE TimerFires
  <2>1. CASE phase = "degraded" /\ startState = "none"
    BY <1>9, <2>1, CarriedKeeps DEF TimerFires, Start, Carried
  <2>2. CASE ~(phase = "degraded" /\ startState = "none")
    BY <1>9, <2>2, ReconcileKeeps DEF TimerFires, lifetime, queueing
  <2> QED BY <2>1, <2>2
<1>10. CASE WakeFires
  <2>1. UNCHANGED <<phase, startState, stopping, timer, queue, cycle>>
    BY <1>10 DEF WakeFires, status, lifetime
  <2>2. IdleFresh'
    BY <1>10, <2>1 DEF WakeFires, ScheduleInvariant, IdleFresh
  <2>3. NeverStalled'
    BY <2>1 DEF ScheduleInvariant, NeverStalled
  <2>4. QueueServed'
    <3> SUFFICES ASSUME queue # {}, ~stopping, cycle = "none", live' = "none",
                        startState # "pending"
                 PROVE  phase = "degraded" /\ timer
      BY <2>1 DEF QueueServed
    <3>1. phase = "degraded"
      BY <1>10 DEF WakeFires
    <3> QED BY <3>1 DEF ScheduleInvariant, NeverStalled
  <2> QED BY <2>2, <2>3, <2>4 DEF ScheduleInvariant
<1>11. CASE Restart \/ Crash
  BY <1>11, RebootKeeps DEF Restart, Crash
<1>12. CASE Stop
  BY <1>12 DEF Stop, ScheduleInvariant, IdleFresh, NeverStalled, QueueServed
<1>13. CASE LiveStarted
  <2>1. CASE stopping
    BY <1>13, <2>1
    DEF LiveStarted, LiveUnchanged, ScheduleInvariant, IdleFresh, NeverStalled, QueueServed,
        status, lifetime
  <2>2. CASE ~stopping
    BY <1>13, <2>2, LiveContinueKeeps DEF LiveStarted, LiveUnchanged, lifetime
  <2> QED BY <2>1, <2>2
<1>14. CASE LiveWriteOK
  BY <1>14, LiveContinueKeeps DEF LiveWriteOK, LiveUnchanged, lifetime
<1>15. CASE LiveWriteRejected \/ LiveWriteFails
  BY <1>15, DegradeKeeps DEF LiveWriteRejected, LiveWriteFails, LiveEnds, lifetime
<1>16. CASE DrainRejected \/ CallFails
  <2>1. CASE stopping
    BY <1>16, <2>1
    DEF DrainRejected, CallFails, CycleFailed, ScheduleInvariant, IdleFresh, NeverStalled,
        QueueServed, status, lifetime
  <2>2. CASE ~stopping
    BY <1>16, <2>2
    DEF DrainRejected, CallFails, CycleFailed, Degrade, ScheduleInvariant, IdleFresh,
        NeverStalled, QueueServed, lifetime
  <2> QED BY <2>1, <2>2
<1>17. CASE CycleBegins
  BY <1>17
  DEF CycleBegins, Start, ScheduleInvariant, IdleFresh, NeverStalled, QueueServed, queueing
<1>18. CASE \/ CycleStarted \/ DrainOK \/ CursorOK \/ Scan \/ PageOK \/ CheckpointOK
            \/ DirtyScan \/ DirtyOK \/ Settle \/ BoundaryOK
  <2>1. cycle # "none" /\ cycle' # "none" /\ UNCHANGED <<phase, startState, stopping, live>>
    BY <1>18
    DEF CycleStarted, DrainOK, CycleDrain, CursorOK, Scan, NextTable, PageOK, CheckpointOK,
        DirtyScan, DirtyOK, Settle, BoundaryOK, CycleUnchanged, status, lifetime, queueing
  <2>2. queue' \subseteq queue
    BY <1>18
    DEF CycleStarted, DrainOK, CursorOK, Scan, PageOK, CheckpointOK, DirtyScan, DirtyOK,
        Settle, Retained, BoundaryOK, CycleUnchanged, queueing
  <2> QED BY <2>1, <2>2 DEF ScheduleInvariant, IdleFresh, NeverStalled, QueueServed
<1>19. CASE PassStart
  <2>1. CASE stopping
    BY <1>19, <2>1
    DEF PassStart, CycleUnchanged, ScheduleInvariant, IdleFresh, NeverStalled, QueueServed, lifetime
  <2>2. CASE ~stopping
    BY <1>19, <2>2, CarriedKeeps DEF PassStart, CycleDrain, Carried
  <2> QED BY <2>1, <2>2
<1>20. CASE PassEnds
  BY <1>20
  DEF PassEnds, PassQuiet, ScheduleInvariant, IdleFresh, NeverStalled, QueueServed, status,
      lifetime, queueing
<1>21. CASE RetentionWake
  BY <1>21, ReconcileKeeps DEF RetentionWake, RetentionUnchanged, lifetime, queueing
<1>22. CASE RetentionResumes \/ UNCHANGED vars
  <2>1. UNCHANGED <<phase, startState, stopping, timer, wake, queue, live, cycle>>
    BY <1>22
    DEF RetentionResumes, RetentionUnchanged, vars, status, lifetime, queueing
  <2> QED BY <2>1 DEF ScheduleInvariant, IdleFresh, NeverStalled, QueueServed
<1> QED
  BY <1>1, <1>2, <1>3, <1>4, <1>5, <1>6, <1>7, <1>8, <1>9, <1>10, <1>11, <1>12, <1>13,
     <1>14, <1>15, <1>16, <1>17, <1>18, <1>19, <1>20, <1>21, <1>22
  DEF Next, Ingest, Scheduling, LiveFlush, Cycle, Fault

\* The scheduling invariant holds in every reachable state.
LEMMA ScheduleCorrect == Spec => []ScheduleInvariant
<1>1. Init => ScheduleInvariant
  BY DEF Init, ScheduleInvariant, IdleFresh, NeverStalled, QueueServed
<1> QED BY <1>1, ScheduleStep, PTL DEF Spec

\* A worker that was started and not stopped always has a timer, a start or a
\* cycle ahead of it, whatever failed and however its wakes and timers raced.
THEOREM NeverStalledCorrect == Spec => []NeverStalled
<1>1. ScheduleInvariant => NeverStalled
  BY DEF ScheduleInvariant
<1> QED BY <1>1, ScheduleCorrect, PTL

\* A sample in the live queue always has a carrier, so that no interleaving of
\* #enqueue with the end of a flush, a cycle or a failed start strands it.
THEOREM QueueServedCorrect == Spec => []QueueServed
<1>1. ScheduleInvariant => QueueServed
  BY DEF ScheduleInvariant
<1> QED BY <1>1, ScheduleCorrect, PTL
=============================================================================
