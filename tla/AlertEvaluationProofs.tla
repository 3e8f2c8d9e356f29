------------------------ MODULE AlertEvaluationProofs ------------------------
(***************************************************************************)
(* Proofs about AlertEvaluation for any rules, sensors, thresholds and     *)
(* durations, any lead and lag of samples, and any number of edits and     *)
(* faults: types, the engine's invariant, what a finished tick and a       *)
(* shortened queue vouch for, and the refinement of AlertEpisodes.         *)
(***************************************************************************)
EXTENDS AlertEvaluation, SequenceTheorems, TLAPS

-----------------------------------------------------------------------------
(* One pair of a rule and a sensor *)

\* What CalmBefore and OpenAgrees say of a pair with state st, event al and
\* newest calm sample ca.
Sound(st, al, ca) ==
    /\ st # NoState /\ st.since # None => /\ st.since <= st.latest
                                          /\ ca # None => ca < st.since
                                          /\ st.latest - st.since >= Duration =>
                                               al # NoAlert /\ al.open
    /\ st # NoState /\ st.since = None => ~(al # NoAlert /\ al.open)
    /\ ca # None => st # NoState /\ ca <= st.latest
    /\ al # NoAlert /\ al.open /\ ca # None => ca < al.start

\* The part of the invariant that does not concern the tick.
PairsSound == /\ StateOfRule
              /\ \A p \in Pair : /\ Sound(state[p], alert[p], calm[p])
                                 /\ ~Stored(p[1]) => ~Open(p)

\* A pair is typed, as state, event and calm sample.
Typed(st, al, ca) == /\ st \in State \cup {NoState} /\ al \in Episode \cup {NoAlert}
                     /\ ca \in Moment \cup {None}

LEMMA Numbers ==
    /\ Moment \subseteq Nat /\ 0 .. MaxTime \subseteq Moment /\ None \notin Moment
    /\ {Duration, FreshFor, Lead, Escalation, Reminder, MaxTime, MaxSamples, MaxEdits, MaxFaults}
         \subseteq Nat
  BY BoundAssumption, NullAssumption DEF BoundAssumption, NullAssumption, Moment

LEMMA Nulls == /\ NoState \notin State /\ NoAlert \notin Episode /\ NoSample \notin Sample
               /\ NoRule \notin Live /\ Retired \notin Live /\ NoRule # Retired
  BY RecordAssumption DEF RecordAssumption

LEMMA InvariantByPair == AlertInvariant <=> PairsSound /\ TickAhead
  BY DEF AlertInvariant, PairsSound, CalmBefore, OpenAgrees, Sound, Holding, Open

LEMMA TypedPair ==
    ASSUME TypeOK, NEW p \in Pair PROVE Typed(state[p], alert[p], calm[p])
  BY DEF TypeOK, Typed

\* A sample that is applied leaves the pair typed.
LEMMA AppliedTyped ==
    ASSUME TypeOK, NEW p \in Pair, NEW at \in Moment, NEW v
    PROVE  /\ Typed(NextState(p, at, v), NextAlert(p, at, v), NextCalm(p, at, v))
           /\ Since(p, at, v) \in Moment \cup {None}
           /\ Met(p, v) => Since(p, at, v) \in Moment
  <1>. /\ state[p] \in State \cup {NoState} /\ alert[p] \in Episode \cup {NoAlert}
       /\ calm[p] \in Moment \cup {None}
    BY DEF TypeOK
  <1>1. Since(p, at, v) \in Moment \cup {None} /\ (Met(p, v) => Since(p, at, v) \in Moment)
    BY DEF Since, State
  <1>2. NextState(p, at, v) \in State \cup {NoState}
    BY <1>1 DEF NextState, State
  <1>3. NextAlert(p, at, v) \in Episode \cup {NoAlert}
    <2>1. {<<"initial", 0>>} \subseteq Row
      BY DEF Row
    <2>2. Met(p, v) => [start |-> Since(p, at, v), open |-> TRUE, acked |-> FALSE,
                        rows |-> {<<"initial", 0>>}] \in Episode
      BY <1>1, <2>1 DEF Episode
    <2>3. Open(p) => [start |-> alert[p].start, open |-> FALSE, acked |-> alert[p].acked,
                      rows |-> alert[p].rows] \in Episode
      BY DEF Episode, Open
    <2>. QED  BY <2>2, <2>3 DEF NextAlert
  <1>4. NextCalm(p, at, v) \in Moment \cup {None}
    BY DEF NextCalm
  <1>. QED  BY <1>1, <1>2, <1>3, <1>4 DEF Typed

\* How the event of a pair changes when a sample is applied: it is raised, or
\* it ends and is the same otherwise.
LEMMA AppliedTurns ==
    ASSUME TypeOK, NEW p \in Pair, NEW at \in Moment, NEW v, NextAlert(p, at, v) # alert[p]
    PROVE  /\ ~Fenced(p, at) /\ NextAlert(p, at, v) \in Episode
           /\ \/ /\ Met(p, v) /\ ~Open(p) /\ NextAlert(p, at, v).open
                 /\ NextAlert(p, at, v).start = Since(p, at, v)
                 /\ ~NextAlert(p, at, v).acked
              \/ /\ ~Met(p, v) /\ Open(p) /\ ~NextAlert(p, at, v).open
                 /\ NextAlert(p, at, v).acked = alert[p].acked
                 /\ NextAlert(p, at, v).start = alert[p].start
                 /\ NextAlert(p, at, v).rows = alert[p].rows
  <1>0. ~Fenced(p, at)
    BY DEF NextAlert
  <1>1. CASE Met(p, v)
    <2>1. /\ ~Open(p)
          /\ NextAlert(p, at, v) = [start |-> Since(p, at, v), open |-> TRUE, acked |-> FALSE,
                                    rows |-> {<<"initial", 0>>}]
      BY <1>1 DEF NextAlert
    <2>2. {<<"initial", 0>>} \subseteq Row
      BY DEF Row
    <2>3. NextAlert(p, at, v) \in Episode
      BY <1>1, <2>1, <2>2, AppliedTyped DEF Episode
    <2>. QED  BY <1>0, <1>1, <2>1, <2>3
  <1>2. CASE ~Met(p, v)
    <2>1. /\ Open(p)
          /\ NextAlert(p, at, v) = [start |-> alert[p].start, open |-> FALSE,
                                    acked |-> alert[p].acked, rows |-> alert[p].rows]
      BY <1>2 DEF NextAlert
    <2>2. alert[p] \in Episode
      BY <2>1 DEF Open, TypeOK
    <2>3. NextAlert(p, at, v) \in Episode
      BY <2>1, <2>2 DEF Episode
    <2>. QED  BY <1>0, <1>2, <2>1, <2>3
  <1>. QED  BY <1>1, <1>2

\* A sample that is applied leaves the pair sound.
LEMMA AppliedSound ==
    ASSUME TypeOK, NEW p \in Pair, NEW at \in Moment, NEW v,
           Sound(state[p], alert[p], calm[p])
    PROVE  Sound(NextState(p, at, v), NextAlert(p, at, v), NextCalm(p, at, v))
  <1>. DEFINE since == Since(p, at, v)
              st == NextState(p, at, v)  al == NextAlert(p, at, v)  ca == NextCalm(p, at, v)
  <1>0. /\ state[p] \in State \cup {NoState} /\ alert[p] \in Episode \cup {NoAlert}
        /\ calm[p] \in Moment \cup {None} /\ Moment \subseteq Nat /\ None \notin Moment
        /\ Duration \in Nat
    BY Numbers DEF TypeOK
  <1>1. CASE Fenced(p, at)
    <2>1. st = state[p] /\ al = alert[p] /\ ca = calm[p]
      BY <1>1 DEF NextState, NextAlert, NextCalm
    <2>. QED  BY <2>1
  <1>2. CASE ~Fenced(p, at) /\ ~Met(p, v)
    <2>1. st = [latest |-> at, since |-> None] /\ ca = at
      BY <1>2 DEF NextState, NextCalm, Since
    <2>2. st # NoState /\ st.latest = at /\ st.since = None
      BY <2>1, <1>0, Nulls DEF State
    <2>3. ~(al # NoAlert /\ al.open)
      BY <1>2, AppliedTurns DEF NextAlert, Open
    <2>. QED  BY <1>0, <2>1, <2>2, <2>3 DEF Sound
  <1>3. CASE ~Fenced(p, at) /\ Met(p, v)
    <2>1. st = [latest |-> at, since |-> since] /\ ca = calm[p] /\ since \in Moment
      BY <1>3, AppliedTyped DEF NextState, NextCalm
    <2>2. st # NoState /\ st.latest = at /\ st.since = since /\ since # None
      BY <2>1, <1>0, Nulls DEF State
    <2>3. /\ since <= at
          /\ ca # None => ca < since /\ ca <= at
      <3>1. CASE state[p] = NoState
        BY <1>0, <1>3, <2>1, <3>1 DEF Since, Sound
      <3>2. CASE state[p] # NoState /\ state[p].since = None
        BY <1>0, <1>3, <2>1, <3>2 DEF Since, Sound, Fenced, State
      <3>3. CASE state[p] # NoState /\ state[p].since # None
        <4>1. state[p].latest \in Nat /\ state[p].since \in Nat /\ at \in Nat
          BY <1>0, <3>3 DEF State
        <4>2. state[p].latest < at /\ since = state[p].since
          BY <1>3, <3>3, <4>1 DEF Fenced, Since
        <4>3. /\ state[p].since <= state[p].latest
              /\ ca # None => ca < state[p].since /\ ca <= state[p].latest /\ ca \in Nat
          BY <1>0, <2>1, <3>3 DEF Sound
        <4>. QED  BY <4>1, <4>2, <4>3
      <3>. QED  BY <3>1, <3>2, <3>3
    <2>4. CASE Open(p) \/ at - since < Duration
      <3>1. al = alert[p]
        BY <1>3, <2>4 DEF NextAlert
      <3>2. al # NoAlert /\ al.open /\ ca # None => ca < al.start
        BY <2>1, <3>1 DEF Sound
      <3>3. at - since >= Duration => al # NoAlert /\ al.open
        BY <1>0, <2>1, <2>4, <3>1 DEF Open
      <3>. QED  BY <2>2, <2>3, <3>2, <3>3 DEF Sound
    <2>5. CASE ~Open(p) /\ ~(at - since < Duration)
      <3>1. al = [start |-> since, open |-> TRUE, acked |-> FALSE, rows |-> {<<"initial", 0>>}]
        BY <1>3, <2>5 DEF NextAlert
      <3>2. al # NoAlert /\ al.open /\ al.start = since
        <4>1. {<<"initial", 0>>} \subseteq Row
          BY DEF Row
        <4>2. al \in Episode
          BY <2>1, <3>1, <4>1 DEF Episode
        <4>3. al.open = TRUE /\ al.start = since
          BY <3>1
        <4>. QED  BY <4>2, <4>3, Nulls
      <3>3. ca # None => ca < al.start
        BY <2>3, <3>2
      <3>4. st.since <= st.latest /\ (ca # None => ca < st.since /\ ca <= st.latest)
        BY <2>2, <2>3
      <3>. QED  BY <2>2, <3>2, <3>3, <3>4 DEF Sound
    <2>. QED  BY <2>4, <2>5
  <1>. QED  BY <1>1, <1>2, <1>3

-----------------------------------------------------------------------------
(* Types *)

LEMMA ApplyTypes ==
    ASSUME TypeOK, NEW P, NEW at \in Moment, NEW v, Apply(P, at, v)
    PROVE  /\ state' \in [Pair -> State \cup {NoState}]
           /\ alert' \in [Pair -> Episode \cup {NoAlert}]
           /\ calm' \in [Pair -> Moment \cup {None}]
  <1>1. \A p \in Pair : /\ NextState(p, at, v) \in State \cup {NoState}
                        /\ NextAlert(p, at, v) \in Episode \cup {NoAlert}
                        /\ NextCalm(p, at, v) \in Moment \cup {None}
    BY AppliedTyped DEF Typed
  <1>2. \A p \in Pair : /\ state[p] \in State \cup {NoState}
                        /\ alert[p] \in Episode \cup {NoAlert}
                        /\ calm[p] \in Moment \cup {None}
    BY DEF TypeOK
  <1>3. state' \in [Pair -> State \cup {NoState}]
    BY <1>1, <1>2 DEF Apply
  <1>4. alert' \in [Pair -> Episode \cup {NoAlert}]
    BY <1>1, <1>2 DEF Apply
  <1>5. calm' \in [Pair -> Moment \cup {None}]
    BY <1>1, <1>2 DEF Apply
  <1>. QED  BY <1>3, <1>4, <1>5

\* An entry leaves the queue.
LEMMA QueueCut ==
    ASSUME TypeOK, NEW i \in DOMAIN queue
    PROVE  /\ queue[i] \in Sample /\ queue[i].at \in Moment
           /\ SubSeq(queue, 1, i - 1) \o SubSeq(queue, i + 1, Len(queue)) \in Seq(Sample)
  <1>1. queue \in Seq(Sample) /\ Len(queue) \in Nat /\ i \in 1 .. Len(queue)
    BY DEF TypeOK
  <1>2. queue[i] \in Sample
    BY <1>1
  <1>3. SubSeq(queue, 1, i - 1) \in Seq(Sample)
    BY <1>1, SubSeqProperties
  <1>4. SubSeq(queue, i + 1, Len(queue)) \in Seq(Sample)
    BY <1>1, SubSeqProperties
  <1>. QED  BY <1>2, <1>3, <1>4, ConcatProperties DEF Sample

LEMMA InitTypes == Init => TypeOK
  <1>. SUFFICES ASSUME Init PROVE TypeOK
    OBVIOUS
  <1>1. queue \in Seq(Sample)
    BY DEF Init
  <1>2. {0} \subseteq 0 .. MaxTime /\ {0} \subseteq 0 .. MaxSamples /\ {0} \subseteq 0 .. MaxEdits
        /\ {0} \subseteq 0 .. MaxFaults
    BY Numbers
  <1>. QED  BY <1>1, <1>2 DEF Init, TypeOK

LEMMA NextTypes ==
    ASSUME TypeOK, TickAhead, [Next]_vars PROVE TypeOK'
  <1>. USE DEF tables, engine, bounds
  <1>1. ASSUME NEW x \in Sample, Ingest(x) PROVE TypeOK'
    <2>1. queue' \in Seq(Sample)
      BY <1>1, AppendProperties DEF Ingest, TypeOK
    <2>2. latest' \in [Sensor -> Sample \cup {NoSample}]
      BY <1>1 DEF Ingest, TypeOK
    <2>3. samples' \in 0 .. MaxSamples
      BY <1>1, Numbers DEF Ingest, TypeOK
    <2>. QED  BY <1>1, <2>1, <2>2, <2>3 DEF Ingest, TypeOK
  <1>21. ASSUME NEW x \in Sample, Backfill(x) PROVE TypeOK'
    <2>1. latest' \in [Sensor -> Sample \cup {NoSample}]
      BY <1>21 DEF Backfill, TypeOK
    <2>2. edits' \in 0 .. MaxEdits
      BY <1>21, Numbers DEF Backfill, TypeOK
    <2>. QED  BY <1>21, <2>1, <2>2 DEF Backfill, TypeOK
  <1>2. CASE Evaluate
    <2>1. PICK i \in Pending :
            /\ Apply(ForSample(queue[i]), queue[i].at, queue[i].value)
            /\ queue' = SubSeq(queue, 1, i - 1) \o SubSeq(queue, i + 1, Len(queue))
      BY <1>2 DEF Evaluate
    <2>2. queue' \in Seq(Sample) /\ queue[i].at \in Moment
      BY <2>1, QueueCut DEF Pending
    <2>3. /\ state' \in [Pair -> State \cup {NoState}]
          /\ alert' \in [Pair -> Episode \cup {NoAlert}]
          /\ calm' \in [Pair -> Moment \cup {None}]
      BY <2>1, <2>2, ApplyTypes
    <2>. QED  BY <1>2, <2>2, <2>3 DEF Evaluate, TypeOK
  <1>3. CASE IngestEnds
    BY <1>3 DEF IngestEnds, TypeOK
  <1>4. CASE TickBegins
    BY <1>4 DEF TickBegins, TypeOK
  <1>5. CASE QueueDrained
    BY <1>5 DEF QueueDrained, TypeOK
  <1>6. ASSUME NEW p \in Pair, WallClock(p) PROVE TypeOK'
    <2>1. now \in Moment
      BY Numbers DEF TypeOK
    <2>2. /\ state' \in [Pair -> State \cup {NoState}]
          /\ alert' \in [Pair -> Episode \cup {NoAlert}]
          /\ calm' \in [Pair -> Moment \cup {None}]
      <3>1. CASE Apply({p}, now, latest[p[2]].value)
        BY <2>1, <3>1, ApplyTypes
      <3>2. CASE UNCHANGED <<state, alert, calm>>
        BY <3>2 DEF TypeOK
      <3>. QED  BY <1>6, <3>1, <3>2 DEF WallClock
    <2>. QED  BY <1>6, <2>2 DEF WallClock, TypeOK
  <1>7. CASE ClockDone
    BY <1>7 DEF ClockDone, TypeOK
  <1>8. ASSUME NEW p \in Pair, FollowUp(p) PROVE TypeOK'
    <2>0. Urgent(p)
      BY <1>8 DEF FollowUp, TickAhead
    <2>1. alert[p] \in Episode /\ DueRows(p) \subseteq Row
      BY <2>0 DEF TypeOK, DueRows, Urgent, Open
    <2>2. [start |-> alert[p].start, open |-> alert[p].open, acked |-> alert[p].acked,
           rows |-> alert[p].rows \cup DueRows(p)] \in Episode
      BY <2>1 DEF Episode
    <2>3. alert' \in [Pair -> Episode \cup {NoAlert}]
      BY <1>8, <2>2 DEF FollowUp, TypeOK
    <2>. QED  BY <1>8, <2>3 DEF FollowUp, TypeOK
  <1>9. CASE FollowUpsDone
    BY <1>9 DEF FollowUpsDone, TypeOK
  <1>10. CASE VerificationEnds
    BY <1>10 DEF VerificationEnds, TypeOK
  <1>11. ASSUME NEW r \in Rule, Edited(r), alert' = alert, NEW new \in Live \cup {Retired},
                rule' = [rule EXCEPT ![r] = new]
         PROVE  TypeOK'
    <2>1. /\ rule' \in [Rule -> Live \cup {NoRule, Retired}]
          /\ state' \in [Pair -> State \cup {NoState}] /\ calm' \in [Pair -> Moment \cup {None}]
      BY <1>11 DEF Edited, TypeOK
    <2>2. edits' \in 0 .. MaxEdits
      BY <1>11, Numbers DEF Edited, TypeOK
    <2>. QED  BY <1>11, <2>1, <2>2 DEF Edited, TypeOK
  <1>12. ASSUME NEW r \in Rule, RetireRule(r) PROVE TypeOK'
    <2>1. /\ rule' \in [Rule -> Live \cup {NoRule, Retired}]
          /\ state' \in [Pair -> State \cup {NoState}] /\ calm' \in [Pair -> Moment \cup {None}]
      BY <1>12 DEF RetireRule, Edited, TypeOK
    <2>2. edits' \in 0 .. MaxEdits
      BY <1>12, Numbers DEF RetireRule, Edited, TypeOK
    <2>3. \A p \in Pair : Open(p) => [start |-> alert[p].start, open |-> FALSE,
                                      acked |-> alert[p].acked, rows |-> alert[p].rows] \in Episode
      BY DEF TypeOK, Open, Episode
    <2>4. \A p \in Pair : alert[p] \in Episode \cup {NoAlert}
      BY DEF TypeOK
    <2>5. alert' \in [Pair -> Episode \cup {NoAlert}]
      BY <1>12, <2>3, <2>4 DEF RetireRule
    <2>. QED  BY <1>12, <2>1, <2>2, <2>5 DEF RetireRule, Edited, TypeOK
  <1>13. ASSUME NEW r \in Rule, NEW new \in Live, SaveRule(r, new) \/ UpdateRule(r, new)
         PROVE  TypeOK'
    BY <1>13, <1>11 DEF SaveRule, UpdateRule
  <1>14. ASSUME NEW p \in Pair, Acknowledge(p) PROVE TypeOK'
    <2>1. alert[p] \in Episode
      BY <1>14 DEF Acknowledge, TypeOK
    <2>2. [start |-> alert[p].start, open |-> alert[p].open, acked |-> TRUE,
           rows |-> alert[p].rows] \in Episode
      BY <2>1 DEF Episode
    <2>3. alert' \in [Pair -> Episode \cup {NoAlert}]
      BY <1>14, <2>2 DEF Acknowledge, TypeOK
    <2>. QED  BY <1>14, <2>3 DEF Acknowledge, TypeOK
  <1>15. ASSUME NEW s \in Sensor, DeleteHouse(s) PROVE TypeOK'
    <2>1. edits' \in 0 .. MaxEdits
      BY <1>15, Numbers DEF DeleteHouse, TypeOK
    <2>. QED  BY <1>15, <2>1 DEF DeleteHouse, TypeOK
  <1>16. CASE TimePasses
    <2>1. now' \in 0 .. MaxTime
      BY <1>16, Numbers DEF TimePasses, TypeOK
    <2>. QED  BY <1>16, <2>1 DEF TimePasses, TypeOK
  <1>17. CASE CallFails
    <2>1. faults' \in 0 .. MaxFaults
      BY <1>17, Numbers DEF CallFails, TypeOK
    <2>. QED  BY <1>17, <2>1 DEF CallFails, TypeOK
  <1>18. CASE Crash
    <2>1. faults' \in 0 .. MaxFaults
      BY <1>18, Numbers DEF Crash, TypeOK
    <2>. QED  BY <1>18, <2>1 DEF Crash, TypeOK
  <1>19. CASE Restart
    BY <1>19 DEF Restart, TypeOK
  <1>20. CASE UNCHANGED vars
    BY <1>20 DEF vars, TypeOK
  <1>. QED
    BY <1>1, <1>2, <1>3, <1>4, <1>5, <1>6, <1>7, <1>8, <1>9, <1>10, <1>12, <1>13, <1>14, <1>15,
       <1>16, <1>17, <1>18, <1>19, <1>20, <1>21 DEF Next, Tick

-----------------------------------------------------------------------------
(* The pairs of rules and sensors *)

\* A sample that is applied to pairs of live rules that watch its sensor.
LEMMA ApplySound ==
    ASSUME TypeOK, PairsSound, NEW P, NEW at \in Moment, NEW v, Apply(P, at, v), rule' = rule,
           \A p \in P : Stored(p[1]) /\ rule[p[1]].sensor \in {AnySensor, p[2]}
    PROVE  PairsSound'
  <1>1. ASSUME NEW p \in Pair PROVE Sound(state[p], alert[p], calm[p])'
    <2>1. Sound(state[p], alert[p], calm[p])
      BY DEF PairsSound
    <2>2. CASE p \in P
      <3>1. /\ state'[p] = NextState(p, at, v) /\ alert'[p] = NextAlert(p, at, v)
            /\ calm'[p] = NextCalm(p, at, v)
        BY <2>2 DEF Apply
      <3>2. Sound(NextState(p, at, v), NextAlert(p, at, v), NextCalm(p, at, v))
        BY <2>1, AppliedSound
      <3>. QED  BY <3>1, <3>2 DEF Sound
    <2>3. CASE p \notin P
      <3>1. state'[p] = state[p] /\ alert'[p] = alert[p] /\ calm'[p] = calm[p]
        BY <2>3 DEF Apply
      <3>. QED  BY <3>1, <2>1 DEF Sound
    <2>. QED  BY <2>2, <2>3
  <1>2. ASSUME NEW p \in Pair, ~Stored(p[1])' PROVE ~Open(p)'
    <2>1. p \notin P /\ ~Stored(p[1])
      BY <1>2 DEF Stored
    <2>2. alert'[p] = alert[p] /\ ~Open(p)
      BY <2>1 DEF Apply, PairsSound
    <2>. QED  BY <2>2 DEF Open
  <1>3. StateOfRule'
    <2>. SUFFICES ASSUME NEW p \in Pair, state'[p] # NoState
                  PROVE  Stored(p[1])' /\ rule'[p[1]].sensor \in {AnySensor, p[2]}
      BY DEF StateOfRule
    <2>1. CASE p \in P
      BY <2>1 DEF Stored
    <2>2. CASE p \notin P
      <3>1. state[p] # NoState
        BY <2>2 DEF Apply
      <3>. QED  BY <3>1 DEF PairsSound, StateOfRule, Stored
    <2>. QED  BY <2>1, <2>2
  <1>. QED  BY <1>1, <1>2, <1>3 DEF PairsSound

\* Nothing changes but who has acknowledged an event and the rows it has.
LEMMA SameOpenSound ==
    ASSUME PairsSound, UNCHANGED <<state, rule, calm>>,
           \A p \in Pair : \/ alert'[p] = alert[p]
                           \/ /\ alert[p] # NoAlert /\ alert'[p] # NoAlert
                              /\ alert'[p].open = alert[p].open /\ alert'[p].start = alert[p].start
    PROVE  PairsSound'
  <1>1. ASSUME NEW p \in Pair PROVE Sound(state[p], alert[p], calm[p])' /\ Open(p)' = Open(p)
    BY DEF PairsSound, Sound, Open
  <1>. QED  BY <1>1 DEF PairsSound, StateOfRule, Stored

\* The state of an edited rule is forgotten.
LEMMA EditedSound ==
    ASSUME PairsSound, NEW r \in Rule, Edited(r), NEW new, rule' = [rule EXCEPT ![r] = new],
           TypeOK, \A p \in Pair : p[1] # r => alert'[p] = alert[p],
           \/ new \in Live /\ alert' = alert
           \/ \A p \in Pair : p[1] = r => ~Open(p)'
    PROVE  PairsSound'
  <1>1. ASSUME NEW p \in Pair, p[1] = r
        PROVE  /\ state'[p] = NoState /\ calm'[p] = None
               /\ ~Stored(p[1])' => ~Open(p)'
    <2>1. state'[p] = NoState /\ calm'[p] = None
      BY <1>1 DEF Edited
    <2>2. new \in Live => Stored(p[1])'
      BY <1>1, Nulls DEF Stored, TypeOK
    <2>. QED  BY <1>1, <2>1, <2>2
  <1>2. ASSUME NEW p \in Pair, p[1] # r
        PROVE  /\ state'[p] = state[p] /\ calm'[p] = calm[p] /\ alert'[p] = alert[p]
               /\ rule'[p[1]] = rule[p[1]]
    BY <1>2 DEF Edited, TypeOK, Pair
  <1>3. ASSUME NEW p \in Pair
        PROVE  Sound(state[p], alert[p], calm[p])' /\ (~Stored(p[1])' => ~Open(p)')
    BY <1>1, <1>2 DEF PairsSound, Sound, Stored, Open
  <1>4. StateOfRule'
    BY <1>1, <1>2 DEF PairsSound, StateOfRule, Stored
  <1>. QED  BY <1>3, <1>4 DEF PairsSound

LEMMA InitSound == Init => PairsSound /\ TickAhead
  BY Nulls DEF Init, PairsSound, StateOfRule, Sound, Stored, Open, TickAhead

LEMMA NextSound ==
    ASSUME TypeOK, PairsSound, TickAhead, [Next]_vars PROVE PairsSound'
  <1>. USE DEF tables, engine, bounds
  <1>1. CASE Evaluate
    <2>1. PICK i \in Pending : Apply(ForSample(queue[i]), queue[i].at, queue[i].value)
      BY <1>1 DEF Evaluate
    <2>2. queue[i].at \in Moment
      BY <2>1, QueueCut DEF Pending
    <2>3. \A p \in ForSample(queue[i]) : Stored(p[1]) /\ rule[p[1]].sensor \in {AnySensor, p[2]}
      BY DEF ForSample, Applies, Enabled, Listed
    <2>. QED  BY <1>1, <2>1, <2>2, <2>3, ApplySound DEF Evaluate
  <1>2. ASSUME NEW p \in Pair, WallClock(p) PROVE PairsSound'
    <2>1. now \in Moment
      BY Numbers DEF TypeOK
    <2>2. CASE UNCHANGED <<state, alert, calm>>
      BY <1>2, <2>2 DEF WallClock, PairsSound, StateOfRule, Sound, Stored, Open
    <2>3. CASE Apply({p}, now, latest[p[2]].value) /\ Applies(p, p[2])
      <3>1. Stored(p[1]) /\ rule[p[1]].sensor \in {AnySensor, p[2]}
        BY <2>3 DEF Applies, Enabled, Listed
      <3>. QED  BY <1>2, <2>1, <2>3, <3>1, ApplySound DEF WallClock
    <2>. QED  BY <1>2, <2>2, <2>3 DEF WallClock
  <1>3. ASSUME NEW p \in Pair, FollowUp(p) \/ Acknowledge(p) PROVE PairsSound'
    <2>1. alert[p] # NoAlert
      BY <1>3 DEF FollowUp, Acknowledge, TickAhead, Urgent, Open
    <2>2. \A q \in Pair : q # p => alert'[q] = alert[q]
      BY <1>3 DEF FollowUp, Acknowledge, TypeOK
    <2>3. alert'[p].open = alert[p].open /\ alert'[p].start = alert[p].start
      BY <1>3, <2>1 DEF FollowUp, Acknowledge, TypeOK
    <2>4. alert'[p] # NoAlert
      <3>1. alert[p] \in Episode /\ DueRows(p) \subseteq Row
        BY <2>1 DEF TypeOK, DueRows
      <3>2. CASE FollowUp(p)
        <4>1. alert'[p] = [start |-> alert[p].start, open |-> alert[p].open,
                           acked |-> alert[p].acked, rows |-> alert[p].rows \cup DueRows(p)]
          BY <3>2 DEF FollowUp, TypeOK
        <4>. QED  BY <3>1, <4>1, Nulls DEF Episode
      <3>3. CASE Acknowledge(p)
        <4>1. alert'[p] = [start |-> alert[p].start, open |-> alert[p].open,
                           acked |-> TRUE, rows |-> alert[p].rows]
          BY <3>3 DEF Acknowledge, TypeOK
        <4>2. alert'[p] \in Episode
          BY <3>1, <4>1 DEF Episode
        <4>. QED  BY <4>2, Nulls
      <3>. QED  BY <1>3, <3>2, <3>3
    <2>. QED  BY <1>3, <2>1, <2>2, <2>3, <2>4, SameOpenSound DEF FollowUp, Acknowledge
  <1>4. ASSUME NEW r \in Rule, NEW new \in Live, SaveRule(r, new) \/ UpdateRule(r, new)
        PROVE  PairsSound'
    BY <1>4, EditedSound DEF SaveRule, UpdateRule
  <1>5. ASSUME NEW r \in Rule, RetireRule(r) PROVE PairsSound'
    <2>1. \A p \in Pair : p[1] # r => alert'[p] = alert[p]
      BY <1>5 DEF RetireRule
    <2>2. \A p \in Pair : p[1] = r => ~Open(p)'
      BY <1>5 DEF RetireRule, Open
    <2>. QED  BY <1>5, <2>1, <2>2, EditedSound DEF RetireRule
  <1>6. CASE UNCHANGED <<state, alert, rule, calm>>
    BY <1>6 DEF PairsSound, StateOfRule, Sound, Stored, Open
  <1>7. ASSUME \/ \E x \in Sample : Ingest(x) \/ Backfill(x)
               \/ IngestEnds \/ TickBegins \/ QueueDrained \/ ClockDone \/ FollowUpsDone
               \/ VerificationEnds \/ (\E s \in Sensor : DeleteHouse(s))
               \/ TimePasses \/ CallFails \/ Crash \/ Restart \/ UNCHANGED vars
        PROVE  UNCHANGED <<state, alert, rule, calm>>
    BY <1>7 DEF Ingest, Backfill, IngestEnds, TickBegins, QueueDrained, ClockDone, FollowUpsDone,
                VerificationEnds, DeleteHouse, TimePasses, CallFails, Crash, Restart, vars
  <1>. QED  BY <1>1, <1>2, <1>3, <1>4, <1>5, <1>6, <1>7 DEF Next, Tick

-----------------------------------------------------------------------------
(* What the tick has left to do *)

\* What is due and vouched for is applied and thereby raised.
LEMMA ClockRaises ==
    ASSUME TypeOK, PairsSound, NEW p \in Pair, WallClock(p)
    PROVE  (Overdue(p) => ~Vouched(p[2]))'
  <1>. SUFFICES ASSUME Overdue(p)', Vouched(p[2])' PROVE FALSE
    OBVIOUS
  <1>0. /\ Moment \subseteq Nat /\ None \notin Moment /\ now \in Moment /\ Duration \in Nat
        /\ state[p] \in State \cup {NoState} /\ alert[p] \in Episode \cup {NoAlert}
    BY Numbers DEF TypeOK
  <1>1. Vouched(p[2]) /\ Enabled(p[1])
    BY DEF WallClock, Vouched, Overdue, Enabled, Listed, Stored
  <1>2. CASE UNCHANGED state /\ UNCHANGED alert /\ ~Applies(p, p[2])
    <2>1. state[p] # NoState
      BY <1>2 DEF Overdue
    <2>. QED  BY <1>1, <1>2, <2>1 DEF PairsSound, StateOfRule, Applies
  <1>3. CASE Apply({p}, now, latest[p[2]].value)
    <2>. DEFINE v == latest[p[2]].value
                st == NextState(p, now, v)
                al == NextAlert(p, now, v)
    <2>1. state'[p] = st /\ alert'[p] = al
      BY <1>3 DEF Apply
    <2>2. Sound(st, al, NextCalm(p, now, v))
      BY <1>0, AppliedSound DEF PairsSound
    <2>3. /\ st # NoState /\ st.since # None /\ st.since + Duration <= now
          /\ ~(al # NoAlert /\ al.open)
      BY <2>1 DEF Overdue, Open, WallClock
    <2>4. st \in State
      <3>1. Typed(st, al, NextCalm(p, now, v))
        BY <1>0, AppliedTyped
      <3>. HIDE DEF st, al
      <3>. QED  BY <2>3, <3>1 DEF Typed
    <2>5. st.latest \in Nat /\ st.since \in Nat /\ now \in Nat
      BY <1>0, <2>3, <2>4 DEF State
    <2>6. st.latest >= now
      <3>1. CASE Fenced(p, now)
        BY <1>0, <2>5, <3>1 DEF Fenced, NextState, State
      <3>2. CASE ~Fenced(p, now)
        <4>1. st = [latest |-> now, since |-> Since(p, now, v)]
          BY <3>2 DEF NextState
        <4>. QED  BY <2>5, <4>1
      <3>. QED  BY <3>1, <3>2
    <2>7. st.latest - st.since >= Duration
      BY <1>0, <2>3, <2>5, <2>6
    <2>. QED  BY <2>2, <2>3, <2>7 DEF Sound
  <1>. QED  BY <1>1, <1>2, <1>3 DEF WallClock

\* A pair that is looked at for follow-ups gets all the rows that are due.
LEMMA FollowUpAdds ==
    ASSUME TypeOK, TickAhead, NEW p \in Pair, FollowUp(p)
    PROVE  /\ DueRows(p)' \subseteq alert'[p].rows
           /\ \A q \in Pair : q # p => alert'[q] = alert[q]
           /\ \A q \in Pair : Open(q)' = Open(q)
  <1>1. Urgent(p)
    BY DEF FollowUp, TickAhead
  <1>2. alert'[p] = [start |-> alert[p].start, open |-> alert[p].open, acked |-> alert[p].acked,
                     rows |-> alert[p].rows \cup DueRows(p)]
    BY DEF FollowUp, TypeOK
  <1>3. alert'[p].start = alert[p].start /\ alert'[p].open = alert[p].open
        /\ alert'[p].rows = alert[p].rows \cup DueRows(p)
    BY <1>2
  <1>4. now' = now
    BY DEF FollowUp
  <1>5. DueRows(p)' = DueRows(p)
    BY <1>3, <1>4 DEF DueRows, Elapsed
  <1>6. \A q \in Pair : q # p => alert'[q] = alert[q]
    BY DEF FollowUp, TypeOK
  <1>7. alert[p] \in Episode /\ DueRows(p) \subseteq Row
    BY <1>1 DEF Urgent, Open, TypeOK, DueRows
  <1>8. alert'[p] # NoAlert
    BY <1>2, <1>7, Nulls DEF Episode
  <1>9. \A q \in Pair : Open(q)' = Open(q)
    BY <1>1, <1>3, <1>6, <1>8 DEF Open, Urgent
  <1>. QED  BY <1>3, <1>5, <1>6, <1>9

LEMMA NextTickAhead ==
    ASSUME TypeOK, PairsSound, TickAhead, [Next]_vars PROVE TickAhead'
  <1>. USE DEF tables, engine, bounds
  <1>1. CASE work' \in {"idle", "ingest", "evaluate"} /\ todo' = {}
             /\ (work' = "evaluate" => up' /\ ticking') /\ (work' = "ingest" => up')
             /\ (~up' => ~ticking')
    BY <1>1 DEF TickAhead
  <1>2. ASSUME \/ \E x \in Sample : Ingest(x) \/ Backfill(x)
               \/ Evaluate \/ IngestEnds \/ TickBegins \/ VerificationEnds
               \/ FollowUpsDone \/ TimePasses \/ CallFails \/ Crash \/ Restart
               \/ \E r \in Rule : Edited(r)
               \/ (\E p \in Pair : Acknowledge(p)) \/ \E s \in Sensor : DeleteHouse(s)
        PROVE  TickAhead'
    <2>1. CASE \E x \in Sample : Ingest(x) \/ Backfill(x)
      BY <2>1, <1>1 DEF TickAhead, Ingest, Backfill
    <2>2. CASE Evaluate
      BY <2>2, <1>1 DEF TickAhead, Evaluate
    <2>3. CASE IngestEnds \/ TickBegins \/ VerificationEnds \/ FollowUpsDone
      BY <2>3, <1>1 DEF TickAhead, IngestEnds, TickBegins, VerificationEnds, FollowUpsDone
    <2>4. CASE TimePasses \/ Crash \/ Restart
      BY <2>4, <1>1 DEF TickAhead, TimePasses, Crash, Restart
    <2>6. CASE CallFails
      <3>1. work' = "idle" /\ todo' = {} /\ up' = up /\ (ticking' => ticking)
        BY <2>6 DEF CallFails
      <3>2. ~up' => ~ticking'
        BY <3>1 DEF TickAhead
      <3>. QED  BY <3>1, <3>2, <1>1
    <2>5. CASE \/ \E r \in Rule : Edited(r)
               \/ (\E p \in Pair : Acknowledge(p)) \/ \E s \in Sensor : DeleteHouse(s)
      BY <2>5, <1>1 DEF TickAhead, Edited, Acknowledge, DeleteHouse
    <2>. QED  BY <1>2, <2>1, <2>2, <2>3, <2>4, <2>5, <2>6
  <1>3. CASE QueueDrained
    <2>1. \A p \in Pair : Overdue(p)' => Overdue(p)
      BY <1>3 DEF QueueDrained, Overdue, Enabled, Listed, Stored, Open
    <2>2. work' = "clock" /\ todo' = {p \in Pair : Overdue(p)} /\ up' /\ ticking'
      BY <1>3 DEF QueueDrained, TickAhead
    <2>. QED  BY <2>1, <2>2 DEF TickAhead
  <1>4. ASSUME NEW p \in Pair, WallClock(p) PROVE TickAhead'
    <2>1. work' = "clock" /\ todo' = todo \ {p} /\ up' /\ ticking'
      BY <1>4 DEF WallClock, TickAhead
    <2>2. ASSUME NEW q \in Pair, q # p, Overdue(q)' PROVE Overdue(q)
      <3>1. state'[q] = state[q] /\ alert'[q] = alert[q]
        BY <1>4, <2>2 DEF WallClock, Apply
      <3>. QED  BY <1>4, <2>2, <3>1 DEF WallClock, Overdue, Enabled, Listed, Stored, Open
    <2>3. \A q \in Pair : Vouched(q[2])' => Vouched(q[2])
      BY <1>4 DEF WallClock, Vouched
    <2>4. \A q \in Pair : Overdue(q)' => q \in todo' \/ ~Vouched(q[2])'
      BY <1>4, <2>1, <2>2, <2>3, ClockRaises DEF TickAhead, WallClock
    <2>. QED  BY <2>1, <2>4 DEF TickAhead
  <1>5. CASE ClockDone
    <2>1. work' = "follow" /\ todo' = {p \in Pair : Urgent(p)} /\ up' /\ ticking'
      BY <1>5 DEF ClockDone, TickAhead
    <2>2. \A p \in Pair : /\ Overdue(p)' => Overdue(p)
                          /\ Vouched(p[2])' => Vouched(p[2])
                          /\ Urgent(p)' = Urgent(p)
      BY <1>5 DEF ClockDone, Overdue, Enabled, Listed, Stored, Open, Vouched, Urgent
    <2>3. \A p \in Pair : Overdue(p)' => ~Vouched(p[2])'
      BY <1>5, <2>2 DEF ClockDone, TickAhead
    <2>. QED  BY <2>1, <2>2, <2>3 DEF TickAhead
  <1>6. ASSUME NEW p \in Pair, FollowUp(p) PROVE TickAhead'
    <2>1. work' = "follow" /\ todo' = todo \ {p} /\ up' /\ ticking'
      BY <1>6 DEF FollowUp, TickAhead
    <2>2. \A q \in Pair : /\ Overdue(q)' => Overdue(q)
                          /\ Vouched(q[2])' => Vouched(q[2])
      BY <1>6, FollowUpAdds DEF FollowUp, Overdue, Enabled, Listed, Stored, Vouched
    <2>3. ASSUME NEW q \in Pair, q # p PROVE Urgent(q)' = Urgent(q) /\ DueRows(q)' = DueRows(q)
      <3>1. alert'[q] = alert[q]
        BY <1>6, <2>3, FollowUpAdds
      <3>2. DueRows(q)' = DueRows(q)
        BY <1>6, <3>1 DEF FollowUp, DueRows, Elapsed
      <3>3. Urgent(q)' = Urgent(q)
        BY <1>6, <3>1 DEF FollowUp, Urgent, Open, Enabled, Listed, Stored
      <3>. QED  BY <3>2, <3>3
    <2>4. ASSUME NEW q \in Pair
          PROVE  /\ Overdue(q)' => ~Vouched(q[2])'
                 /\ q \in todo' => Urgent(q)'
                 /\ Urgent(q)' => q \in todo' \/ DueRows(q)' \subseteq alert'[q].rows
      <3>1. Overdue(q)' => ~Vouched(q[2])'
        BY <1>6, <2>2 DEF FollowUp, TickAhead
      <3>2. CASE q = p
        BY <3>1, <3>2, <2>1, <1>6, FollowUpAdds
      <3>3. CASE q # p
        <4>1. alert'[q] = alert[q]
          BY <1>6, <3>3, FollowUpAdds
        <4>. QED  BY <1>6, <3>1, <3>3, <4>1, <2>1, <2>3 DEF FollowUp, TickAhead
      <3>. QED  BY <3>2, <3>3
    <2>. QED  BY <2>1, <2>4 DEF TickAhead
  <1>7. CASE UNCHANGED vars
    BY <1>7 DEF vars, TickAhead, Overdue, Enabled, Listed, Stored, Open, Vouched, Urgent, DueRows,
                Elapsed
  <1>. QED  BY <1>2, <1>3, <1>4, <1>5, <1>6, <1>7
            DEF Next, Tick, SaveRule, UpdateRule, RetireRule

-----------------------------------------------------------------------------
(* Theorems *)

IInv == TypeOK /\ PairsSound /\ TickAhead

LEMMA Inductive == Spec => []IInv
  <1>1. Init => IInv
    BY InitTypes, InitSound DEF IInv
  <1>2. IInv /\ [Next]_vars => IInv'
    BY NextTypes, NextSound, NextTickAhead DEF IInv
  <1>. QED  BY <1>1, <1>2, PTL DEF Spec

\* Every reachable state is well typed.
THEOREM TypeCorrect == Spec => []TypeOK
  <1>1. IInv => TypeOK
    BY DEF IInv
  <1>. QED  BY <1>1, Inductive, PTL

\* Rules, evaluation state and events agree whatever order samples come in, and
\* whatever edits, failed calls and crashes come between (applyAlertSample).
THEOREM InvariantCorrect == Spec => []AlertInvariant
  <1>1. IInv => AlertInvariant
    BY InvariantByPair DEF IInv
  <1>. QED  BY <1>1, Inductive, PTL

\* A tick that comes to its end has left nothing undone (tick).
THEOREM TickCompleteCorrect == Spec => []TickComplete
  <1>1. IInv => TickComplete
    BY DEF IInv, TickAhead, TickComplete
  <1>. QED  BY <1>1, Inductive, PTL

LEMMA NothingSkippedStep ==
    ASSUME IInv, [Next]_vars, Len(queue') < Len(queue)
    PROVE  \E i \in DOMAIN queue :
             /\ queue' = SubSeq(queue, 1, i - 1) \o SubSeq(queue, i + 1, Len(queue))
             /\ \A p \in Pair : Applies(p, queue[i].sensor) /\ queue[i].value # Stale =>
                  /\ state'[p] # NoState /\ state'[p].latest >= queue[i].at
                  /\ ~Fenced(p, queue[i].at) /\ ~Met(p, queue[i].value) => ~Open(p)'
  <1>. USE DEF tables, engine, bounds
  <1>1. queue \in Seq(Sample) /\ Len(queue) \in Nat
    BY DEF IInv, TypeOK
  <1>2. queue' # queue
    BY <1>1
  <1>3. ASSUME NEW x \in Sample, Ingest(x) PROVE FALSE
    BY <1>1, <1>3, AppendProperties DEF Ingest
  <1>4. Evaluate
    BY <1>2, <1>3 DEF Next, Tick, Backfill, IngestEnds, TickBegins, QueueDrained, ClockDone, FollowUpsDone,
          VerificationEnds, WallClock, FollowUp, SaveRule, UpdateRule, RetireRule, Edited, Acknowledge,
          DeleteHouse, TimePasses, CallFails, Crash, Restart, vars
  <1>5. PICK i \in Pending :
          /\ Apply(ForSample(queue[i]), queue[i].at, queue[i].value)
          /\ queue' = SubSeq(queue, 1, i - 1) \o SubSeq(queue, i + 1, Len(queue))
    BY <1>4 DEF Evaluate
  <1>6. i \in DOMAIN queue /\ queue[i].at \in Moment
    BY <1>5, QueueCut DEF Pending, IInv
  <1>7. ASSUME NEW p \in Pair, Applies(p, queue[i].sensor), queue[i].value # Stale
        PROVE  /\ state'[p] # NoState /\ state'[p].latest >= queue[i].at
               /\ ~Fenced(p, queue[i].at) /\ ~Met(p, queue[i].value) => ~Open(p)'
    <2>. DEFINE at == queue[i].at  v == queue[i].value
    <2>1. state'[p] = NextState(p, at, v) /\ alert'[p] = NextAlert(p, at, v)
      BY <1>5, <1>7 DEF Apply, ForSample
    <2>2. state'[p] # NoState /\ state'[p].latest >= at
      <3>1. at \in Nat
        BY <1>6, Numbers
      <3>2. CASE Fenced(p, at)
        <4>1. state[p] \in State /\ state'[p] = state[p] /\ at <= state[p].latest
          BY <2>1, <3>2 DEF Fenced, NextState, IInv, TypeOK
        <4>2. state[p].latest \in Nat
          BY <4>1, Numbers DEF State
        <4>. QED  BY <3>1, <4>1, <4>2, Nulls
      <3>3. CASE ~Fenced(p, at)
        <4>1. state'[p] = [latest |-> at, since |-> Since(p, at, v)]
          BY <2>1, <3>3 DEF NextState
        <4>2. Since(p, at, v) \in Moment \cup {None}
          BY <1>6, AppliedTyped DEF IInv
        <4>3. state'[p] \in State
          BY <1>6, <4>1, <4>2 DEF State
        <4>. QED  BY <3>1, <4>1, <4>3, Nulls
      <3>. QED  BY <3>2, <3>3
    <2>3. ASSUME ~Fenced(p, at), ~Met(p, v) PROVE ~Open(p)'
      <3>1. CASE NextAlert(p, at, v) = alert[p]
        <4>1. ~Open(p)
          <5>. SUFFICES ASSUME Open(p) PROVE FALSE
            OBVIOUS
          <5>1. alert[p] = [start |-> alert[p].start, open |-> FALSE,
                            acked |-> alert[p].acked, rows |-> alert[p].rows]
            BY <2>3, <3>1 DEF NextAlert
          <5>2. alert[p].open = FALSE
            BY <5>1
          <5>. QED  BY <5>2 DEF Open
        <4>. QED  BY <2>1, <3>1, <4>1 DEF Open
      <3>2. CASE NextAlert(p, at, v) # alert[p]
        BY <1>6, <2>1, <2>3, <3>2, AppliedTurns DEF Open, IInv
      <3>. QED  BY <3>1, <3>2
    <2>. QED  BY <2>2, <2>3
  <1>. QED  BY <1>5, <1>6, <1>7

\* No sample leaves the queue without having been taken into account by every
\* rule it concerns (evaluatePendingSamples).
THEOREM NothingSkippedCorrect == Spec => NothingSkipped
  <1>. DEFINE Considered ==
         Len(queue') < Len(queue) =>
           \E i \in DOMAIN queue :
             /\ queue' = SubSeq(queue, 1, i - 1) \o SubSeq(queue, i + 1, Len(queue))
             /\ \A p \in Pair : Applies(p, queue[i].sensor) /\ queue[i].value # Stale =>
                  /\ state'[p] # NoState /\ state'[p].latest >= queue[i].at
                  /\ ~Fenced(p, queue[i].at) /\ ~Met(p, queue[i].value) => ~Open(p)'
  <1>1. IInv /\ [Next]_vars => [Considered]_vars
    BY NothingSkippedStep
  <1>2. Spec => [][Considered]_vars
    <2>. HIDE DEF Considered
    <2>. QED  BY <1>1, Inductive, PTL DEF Spec
  <1>. QED  BY <1>2 DEF NothingSkipped

\* A step that raises or ends events, and leaves the others alone, is a Turn.
LEMMA TurnStep ==
    ASSUME IInv, TypeOK',
           \A p \in Pair : alert'[p] # alert[p] =>
             /\ alert'[p] # NoAlert
             /\ \/ ~Open(p) /\ alert'[p].open /\ ~alert'[p].acked
                \/ /\ Open(p) /\ ~alert'[p].open /\ alert'[p].acked = alert[p].acked
                   /\ alert'[p].start = alert[p].start /\ alert'[p].rows = alert[p].rows
    PROVE  Episodes!Next
  BY DEF TypeOK, Episodes!Next, Episodes!Turn, Episodes!Open, Open

LEMMA ApplyTurns ==
    ASSUME IInv, TypeOK', NEW P, NEW at \in Moment, NEW v, Apply(P, at, v)
    PROVE  Episodes!Next
  <1>1. ASSUME NEW p \in Pair, alert'[p] # alert[p]
        PROVE  /\ alert'[p] # NoAlert
               /\ \/ ~Open(p) /\ alert'[p].open /\ ~alert'[p].acked
                  \/ /\ Open(p) /\ ~alert'[p].open /\ alert'[p].acked = alert[p].acked
                     /\ alert'[p].start = alert[p].start /\ alert'[p].rows = alert[p].rows
    <2>1. alert'[p] = NextAlert(p, at, v) /\ NextAlert(p, at, v) # alert[p]
      BY <1>1 DEF Apply
    <2>2. alert'[p] # NoAlert
      BY <2>1, AppliedTurns, Nulls DEF IInv
    <2>. QED  BY <2>1, <2>2, AppliedTurns DEF IInv
  <1>. QED  BY <1>1, TurnStep

LEMMA StepImplements == IInv /\ [Next]_vars => [Episodes!Next]_alert
  <1>. SUFFICES ASSUME IInv, [Next]_vars PROVE [Episodes!Next]_alert
    OBVIOUS
  <1>. USE DEF tables, engine, bounds
  <1>0. TypeOK /\ TypeOK'
    BY NextTypes DEF IInv
  <1>1. CASE Evaluate
    <2>1. PICK i \in Pending : Apply(ForSample(queue[i]), queue[i].at, queue[i].value)
      BY <1>1 DEF Evaluate
    <2>2. queue[i].at \in Moment
      BY <2>1, <1>0, QueueCut DEF Pending
    <2>. QED  BY <1>0, <2>1, <2>2, ApplyTurns
  <1>2. ASSUME NEW p \in Pair, WallClock(p) PROVE [Episodes!Next]_alert
    <2>1. now \in Moment
      BY <1>0, Numbers DEF TypeOK
    <2>. QED  BY <1>0, <1>2, <2>1, ApplyTurns DEF WallClock
  <1>3. ASSUME NEW p \in Pair, FollowUp(p) PROVE Episodes!Next
    <2>1. Urgent(p) /\ Open(p) /\ ~alert[p].acked /\ alert[p] \in Episode
      BY <1>0, <1>3 DEF FollowUp, IInv, TickAhead, Urgent, Open, TypeOK
    <2>. DEFINE e == [start |-> alert[p].start, open |-> alert[p].open, acked |-> alert[p].acked,
                      rows |-> alert[p].rows \cup DueRows(p)]
    <2>2. e \in Episode
      BY <2>1 DEF Episode, DueRows
    <2>3. /\ e.open = alert[p].open /\ e.acked = alert[p].acked /\ e.start = alert[p].start
          /\ alert[p].rows \subseteq e.rows /\ alert' = [alert EXCEPT ![p] = e]
      BY <1>3 DEF FollowUp
    <2>. HIDE DEF e
    <2>4. Episodes!Urge(p, e)
      BY <2>1, <2>3 DEF Episodes!Urge, Episodes!Open, Open
    <2>. QED  BY <2>2, <2>4 DEF Episodes!Next
  <1>4. ASSUME NEW p \in Pair, Acknowledge(p) PROVE Episodes!Next
    <2>1. alert[p] # NoAlert /\ alert[p] \in Episode
      BY <1>0, <1>4 DEF Acknowledge, TypeOK
    <2>. DEFINE e == [start |-> alert[p].start, open |-> alert[p].open, acked |-> TRUE,
                      rows |-> alert[p].rows]
    <2>2. e \in Episode
      BY <2>1 DEF Episode
    <2>3. /\ e.open = alert[p].open /\ e.acked = TRUE /\ e.start = alert[p].start
          /\ e.rows = alert[p].rows /\ alert' = [alert EXCEPT ![p] = e]
      BY <1>4 DEF Acknowledge
    <2>. HIDE DEF e
    <2>4. Episodes!Acknowledge(p, e)
      BY <2>1, <2>3 DEF Episodes!Acknowledge
    <2>. QED  BY <2>2, <2>4 DEF Episodes!Next
  <1>5. ASSUME NEW r \in Rule, RetireRule(r) PROVE Episodes!Next
    <2>1. ASSUME NEW p \in Pair, alert'[p] # alert[p]
          PROVE  /\ alert'[p] # NoAlert
                 /\ Open(p) /\ ~alert'[p].open /\ alert'[p].acked = alert[p].acked
                 /\ alert'[p].start = alert[p].start /\ alert'[p].rows = alert[p].rows
      <3>1. /\ Open(p)
            /\ alert'[p] = [start |-> alert[p].start, open |-> FALSE,
                            acked |-> alert[p].acked, rows |-> alert[p].rows]
        BY <1>5, <2>1 DEF RetireRule
      <3>2. alert'[p] \in Episode
        BY <1>0, <3>1 DEF Open, TypeOK, Episode
      <3>3. ~alert'[p].open
        <4>1. alert'[p].open = FALSE
          BY <3>1
        <4>. QED  BY <4>1
      <3>4. /\ alert'[p].acked = alert[p].acked /\ alert'[p].start = alert[p].start
            /\ alert'[p].rows = alert[p].rows
        BY <3>1
      <3>5. alert'[p] # NoAlert
        BY <3>2, Nulls
      <3>. QED  BY <3>1, <3>3, <3>4, <3>5
    <2>. QED  BY <1>0, <2>1, TurnStep
  <1>6. CASE UNCHANGED alert
    BY <1>6
  <1>7. ASSUME \/ \E x \in Sample : Ingest(x) \/ Backfill(x)
               \/ IngestEnds \/ TickBegins \/ QueueDrained \/ ClockDone \/ FollowUpsDone
               \/ VerificationEnds \/ (\E s \in Sensor : DeleteHouse(s))
               \/ (\E r \in Rule, new \in Live : SaveRule(r, new) \/ UpdateRule(r, new))
               \/ TimePasses \/ CallFails \/ Crash \/ Restart \/ UNCHANGED vars
        PROVE  UNCHANGED alert
    BY <1>7 DEF Ingest, Backfill, IngestEnds, TickBegins, QueueDrained, ClockDone, FollowUpsDone, SaveRule,
                UpdateRule, VerificationEnds, DeleteHouse, TimePasses, CallFails, Crash, Restart, vars
  <1>. QED  BY <1>1, <1>2, <1>3, <1>4, <1>5, <1>6, <1>7 DEF Next, Tick

\* The engine implements the episodes (applyAlertSample, enqueueAlertFollowup,
\* acknowledgeAlert, deleteAlertRule).
THEOREM Implements == Spec => ImplementsEpisodes
  <1>1. Init => Episodes!Init
    BY DEF Init, Episodes!Init
  <1>2. IInv /\ [Next]_vars => [Episodes!Next]_alert
    BY StepImplements
  <1>. QED  BY <1>1, <1>2, Inductive, PTL DEF Spec, ImplementsEpisodes, Episodes!Spec

-----------------------------------------------------------------------------
(* What the episodes promise to whoever acknowledges one *)

\* An open episode that somebody acknowledged stays acknowledged, and nothing is
\* added to its notifications.
Quiet == \A p \in Pair : Open(p) /\ alert[p].acked =>
             /\ alert'[p].acked /\ alert'[p].start = alert[p].start
             /\ alert'[p].rows = alert[p].rows

\* Nobody is urged on about an alert that somebody acknowledged: no tick, late
\* sample, restart or change of its rule escalates or reminds of it, or takes
\* the acknowledgement back (tick, acknowledgeAlert).
THEOREM AcknowledgedIsQuiet == Spec => [][Quiet]_vars
  <1>1. TypeOK /\ [Episodes!Next]_alert => Quiet
    <2>. SUFFICES ASSUME TypeOK, [Episodes!Next]_alert, NEW p \in Pair, Open(p), alert[p].acked
                  PROVE  /\ alert'[p].acked /\ alert'[p].start = alert[p].start
                         /\ alert'[p].rows = alert[p].rows
      BY DEF Quiet
    <2>1. alert[p] # NoAlert /\ alert[p].open /\ Episodes!Open(p)
      BY DEF Open, Episodes!Open
    <2>2. CASE UNCHANGED alert
      BY <2>2
    <2>3. CASE Episodes!Turn
      BY <2>1, <2>3 DEF Episodes!Turn
    <2>4. ASSUME NEW q \in Pair, NEW e \in Episode, Episodes!Urge(q, e)
          PROVE  alert'[p] = alert[p]
      BY <2>4 DEF Episodes!Urge, TypeOK
    <2>5. ASSUME NEW q \in Pair, NEW e \in Episode, Episodes!Acknowledge(q, e)
          PROVE  \/ alert'[p] = alert[p]
                 \/ p = q /\ alert'[p] = e /\ e.acked /\ e.start = alert[p].start /\ e.rows = alert[p].rows
      BY <2>5 DEF Episodes!Acknowledge, TypeOK
    <2>. QED  BY <2>2, <2>3, <2>4, <2>5 DEF Episodes!Next
  <1>2. TypeOK /\ [Episodes!Next]_alert => [Quiet]_vars
    BY <1>1
  <1>. QED  BY <1>2, TypeCorrect, Implements, PTL DEF ImplementsEpisodes, Episodes!Spec
=============================================================================
