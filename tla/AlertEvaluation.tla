--------------------------- MODULE AlertEvaluation ---------------------------
(***************************************************************************)
(* The alert engine of apps/api (alerts/alert-engine.ts and the SQLite     *)
(* methods of db/methods/alerts.ts): samples are stored together with an   *)
(* entry of a durable queue; each entry is evaluated against the rules,    *)
(* whose per-sensor state remembers since when a condition has held; a     *)
(* tick every five seconds drains the queue, lets the clock raise          *)
(* conditions that have become due, and queues escalations and reminders.  *)
(*                                                                         *)
(* SQLite is called synchronously, so an evaluation is cut short by a      *)
(* failed call or a crash only, between two transactions; other handlers   *)
(* run while the queue is not being evaluated, and while a tick awaits the *)
(* verification of action runs.                                            *)
(***************************************************************************)
EXTENDS Integers, Sequences, FiniteSets

CONSTANTS
    Rule, Sensor, AnySensor,           \* AnySensor: the sensorId null of a rule
    Reporting,                         \* the sensors that send samples
    Value, Threshold,                  \* a condition is Value >= Threshold
    Stale,                             \* what matters of a sample of stale quality
    Duration,                          \* durationSeconds
    FreshFor,                          \* age up to which the clock trusts a sample (15 minutes)
    Lead,                              \* how far a sample may be ahead of the clock (5 minutes)
    Escalation,                        \* escalationAfterSeconds
    Reminder,                          \* reminderIntervalSeconds
    None, NoRule, Retired, NoState, NoAlert, NoSample,
    MaxTime, MaxSamples, MaxEdits, MaxFaults   \* bounds

Moment == 0 .. MaxTime + Lead
Pair   == Rule \X Sensor

ASSUME BoundAssumption ==
    /\ {Duration, FreshFor, Lead, MaxTime, MaxSamples, MaxEdits, MaxFaults} \subseteq Nat
    /\ {Escalation, Reminder} \subseteq Nat \ {0}
    /\ Value \subseteq Int /\ Threshold \subseteq Int
ASSUME NullAssumption == AnySensor \notin Sensor /\ None \notin Int /\ Stale \notin Int

Sample  == [sensor : Sensor, at : Moment, value : Value \cup {Stale}]
Live    == [on : BOOLEAN, sensor : Sensor \cup {AnySensor}, threshold : Threshold]
State   == [latest : Moment, since : Moment \cup {None}]
Row     == {<<"initial", 0>>, <<"escalation", 0>>} \cup ({"reminder"} \X (0 .. MaxTime))
Episode == [start : Moment, open : BOOLEAN, acked : BOOLEAN, rows : SUBSET Row]

ASSUME RecordAssumption ==
    /\ NoRule # Retired /\ NoRule \notin Live /\ Retired \notin Live
    /\ NoState \notin State /\ NoAlert \notin Episode /\ NoSample \notin Sample

VARIABLES
    now, up,
    queue,      \* alert_evaluation_queue, with the samples it refers to
    latest,     \* per sensor: the newest row of measurement_samples
    rule,       \* alert_rules
    state,      \* alert_evaluation_state
    alert,      \* alert_events: the newest of the rule and sensor, with its outbox rows
    gone,       \* sensors of deleted houses
    work,       \* what the running handler does next
    todo,       \* the pairs it has still to look at
    ticking,    \* #tickActive
    calm,       \* history: the newest calm sample applied since the rule was edited
    samples, edits, faults

tables == <<queue, latest, rule, state, alert, gone>>
engine == <<work, todo, ticking>>
bounds == <<samples, edits, faults>>
vars   == <<now, up, tables, engine, calm, bounds>>

Init ==
    /\ now = 0 /\ up = TRUE
    /\ queue = <<>> /\ latest = [s \in Sensor |-> NoSample]
    /\ rule \in [Rule -> Live \cup {NoRule}]
    /\ state = [p \in Pair |-> NoState] /\ alert = [p \in Pair |-> NoAlert]
    /\ gone = {}
    /\ work = "idle" /\ todo = {} /\ ticking = FALSE
    /\ calm = [p \in Pair |-> None]
    /\ samples = 0 /\ edits = 0 /\ faults = 0

-----------------------------------------------------------------------------
(* Rules: listAlertRules, ruleApplies *)

Stored(r)  == rule[r] \notin {NoRule, Retired}
Listed(r)  == Stored(r) /\ rule[r].sensor \notin gone
Enabled(r) == Listed(r) /\ rule[r].on

\* The pairs a sample of sensor s is evaluated for.
Applies(p, s) == p[2] = s /\ Enabled(p[1]) /\ rule[p[1]].sensor \in {AnySensor, s}

Met(p, v) == v >= rule[p[1]].threshold

-----------------------------------------------------------------------------
(* applyAlertSample, for a sample or for the clock *)

Open(p) == alert[p] # NoAlert /\ alert[p].open

\* Slip: a sample is only refused if it is older than the latest one.
FencedIfOlder(p, at) == state[p] # NoState /\ at < state[p].latest

\* Samples no newer than the latest one evaluated are ignored.
Fenced(p, at) == state[p] # NoState /\ at <= state[p].latest

\* Slip: the condition is taken to have held for its duration already.
SinceBefore(p, at, v) == IF ~Met(p, v) THEN None
                         ELSE IF state[p] # NoState /\ state[p].since # None THEN state[p].since
                         ELSE at - Duration

Since(p, at, v) == IF ~Met(p, v) THEN None
                   ELSE IF state[p] # NoState /\ state[p].since # None THEN state[p].since
                   ELSE at

NextState(p, at, v) == IF Fenced(p, at) THEN state[p]
                       ELSE [latest |-> at, since |-> Since(p, at, v)]

\* Slip: the open event is not looked up.
NextAlertUnseen(p, at, v) ==
    IF Fenced(p, at) THEN alert[p]
    ELSE IF ~Met(p, v)
    THEN IF Open(p) THEN [start |-> alert[p].start, open |-> FALSE, acked |-> alert[p].acked,
                          rows |-> alert[p].rows]
         ELSE alert[p]
    ELSE IF at - Since(p, at, v) < Duration THEN alert[p]
    ELSE [start |-> Since(p, at, v), open |-> TRUE, acked |-> FALSE, rows |-> {<<"initial", 0>>}]

\* A calm sample ends the open event; one that has been met long enough
\* raises an event, and queues its first notifications along with it.
NextAlert(p, at, v) ==
    IF Fenced(p, at) THEN alert[p]
    ELSE IF ~Met(p, v)
    THEN IF Open(p) THEN [start |-> alert[p].start, open |-> FALSE, acked |-> alert[p].acked,
                          rows |-> alert[p].rows]
         ELSE alert[p]
    ELSE IF Open(p) \/ at - Since(p, at, v) < Duration THEN alert[p]
    ELSE [start |-> Since(p, at, v), open |-> TRUE, acked |-> FALSE, rows |-> {<<"initial", 0>>}]

NextCalm(p, at, v) == IF ~Fenced(p, at) /\ ~Met(p, v) THEN at ELSE calm[p]

\* The sample is applied to all pairs of P, each on its own.
Apply(P, at, v) ==
    /\ state' = [p \in Pair |-> IF p \in P THEN NextState(p, at, v) ELSE state[p]]
    /\ alert' = [p \in Pair |-> IF p \in P THEN NextAlert(p, at, v) ELSE alert[p]]
    /\ calm'  = [p \in Pair |-> IF p \in P THEN NextCalm(p, at, v) ELSE calm[p]]

-----------------------------------------------------------------------------
(* Ingestion: MeasurementService.ingestBatch, TelemetryService.ingestBatch *)

\* A live sample may lead the clock a little; it may lag behind it by any time.
\* The queue is evaluated before the handler returns.
Ingest(x) ==
    /\ up /\ work = "idle" /\ samples < MaxSamples
    /\ x.at <= now + Lead /\ x.sensor \in Reporting \ gone
    /\ samples' = samples + 1
    /\ queue' = Append(queue, x)
    /\ latest' = [latest EXCEPT ![x.sensor] =
                    IF latest[x.sensor] # NoSample /\ x.at < latest[x.sensor].at
                    THEN latest[x.sensor] ELSE x]
    /\ work' = "ingest"
    /\ UNCHANGED <<now, up, rule, state, alert, gone, todo, ticking, calm, edits, faults>>

\* Recovered samples are stored without an entry of the queue.
Backfill(x) ==
    /\ up /\ work = "idle" /\ edits < MaxEdits
    /\ edits' = edits + 1
    /\ x.at <= now + Lead /\ x.sensor \in Reporting \ gone
    /\ latest' = [latest EXCEPT ![x.sensor] =
                    IF latest[x.sensor] # NoSample /\ x.at < latest[x.sensor].at
                    THEN latest[x.sensor] ELSE x]
    /\ UNCHANGED <<now, up, queue, rule, state, alert, gone, engine, calm, samples, faults>>

-----------------------------------------------------------------------------
(* evaluatePendingSamples *)

\* The entries of deleted houses are passed over.
Pending == {i \in DOMAIN queue : queue[i].sensor \notin gone}

\* Slip: only conditions already known are looked at.
ForSampleIfKnown(x) == {p \in Pair : Applies(p, x.sensor) /\ state[p] # NoState}

\* The pairs for which a sample is evaluated; stale samples are for none.
ForSample(x) == {p \in Pair : Applies(p, x.sensor) /\ x.value # Stale}

\* One entry is evaluated for all rules and leaves the queue, in one
\* transaction (up to 500 entries in the code).
Evaluate ==
    /\ work \in {"ingest", "evaluate"} /\ Pending # {}
    /\ \E i \in Pending :
         /\ \A j \in Pending : i <= j
         /\ Apply(ForSample(queue[i]), queue[i].at, queue[i].value)
         /\ queue' = SubSeq(queue, 1, i - 1) \o SubSeq(queue, i + 1, Len(queue))
    /\ UNCHANGED <<now, up, latest, rule, gone, engine, bounds>>

\* listDueAlertConditions: conditions that have held for their duration
\* without an event.
Overdue(p) == /\ Enabled(p[1]) /\ p[2] \notin gone
              /\ state[p] # NoState /\ state[p].since # None
              /\ state[p].since + Duration <= now
              /\ ~Open(p)

IngestEnds == /\ work = "ingest" /\ Pending = {}
              /\ work' = "idle"
              /\ UNCHANGED <<now, up, tables, todo, ticking, calm, bounds>>

-----------------------------------------------------------------------------
(* tick *)

TickBegins == /\ up /\ work = "idle" /\ ~ticking
              /\ work' = "evaluate" /\ ticking' = TRUE
              /\ UNCHANGED <<now, up, tables, todo, calm, bounds>>

\* Slip: only ingestion evaluates the queue.
QueueUnseen == /\ work = "evaluate"
               /\ work' = "clock" /\ todo' = {p \in Pair : Overdue(p)}
               /\ UNCHANGED <<now, up, tables, ticking, calm, bounds>>

QueueDrained == /\ work = "evaluate" /\ Pending = {}
                /\ work' = "clock" /\ todo' = {p \in Pair : Overdue(p)}
                /\ UNCHANGED <<now, up, tables, ticking, calm, bounds>>

\* The clock vouches for the newest sample of a sensor only if it is not stale,
\* recent and not of the future.
Vouched(s) == /\ latest[s] # NoSample /\ latest[s].value # Stale
              /\ now - latest[s].at <= FreshFor /\ latest[s].at <= now

\* Slip: the clock takes over the time of the sample.
WallClockAtSample(p) ==
    /\ work = "clock" /\ p \in todo
    /\ IF Vouched(p[2]) /\ Applies(p, p[2])
       THEN Apply({p}, latest[p[2]].at, latest[p[2]].value)
       ELSE UNCHANGED <<state, alert, calm>>
    /\ todo' = todo \ {p}
    /\ UNCHANGED <<now, up, queue, latest, rule, gone, work, ticking, bounds>>

\* evaluateWallClock: the newest sample is evaluated once more as of now.
WallClock(p) ==
    /\ work = "clock" /\ p \in todo
    /\ IF Vouched(p[2]) /\ Applies(p, p[2])
       THEN Apply({p}, now, latest[p[2]].value)
       ELSE UNCHANGED <<state, alert, calm>>
    /\ todo' = todo \ {p}
    /\ UNCHANGED <<now, up, queue, latest, rule, gone, work, ticking, bounds>>

\* Open events of listed, enabled rules that nobody has acknowledged.
Urgent(p) == Open(p) /\ ~alert[p].acked /\ p[2] \notin gone /\ Enabled(p[1])

ClockDone == /\ work = "clock" /\ todo = {}
             /\ work' = "follow" /\ todo' = {p \in Pair : Urgent(p)}
             /\ UNCHANGED <<now, up, tables, ticking, calm, bounds>>

\* An event may start in the future, by the lead of its sample.
Elapsed(p) == IF now > alert[p].start THEN now - alert[p].start ELSE 0

\* Slip: the escalation is queued by the tick that meets its time.
DueRowsOnTheDot(p) ==
    {row \in Row : CASE row[1] = "initial" -> FALSE
                    [] row[1] = "escalation" -> Elapsed(p) = Escalation
                    [] row[1] = "reminder" -> /\ Elapsed(p) >= Reminder
                                              /\ row[2] = Elapsed(p) \div Reminder}

\* enqueueDueFollowups: one escalation, and a reminder for the interval that
\* is under way; rows that exist are left alone.
DueRows(p) ==
    {row \in Row : CASE row[1] = "initial" -> FALSE
                    [] row[1] = "escalation" -> Elapsed(p) >= Escalation
                    [] row[1] = "reminder" -> /\ Elapsed(p) >= Reminder
                                              /\ row[2] = Elapsed(p) \div Reminder}

FollowUp(p) ==
    /\ work = "follow" /\ p \in todo
    /\ alert' = [alert EXCEPT ![p] = [start |-> alert[p].start, open |-> alert[p].open,
                                      acked |-> alert[p].acked, rows |-> alert[p].rows \cup DueRows(p)]]
    /\ todo' = todo \ {p}
    /\ UNCHANGED <<now, up, queue, latest, rule, state, gone, work, ticking, calm, bounds>>

\* The tick awaits the reads that verify action runs.
FollowUpsDone == /\ work = "follow" /\ todo = {}
                 /\ work' = "idle"
                 /\ UNCHANGED <<now, up, tables, todo, ticking, calm, bounds>>

\* They are answered or fail; either way the next tick may begin.
VerificationEnds == /\ up /\ ticking /\ work = "idle"
                    /\ ticking' = FALSE
                    /\ UNCHANGED <<now, up, tables, work, todo, calm, bounds>>

-----------------------------------------------------------------------------
(* Handlers of other requests: they run between two awaits *)

Edited(r) == /\ up /\ work = "idle" /\ edits < MaxEdits
             /\ edits' = edits + 1
             /\ state' = [p \in Pair |-> IF p[1] = r THEN NoState ELSE state[p]]
             /\ calm' = [p \in Pair |-> IF p[1] = r THEN None ELSE calm[p]]
             /\ UNCHANGED <<now, up, queue, latest, gone, engine, samples, faults>>

SaveRule(r, new) == /\ rule[r] = NoRule
                    /\ rule' = [rule EXCEPT ![r] = new]
                    /\ Edited(r) /\ UNCHANGED alert

\* A patch of anything but names, severity and channels deletes the state of
\* the rule; its events stay.
UpdateRule(r, new) == /\ Listed(r)
                      /\ rule' = [rule EXCEPT ![r] = new]
                      /\ Edited(r) /\ UNCHANGED alert

\* deleteAlertRule: the rule is retired and all its events end.
RetireRule(r) ==
    /\ Listed(r)
    /\ rule' = [rule EXCEPT ![r] = Retired]
    /\ alert' = [p \in Pair |-> IF p[1] = r /\ Open(p)
                                THEN [start |-> alert[p].start, open |-> FALSE,
                                      acked |-> alert[p].acked, rows |-> alert[p].rows]
                                ELSE alert[p]]
    /\ Edited(r)

Acknowledge(p) ==
    /\ up /\ work = "idle"
    /\ alert[p] # NoAlert /\ ~alert[p].acked /\ p[2] \notin gone
    /\ alert' = [alert EXCEPT ![p] = [start |-> alert[p].start, open |-> alert[p].open, acked |-> TRUE,
                                     rows |-> alert[p].rows]]
    /\ UNCHANGED <<now, up, queue, latest, rule, state, gone, engine, calm, bounds>>

DeleteHouse(s) ==
    /\ up /\ work = "idle" /\ edits < MaxEdits
    /\ edits' = edits + 1
    /\ s \notin gone /\ gone' = gone \cup {s}
    /\ UNCHANGED <<now, up, queue, latest, rule, state, alert, engine, calm, samples, faults>>

-----------------------------------------------------------------------------
(* Time, failed calls, crashes *)

\* Evaluation takes no time to speak of.
TimePasses == /\ now < MaxTime /\ work = "idle"
              /\ now' = now + 1
              /\ UNCHANGED <<up, tables, engine, calm, bounds>>

\* A call to SQLite fails: the handler throws, and a tick makes room for the
\* next one.
CallFails == /\ work # "idle" /\ faults < MaxFaults
             /\ faults' = faults + 1
             /\ work' = "idle" /\ todo' = {}
             /\ ticking' = (ticking /\ work = "ingest")
             /\ UNCHANGED <<now, up, tables, calm, samples, edits>>

Crash == /\ up /\ faults < MaxFaults
         /\ faults' = faults + 1
         /\ up' = FALSE
         /\ work' = "idle" /\ todo' = {} /\ ticking' = FALSE
         /\ UNCHANGED <<now, tables, calm, samples, edits>>

Restart == /\ ~up /\ up' = TRUE
           /\ UNCHANGED <<now, tables, engine, calm, bounds>>

-----------------------------------------------------------------------------
(* Specification *)

Tick == \/ TickBegins \/ QueueDrained \/ ClockDone \/ FollowUpsDone \/ VerificationEnds
        \/ \E p \in Pair : WallClock(p) \/ FollowUp(p)

Next == \/ \E x \in Sample : Ingest(x) \/ Backfill(x)
        \/ Evaluate \/ IngestEnds \/ Tick
        \/ \E r \in Rule : RetireRule(r) \/ \E new \in Live : SaveRule(r, new) \/ UpdateRule(r, new)
        \/ \E p \in Pair : Acknowledge(p)
        \/ \E s \in Sensor : DeleteHouse(s)
        \/ TimePasses \/ CallFails \/ Crash \/ Restart

Spec == Init /\ [][Next]_vars

\* A handler that has begun goes on, the interval fires, the reads for the
\* verification end, and a stopped process is started again.
Fairness == /\ WF_vars(Evaluate \/ IngestEnds \/ QueueDrained \/ ClockDone \/ FollowUpsDone
                       \/ \E p \in Pair : WallClock(p) \/ FollowUp(p))
            /\ SF_vars(TickBegins) /\ WF_vars(VerificationEnds) /\ WF_vars(Restart)

FairSpec == Spec /\ Fairness

-----------------------------------------------------------------------------
(* Properties *)

\* Every variable holds values of its type.
TypeOK ==
    /\ now \in 0 .. MaxTime /\ up \in BOOLEAN
    /\ queue \in Seq(Sample) /\ latest \in [Sensor -> Sample \cup {NoSample}]
    /\ rule \in [Rule -> Live \cup {NoRule, Retired}]
    /\ state \in [Pair -> State \cup {NoState}]
    /\ alert \in [Pair -> Episode \cup {NoAlert}]
    /\ gone \subseteq Sensor
    /\ work \in {"idle", "ingest", "evaluate", "clock", "follow"}
    /\ todo \subseteq Pair /\ ticking \in BOOLEAN
    /\ calm \in [Pair -> Moment \cup {None}]
    /\ samples \in 0 .. MaxSamples /\ edits \in 0 .. MaxEdits /\ faults \in 0 .. MaxFaults

Holding(p) == state[p] # NoState /\ state[p].since # None

\* State is kept for rules that watch the sensor, and is as old as its rule.
StateOfRule == \A p \in Pair : state[p] # NoState =>
                  Stored(p[1]) /\ rule[p[1]].sensor \in {AnySensor, p[2]}

\* A condition that holds began with a sample that was evaluated, and since
\* then no calm sample was.
CalmBefore == \A p \in Pair : /\ Holding(p) => state[p].since <= state[p].latest
                              /\ calm[p] # None => state[p] # NoState /\ calm[p] <= state[p].latest
                              /\ Holding(p) /\ calm[p] # None => calm[p] < state[p].since
                              /\ Open(p) /\ calm[p] # None => calm[p] < alert[p].start

\* An open event and the state never contradict each other: the condition is
\* not known to be calm, one known to have held long enough is open, and no
\* event outlives its rule.
OpenAgrees == \A p \in Pair : /\ state[p] # NoState /\ state[p].since = None => ~Open(p)
                              /\ Holding(p) /\ state[p].latest - state[p].since >= Duration => Open(p)
                              /\ ~Stored(p[1]) => ~Open(p)

\* What the tick has left to do.
TickAhead == /\ work \in {"evaluate", "clock", "follow"} => up /\ ticking
             /\ work = "ingest" => up
             /\ ~up => ~ticking
             /\ work \notin {"clock", "follow"} => todo = {}
             /\ work = "clock" => \A p \in Pair : Overdue(p) => p \in todo \/ ~Vouched(p[2])
             /\ work = "follow" => \A p \in Pair :
                    /\ Overdue(p) => ~Vouched(p[2])
                    /\ p \in todo => Urgent(p)
                    /\ Urgent(p) => p \in todo \/ DueRows(p) \subseteq alert[p].rows

\* The inductive invariant of the alert engine.
AlertInvariant == StateOfRule /\ CalmBefore /\ OpenAgrees /\ TickAhead

\* A tick that reaches its end has raised every condition that is due and
\* vouched for by a recent sample, and queued all that is due of the open events.
TickComplete ==
    work = "follow" /\ todo = {} =>
      \A p \in Pair : /\ Overdue(p) => ~Vouched(p[2])
                      /\ Urgent(p) => DueRows(p) \subseteq alert[p].rows

\* When an entry leaves the queue, every rule it concerns has been brought up
\* to its sample, across failed calls and crashes: a condition that the sample
\* does not meet has no event left that began before it.
NothingSkipped ==
    [][Len(queue') < Len(queue) =>
         \E i \in DOMAIN queue :
           /\ queue' = SubSeq(queue, 1, i - 1) \o SubSeq(queue, i + 1, Len(queue))
           /\ \A p \in Pair : Applies(p, queue[i].sensor) /\ queue[i].value # Stale =>
                /\ state'[p] # NoState /\ state'[p].latest >= queue[i].at
                /\ ~Fenced(p, queue[i].at) /\ ~Met(p, queue[i].value) => ~Open(p)']_vars

Episodes == INSTANCE AlertEpisodes

\* For each rule and sensor there is one episode at a time, which is urged on
\* only while it is open and unacknowledged, and ends for good.
ImplementsEpisodes == Episodes!Spec

\* Every sample of a house that is still there is evaluated in the end.
QueueDrains == \A s \in Reporting :
    (\E i \in DOMAIN queue : queue[i].sensor = s)
        ~> (s \in gone \/ \A i \in DOMAIN queue : queue[i].sensor # s)

\* A condition that is due is raised, even if no further sample ever comes.
DueIsRaised == \A p \in Rule \X Reporting : Overdue(p) /\ Vouched(p[2]) ~> ~(Overdue(p) /\ Vouched(p[2]))

\* An event that stays open and unacknowledged is escalated.
EscalationComes == \A p \in Rule \X Reporting :
    Urgent(p) /\ Elapsed(p) >= Escalation ~> ~Urgent(p) \/ <<"escalation", 0>> \in alert[p].rows
=============================================================================
