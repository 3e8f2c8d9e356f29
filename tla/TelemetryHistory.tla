-------------------------- MODULE TelemetryHistory --------------------------
(***************************************************************************)
(* What the archive pipeline of apps/api promises about real telemetry,    *)
(* seen from outside: a recorded history.  Every accepted value stays the  *)
(* recorded value of its natural key until a newer one is accepted for the *)
(* same key.  Moving rows between SQLite and TimescaleDB, retention,       *)
(* crashes, retries and the demo-to-real boundary are all invisible here.  *)
(*                                                                         *)
(* A value is abstracted to the number of the ingestion that produced it,  *)
(* so the history also tells a newer revision from an older one.           *)
(***************************************************************************)
EXTENDS Naturals

CONSTANT RealKey          \* natural keys of telemetry that is not demo data

VARIABLES writes,         \* ingestions accepted so far
          history         \* [RealKey -> Nat], 0 when nothing was recorded

historyVars == <<writes, history>>

TypeOK == /\ writes \in Nat
          /\ history \in [RealKey -> Nat]

Init == /\ writes = 0
        /\ history = [k \in RealKey |-> 0]

\* One ingestion records its revision for the keys it carries; an ingestion
\* of demo telemetry carries none of these keys.
Record(keys) ==
    /\ writes' = writes + 1
    /\ history' = [k \in RealKey |-> IF k \in keys THEN writes + 1 ELSE history[k]]

Next == \E keys \in SUBSET RealKey : Record(keys)

Spec == Init /\ [][Next]_historyVars
=============================================================================
