------------------------- MODULE MCTelemetryArchive -------------------------
(***************************************************************************)
(* TLC instance of TelemetryArchive: two tables; the measurements temp and *)
(* hum of table 1, a reading of table 2 that projects to temp, and a       *)
(* sample of demo data.  The configurations choose Key among them.         *)
(***************************************************************************)
EXTENDS TelemetryArchive

CONSTANTS temp, hum, reading, demo

MCTableOf == [k \in Key |-> IF k = reading THEN 2 ELSE 1]
MCProjection == [k \in {reading} |-> temp]
=============================================================================
