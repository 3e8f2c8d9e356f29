-------------------------- MODULE MCAlertEvaluation --------------------------
(***************************************************************************)
(* TLC instance of AlertEvaluation.                                        *)
(***************************************************************************)
EXTENDS AlertEvaluation, TLC

CONSTANTS r1, s1, s2
=============================================================================
