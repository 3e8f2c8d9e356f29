------------------------ MODULE MCIntegrationSecrets ------------------------
(***************************************************************************)
(* TLC instance of IntegrationSecrets.                                     *)
(***************************************************************************)
EXTENDS IntegrationSecrets, TLC

CONSTANTS p1, p2, t1, t2
=============================================================================
