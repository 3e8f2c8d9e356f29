--------------------------- MODULE MCExportLeases ---------------------------
(***************************************************************************)
(* TLC instances of ExportLeases: an export and a canary on one phone, and *)
(* an export that two phones try.                                          *)
(***************************************************************************)
EXTENDS ExportLeases, TLC

CONSTANTS e1, c1, w1, w2
=============================================================================
