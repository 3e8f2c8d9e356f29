------------------------ MODULE MCNotificationOutbox ------------------------
(***************************************************************************)
(* TLC instance of NotificationOutbox.                                     *)
(***************************************************************************)
EXTENDS NotificationOutbox, TLC

CONSTANTS tele, push, a, b, w1, w2
=============================================================================
