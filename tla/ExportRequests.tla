--------------------------- MODULE ExportRequests ---------------------------
(***************************************************************************)
(* What the export of a device's history promises, without leases: a       *)
(* request is put to the phone in rounds, each with an address of its own; *)
(* it waits for mail only once the mail of its present round was asked     *)
(* for, and it is done, for good, only by that mail.                       *)
(***************************************************************************)
EXTENDS Naturals

CONSTANTS Request

VARIABLES
    stage,   \* per request: none, open, waiting, stopped or done
    round,   \* the round whose address the request has now
    source,  \* the round whose mail finished it, 0 for none
    asked    \* rounds whose mail the phone asked for

vars == <<stage, round, source, asked>>

Init == /\ stage = [r \in Request |-> "none"]
        /\ round = [r \in Request |-> 0]
        /\ source = [r \in Request |-> 0]
        /\ asked = {}

Keep(r) == stage'[r] = stage[r] /\ round'[r] = round[r] /\ source'[r] = source[r]

\* The request is open, again or for the first time, perhaps in a new round.
Opens(r) == /\ stage[r] \in {"none", "open", "waiting", "stopped"} /\ stage'[r] = "open"
            /\ round'[r] >= round[r] /\ source'[r] = source[r]

Waits(r) == /\ stage[r] = "open" /\ stage'[r] = "waiting"
            /\ <<r, round[r]>> \in asked
            /\ round'[r] = round[r] /\ source'[r] = source[r]

Stops(r) == /\ stage[r] \in {"open", "waiting", "stopped"} /\ stage'[r] = "stopped"
            /\ round'[r] = round[r] /\ source'[r] = source[r]

Finishes(r) == /\ stage[r] = "waiting" /\ stage'[r] = "done"
               /\ round'[r] = round[r] /\ source'[r] = round[r]

Next == /\ \A r \in Request : Keep(r) \/ Opens(r) \/ Waits(r) \/ Stops(r) \/ Finishes(r)
        /\ asked \subseteq asked'

Spec == Init /\ [][Next]_vars
=============================================================================
