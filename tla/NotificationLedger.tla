-------------------------- MODULE NotificationLedger --------------------------
(***************************************************************************)
(* What apps/api promises about its notifications: one that is queued is   *)
(* delivered or fails in the end; it counts as delivered only when its     *)
(* destination has received it, at least once; a delivered one is never    *)
(* sent again, a failed one only when an operator asks for it; settled     *)
(* ones may be forgotten.                                                  *)
(***************************************************************************)
CONSTANT Row               \* names of notifications

VARIABLES state,           \* per notification: none, queued, delivered or failed
          reached          \* notifications whose destination has received them

ledgerVars == <<state, reached>>

Init == state = [r \in Row |-> "none"] /\ reached = {}

Move(r, from, to) == state[r] = from /\ state' = [state EXCEPT ![r] = to]

Queue(r) == Move(r, "none", "queued") /\ UNCHANGED reached

\* The destination receives it: while it is queued, or late, from a request
\* whose sender had given up.
Receive(r) == reached' = reached \cup {r} /\ UNCHANGED state

Deliver(r) == Move(r, "queued", "delivered") /\ reached' = reached \cup {r}

Fail(r) == Move(r, "queued", "failed") /\ UNCHANGED reached

Requeue(r) == Move(r, "failed", "queued") /\ UNCHANGED reached

Forget(S) == /\ \A r \in S : state[r] \in {"delivered", "failed"}
             /\ state' = [r \in Row |-> IF r \in S THEN "none" ELSE state[r]]
             /\ reached' = reached \ S

Next == \/ \E r \in Row : Queue(r) \/ Receive(r) \/ Deliver(r) \/ Fail(r) \/ Requeue(r)
        \/ \E S \in SUBSET Row : Forget(S)

Spec == Init /\ [][Next]_ledgerVars
=============================================================================
