---------------------------- MODULE AlertEpisodes ----------------------------
(***************************************************************************)
(* What the alert engine promises: for each rule and sensor one episode at *)
(* a time.  An episode is raised, may be acknowledged, and ends for good;  *)
(* notifications are only ever added to it, and none that urges anybody    *)
(* once somebody has acknowledged it or it has ended.                      *)
(***************************************************************************)
CONSTANTS Pair, NoAlert, Episode

VARIABLE alert         \* per rule and sensor: the latest episode

Init == alert = [p \in Pair |-> NoAlert]

Open(p) == alert[p] # NoAlert /\ alert[p].open

\* Rows are added while the episode is open and nobody has acknowledged it.
Urge(p, e) == /\ Open(p) /\ ~alert[p].acked
              /\ e.open /\ ~e.acked /\ e.start = alert[p].start /\ alert[p].rows \subseteq e.rows
              /\ alert' = [alert EXCEPT ![p] = e]

Acknowledge(p, e) == /\ alert[p] # NoAlert /\ e.open = alert[p].open
                     /\ e.acked /\ e.start = alert[p].start /\ e.rows = alert[p].rows
                     /\ alert' = [alert EXCEPT ![p] = e]

\* A sample may end the episodes of several rules, and retiring a rule those of
\* several sensors; what a sample ends and what it raises is one step.
Turn == /\ alert' \in [Pair -> Episode \cup {NoAlert}]
        /\ \A p \in Pair : alert'[p] # alert[p] =>
             \/ /\ ~Open(p) /\ alert'[p] # NoAlert
                /\ alert'[p].open /\ ~alert'[p].acked
             \/ /\ Open(p) /\ alert'[p] # NoAlert
                /\ ~alert'[p].open /\ alert'[p].acked = alert[p].acked
                /\ alert'[p].start = alert[p].start /\ alert'[p].rows = alert[p].rows

Next == Turn \/ \E p \in Pair, e \in Episode : Urge(p, e) \/ Acknowledge(p, e)

Spec == Init /\ [][Next]_alert
=============================================================================
