--------------------------- MODULE CredentialStore ---------------------------
(***************************************************************************)
(* What apps/api promises about credentials and the database rows that go  *)
(* with them: one store.  An update changes credentials; a joint commit    *)
(* changes credentials and rows in one step, or not at all.  Nothing else  *)
(* changes either, and no change is ever undone.                           *)
(***************************************************************************)
EXTENDS Naturals

CONSTANT Edit            \* names of edits, positive numbers

VARIABLES credentials,   \* [rev, plain, joint]: edits the credentials carry
          rows           \* [rev, joint]: joint edits the database carries

storeVars == <<credentials, rows>>

Init == /\ credentials = [rev |-> 0, plain |-> {}, joint |-> {}]
        /\ rows = [rev |-> 0, joint |-> {}]

Update(e) == /\ e \notin credentials.plain
             /\ credentials' = [credentials EXCEPT !.plain = @ \cup {e}]
             /\ UNCHANGED rows

Commit(e) == /\ e \notin rows.joint
             /\ rows' = [rev |-> e, joint |-> rows.joint \cup {e}]
             /\ credentials' = [rev   |-> e,
                                plain |-> credentials.plain,
                                joint |-> credentials.joint \cup {e}]

Next == \E e \in Edit : Update(e) \/ Commit(e)

Spec == Init /\ [][Next]_storeVars
=============================================================================
