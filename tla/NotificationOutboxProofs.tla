----------------------- MODULE NotificationOutboxProofs -----------------------
(***************************************************************************)
(* Proofs about NotificationOutbox for any rows, destinations, batch size  *)
(* and number of attempts, changes and faults: types, the worker's         *)
(* invariant, the destination of every notification, and the refinement of *)
(* the ledger.                                                             *)
(***************************************************************************)
EXTENDS NotificationOutbox, TLAPS

USE NullAssumption, BoundAssumption, SetAssumption
    DEF NullAssumption, BoundAssumption, SetAssumption

\* The row of item i is written by the run w that holds it and unlocked, with
\* a status in outcome.
Handled(i, outcome) == \E rec \in Row :
    /\ row' = [row EXCEPT ![i.row] = rec]
    /\ rec.st \in outcome /\ rec.lock = NoRun /\ rec.ref = row[i.row].ref
    /\ rec.st = "pending" => rec.attempts < MaxAttempts

IInv == TypeOK /\ OutboxInvariant

-----------------------------------------------------------------------------
\* A run's item names a row it holds, with the attempts and the destination it
\* was claimed with (HoldersOwn).
LEMMA ItemHeld ==
    ASSUME IInv, NEW w \in Run, NEW i \in run[w].items
    PROVE  /\ i \in Item /\ i.row \in RowId /\ row[i.row] \in Row /\ Pending(i.row)
           /\ Holds(w, i.row) /\ row[i.row].lock = w
           /\ row[i.row].attempts = i.attempts /\ row[i.row].ref = i.ref
           /\ i.attempts \in Nat /\ i.attempts < MaxAttempts
  <1>1. i \in Item /\ i.row \in RowId /\ i.attempts \in Nat
    BY DEF IInv, TypeOK, Item
  <1>2. Pending(i.row) /\ row[i.row].lock = w /\ row[i.row].attempts = i.attempts
        /\ row[i.row].ref = i.ref
    BY DEF IInv, OutboxInvariant, HoldersOwn
  <1>3. row[i.row] \in Row
    BY <1>1, <1>2 DEF IInv, TypeOK, Pending, Exists
  <1>4. i.attempts < MaxAttempts
    BY <1>1, <1>2 DEF IInv, OutboxInvariant, BudgetLeft, Pending
  <1>. QED  BY <1>1, <1>2, <1>3, <1>4 DEF Holds, Pending

\* Completing a row (completeNotificationOutbox).
LEMMA CompletedHandles ==
    ASSUME IInv, NEW w \in Run, NEW i \in run[w].items, row' = Completed(w, i)
    PROVE  Handled(i, {"delivered"})
  <1>. DEFINE rec == Unlocked(i.row, "delivered", row[i.row].attempts, row[i.row].due)
  <1>1. rec \in Row /\ rec.st = "delivered" /\ rec.lock = NoRun /\ rec.ref = row[i.row].ref
    BY ItemHeld DEF Row, Unlocked
  <1>2. row' = [row EXCEPT ![i.row] = rec]
    BY ItemHeld DEF Completed, Update
  <1>. QED  BY <1>1, <1>2 DEF Handled

\* Abandoning a row (abandonNotificationOutbox).
LEMMA AbandonedHandles ==
    ASSUME IInv, NEW w \in Run, NEW i \in run[w].items, row' = Abandoned(w, i)
    PROVE  Handled(i, {"abandoned"})
  <1>. DEFINE rec == Unlocked(i.row, "abandoned", row[i.row].attempts, row[i.row].due)
  <1>1. rec \in Row /\ rec.st = "abandoned" /\ rec.lock = NoRun /\ rec.ref = row[i.row].ref
    BY ItemHeld DEF Row, Unlocked
  <1>2. row' = [row EXCEPT ![i.row] = rec]
    BY ItemHeld DEF Abandoned, Update
  <1>. QED  BY <1>1, <1>2 DEF Handled

\* Handing a row back (releaseNotificationOutbox).
LEMMA ReleasedHandles ==
    ASSUME IInv, NEW w \in Run, NEW i \in run[w].items, row' = Released(w, {i})
    PROVE  Handled(i, {"pending"})
  <1>. DEFINE rec == Unlocked(i.row, row[i.row].st, row[i.row].attempts, TRUE)
  <1>1. rec \in Row /\ rec.st = "pending" /\ rec.lock = NoRun /\ rec.ref = row[i.row].ref
        /\ rec.attempts < MaxAttempts
    BY ItemHeld DEF Row, Unlocked, Pending
  <1>2. row' = [row EXCEPT ![i.row] = rec]
    <2>1. \A r \in RowId : (Holds(w, r) /\ \E j \in {i} : j.row = r) <=> r = i.row
      BY ItemHeld
    <2>. QED  BY <2>1, ItemHeld DEF Released, IInv, TypeOK
  <1>. QED  BY <1>1, <1>2 DEF Handled

\* Counting a failed attempt (recordDeliveryFailure).
LEMMA ChargeHandles ==
    ASSUME IInv, NEW w \in Run, NEW i \in run[w].items, NEW terminal \in BOOLEAN, Charge(w, i, terminal)
    PROVE  Handled(i, {"pending", "dead"})
  <1>1. CASE Cut(w, i)
    BY <1>1, ReleasedHandles DEF Charge, Handled
  <1>2. CASE ~Cut(w, i) /\ (terminal \/ i.attempts + 1 >= MaxAttempts)
    <2>. DEFINE rec == Unlocked(i.row, "dead", row[i.row].attempts + 1, row[i.row].due)
    <2>1. rec \in Row /\ rec.st = "dead" /\ rec.lock = NoRun /\ rec.ref = row[i.row].ref
      BY ItemHeld DEF Row, Unlocked
    <2>2. row' = [row EXCEPT ![i.row] = rec]
      BY <1>2, ItemHeld DEF Charge, DeadLettered, Update
    <2>. QED  BY <2>1, <2>2 DEF Handled
  <1>3. CASE ~Cut(w, i) /\ ~(terminal \/ i.attempts + 1 >= MaxAttempts)
    <2>. DEFINE rec == Unlocked(i.row, row[i.row].st, row[i.row].attempts + 1, FALSE)
    <2>1. rec \in Row /\ rec.st = "pending" /\ rec.lock = NoRun /\ rec.ref = row[i.row].ref
          /\ rec.attempts < MaxAttempts
      BY <1>3, ItemHeld DEF Row, Unlocked, Pending
    <2>2. row' = [row EXCEPT ![i.row] = rec]
      BY <1>3, ItemHeld DEF Charge, Failed, Update
    <2>. QED  BY <2>1, <2>2 DEF Handled
  <1>. QED  BY <1>1, <1>2, <1>3

\* What a run holds after it is done with one item.
LEMMA AfterEffect ==
    ASSUME IInv, NEW w \in Run, NEW i \in run[w].items, run' = After(w, i), run[w].phase # "idle"
    PROVE  /\ run' \in [Run -> [phase : {"idle", "next", "sending"}, items : SUBSET Item,
                                item : Item \cup {NoItem}, aborted : BOOLEAN, outdated : BOOLEAN]]
           /\ \A v \in Run \ {w} : run'[v] = run[v]
           /\ run'[w].items = run[w].items \ {i}
           /\ \/ run[w].items \ {i} = {} /\ run'[w] = Idle
              \/ run[w].items \ {i} # {} /\ run'[w].phase = "next"
  <1>1. run[w] \in [phase : {"idle", "next", "sending"}, items : SUBSET Item,
                    item : Item \cup {NoItem}, aborted : BOOLEAN, outdated : BOOLEAN]
    BY DEF IInv, TypeOK
  <1>2. CASE run[w].items \ {i} = {}
    BY <1>1, <1>2 DEF After, Idle, IInv, TypeOK
  <1>3. CASE run[w].items \ {i} # {}
    BY <1>1, <1>3 DEF After, IInv, TypeOK
  <1>. QED  BY <1>2, <1>3

-----------------------------------------------------------------------------
\* Settling an item keeps the worker's invariant (deliver).
LEMMA HandledKeeps ==
    ASSUME IInv, NEW w \in Run, NEW i \in run[w].items, run[w].phase # "idle",
           Handled(i, {"pending", "delivered", "dead", "abandoned"}), run' = After(w, i), up' = up
    PROVE  OutboxInvariant' /\ row' \in [RowId -> Row \cup {NoRow}]
  <1>. PICK rec \in Row : /\ row' = [row EXCEPT ![i.row] = rec]
                          /\ rec.lock = NoRun /\ rec.ref = row[i.row].ref
                          /\ rec.st = "pending" => rec.attempts < MaxAttempts
    BY DEF Handled
  <1>1. row' \in [RowId -> Row \cup {NoRow}] /\ row'[i.row] = rec
        /\ \A r \in RowId \ {i.row} : row'[r] = row[r]
    BY ItemHeld DEF IInv, TypeOK
  <1>2. /\ \A v \in Run \ {w} : run'[v] = run[v] /\ run[v] = Idle
        /\ run'[w].items = run[w].items \ {i}
        /\ \/ run[w].items \ {i} = {} /\ run'[w] = Idle
           \/ run[w].items \ {i} # {} /\ run'[w].phase = "next"
    BY AfterEffect DEF IInv, OutboxInvariant, OneRun, RunShape
  <1>3. \A j \in run'[w].items : j \in run[w].items /\ j.row # i.row
    BY <1>2 DEF IInv, OutboxInvariant, RunShape
  <1>4. OneRun'
    BY <1>2 DEF IInv, OutboxInvariant, OneRun, Idle
  <1>5. RunShape'
    <2>. SUFFICES ASSUME NEW v \in Run
                  PROVE  /\ run'[v].phase = "idle" => run'[v] = Idle
                         /\ run'[v].phase # "idle" => run'[v].items # {}
                         /\ run'[v].phase = "sending" => /\ run'[v].item \in run'[v].items
                                                         /\ Sendable(run'[v].item)
                         /\ \A k, j \in run'[v].items : k.row = j.row => k = j
      BY DEF RunShape, Sendable, Chan
    <2>1. CASE v = w
      <3>1. \A k, j \in run'[w].items : k.row = j.row => k = j
        BY <1>3 DEF IInv, OutboxInvariant, RunShape
      <3>2. CASE run[w].items \ {i} = {} /\ run'[w] = Idle
        BY <3>2, <2>1 DEF Idle
      <3>3. CASE run[w].items \ {i} # {} /\ run'[w].phase = "next"
        BY <3>1, <3>3, <2>1, <1>2
      <3>. QED  BY <1>2, <3>2, <3>3
    <2>2. CASE v # w
      BY <2>2, <1>2 DEF IInv, OutboxInvariant, RunShape
    <2>. QED  BY <2>1, <2>2
  <1>6. HoldersOwn'
    <2>. SUFFICES ASSUME NEW v \in Run, NEW j \in run'[v].items
                  PROVE  /\ Pending(j.row)' /\ row'[j.row].lock = v
                         /\ row'[j.row].attempts = j.attempts /\ row'[j.row].ref = j.ref
      BY DEF HoldersOwn
    <2>1. v = w
      BY <1>2 DEF Idle
    <2>2. j \in run[w].items /\ j.row # i.row
      BY <1>3, <2>1
    <2>3. row'[j.row] = row[j.row] /\ j.row \in RowId
      BY <2>2, <1>1, ItemHeld
    <2>. QED  BY <2>1, <2>2, <2>3, ItemHeld DEF Pending, Exists
  <1>7. BudgetLeft'
    BY <1>1 DEF IInv, OutboxInvariant, BudgetLeft, Exists
  <1>. QED  BY <1>1, <1>4, <1>5, <1>6, <1>7 DEF OutboxInvariant

\* A step that leaves the runs and the process alone, and writes only rows no
\* run holds or their flags, keeps it.
LEMMA RowStepKeeps ==
    ASSUME IInv, run' = run, up' = up,
           \A r \in RowId : row'[r] = row[r] \/ ~Pending(r)
                           \/ /\ row'[r].st = row[r].st /\ row'[r].lock = row[r].lock
                              /\ row'[r].attempts = row[r].attempts /\ row'[r].ref = row[r].ref
                              /\ Exists(r)',
           BudgetLeft'
    PROVE  OutboxInvariant'
  <1>1. OneRun' /\ RunShape'
    BY DEF IInv, OutboxInvariant, OneRun, RunShape, Sendable, Chan
  <1>2. HoldersOwn'
    <2>. SUFFICES ASSUME NEW v \in Run, NEW j \in run[v].items
                  PROVE  /\ Pending(j.row)' /\ row'[j.row].lock = v
                         /\ row'[j.row].attempts = j.attempts /\ row'[j.row].ref = j.ref
      BY DEF HoldersOwn
    <2>. QED  BY ItemHeld DEF Pending, Exists
  <1>. QED  BY <1>1, <1>2 DEF OutboxInvariant

-----------------------------------------------------------------------------
\* Actions that only move one row that no run holds, or its flags.
LEMMA ProducerKeeps ==
    ASSUME IInv, NEW r \in RowId,
           \/ \E soon \in BOOLEAN : Enqueue(r, soon)
           \/ Retry(r) \/ DeleteHouse(r) \/ BecomesDue(r) \/ LockAges(r)
    PROVE  IInv'
  <1>1. CASE \E soon \in BOOLEAN : Enqueue(r, soon)
    <2>. PICK soon \in BOOLEAN : Enqueue(r, soon)
      BY <1>1
    <2>. DEFINE rec == [st |-> "pending", attempts |-> 0, due |-> soon, lock |-> NoRun,
                        aged |-> FALSE, ref |-> dest[Chan(r)]]
    <2>1. rec \in Row
      BY DEF IInv, TypeOK, Row, Chan, Channel
    <2>2. row' = [row EXCEPT ![r] = rec] /\ ~Exists(r) /\ run' = run /\ up' = up
      BY DEF Enqueue, process
    <2>3. TypeOK'
      BY <2>1, <2>2 DEF Enqueue, IInv, TypeOK, process, bounds
    <2>4. BudgetLeft'
      BY <2>1, <2>2 DEF IInv, OutboxInvariant, BudgetLeft, TypeOK, Exists
    <2>5. OutboxInvariant'
      BY <2>2, <2>4, RowStepKeeps DEF Pending, IInv, TypeOK
    <2>. QED  BY <2>3, <2>5 DEF IInv
  <1>2. CASE Retry(r)
    <2>. DEFINE rec == Unlocked(r, "pending", 0, TRUE)
    <2>1. rec \in Row /\ rec.attempts = 0 /\ rec.lock = NoRun /\ rec.st = "pending"
      BY <1>2 DEF Retry, Exists, IInv, TypeOK, Row, Unlocked
    <2>2. row' = [row EXCEPT ![r] = rec] /\ ~Pending(r) /\ run' = run /\ up' = up
      BY <1>2 DEF Retry, process, Pending
    <2>. HIDE DEF rec
    <2>2a. row' \in [RowId -> Row \cup {NoRow}]
      BY <2>1, <2>2 DEF IInv, TypeOK
    <2>3. TypeOK'
      <3>1. changes' \in 0..MaxChanges
        BY <1>2 DEF Retry, IInv, TypeOK
      <3>. QED  BY <3>1, <2>2a, <1>2 DEF Retry, IInv, TypeOK, process
    <2>4. BudgetLeft'
      BY <2>1, <2>2 DEF IInv, OutboxInvariant, BudgetLeft, TypeOK, Exists
    <2>5. OutboxInvariant'
      BY <2>2, <2>4, RowStepKeeps DEF IInv, TypeOK
    <2>. QED  BY <2>3, <2>5 DEF IInv
  <1>3. CASE DeleteHouse(r)
    <2>1. TypeOK'
      BY <1>3 DEF DeleteHouse, IInv, TypeOK, process
    <2>2. OutboxInvariant'
      BY <1>3 DEF DeleteHouse, IInv, OutboxInvariant, OneRun, RunShape, HoldersOwn, BudgetLeft,
                  process, Pending, Exists, Sendable, Chan
    <2>. QED  BY <2>1, <2>2 DEF IInv
  <1>4. CASE BecomesDue(r) \/ LockAges(r)
    <2>1. PICK due \in BOOLEAN, aged \in BOOLEAN :
              row' = [row EXCEPT ![r] = [row[r] EXCEPT !.due = due, !.aged = aged]]
      <3>1. Exists(r) /\ row[r] \in Row
        BY <1>4 DEF BecomesDue, LockAges, Pending, Exists, IInv, TypeOK
      <3>2. CASE BecomesDue(r)
        <4>1. [row[r] EXCEPT !.due = TRUE] = [row[r] EXCEPT !.due = TRUE, !.aged = row[r].aged]
          BY <3>1 DEF Row
        <4>. QED  BY <4>1, <3>1, <3>2 DEF BecomesDue, Row
      <3>3. CASE LockAges(r)
        <4>1. [row[r] EXCEPT !.aged = TRUE] = [row[r] EXCEPT !.due = row[r].due, !.aged = TRUE]
          BY <3>1 DEF Row
        <4>. QED  BY <4>1, <3>1, <3>3 DEF LockAges, Row
      <3>. QED  BY <1>4, <3>2, <3>3
    <2>2. row[r] \in Row /\ run' = run /\ up' = up
      BY <1>4 DEF BecomesDue, LockAges, Pending, Exists, IInv, TypeOK, process
    <2>. DEFINE rec == [row[r] EXCEPT !.due = due, !.aged = aged]
    <2>3. /\ rec \in Row /\ rec.st = row[r].st /\ rec.lock = row[r].lock
          /\ rec.attempts = row[r].attempts /\ rec.ref = row[r].ref
      BY <2>2 DEF Row
    <2>4. row' \in [RowId -> Row \cup {NoRow}]
      BY <2>1, <2>3 DEF IInv, TypeOK
    <2>5. TypeOK'
      BY <2>4, <1>4 DEF BecomesDue, LockAges, IInv, TypeOK, process, bounds
    <2>6. row'[r] = rec /\ \A q \in RowId \ {r} : row'[q] = row[q]
      BY <2>1 DEF IInv, TypeOK
    <2>7. BudgetLeft'
      BY <2>2, <2>3, <2>6 DEF IInv, OutboxInvariant, BudgetLeft, Exists
    <2>8. OutboxInvariant'
      BY <2>2, <2>3, <2>6, <2>7, RowStepKeeps DEF Exists
    <2>. QED  BY <2>5, <2>8 DEF IInv
  <1>. QED  BY <1>1, <1>2, <1>3, <1>4

\* A run claims rows nobody holds, or whose lock is left from a dead process.
LEMMA WakeKeeps ==
    ASSUME IInv, NEW w \in Run, Wake(w)
    PROVE  IInv'
  <1>0. PICK S \in SUBSET {r \in RowId : Claimable(r)} :
        /\ S # {}
        /\ row' = [r \in RowId |-> IF r \in S THEN [row[r] EXCEPT !.lock = w, !.aged = FALSE] ELSE row[r]]
        /\ run' = [run EXCEPT ![w] = Claimed(S)]
    BY DEF Wake
  <1>. DEFINE ticket(r) == [row |-> r, attempts |-> row[r].attempts, ref |-> row[r].ref]
              got == {ticket(r) : r \in S}
              new == [phase |-> "next", item |-> NoItem, aborted |-> FALSE, outdated |-> FALSE, items |-> got]
  <1>1. up /\ \A v \in Run : run[v] = Idle
    BY DEF Wake, IInv, OutboxInvariant, RunShape
  <1>2. \A r \in S : r \in RowId /\ row[r] \in Row /\ row[r].st = "pending"
    BY <1>0 DEF Claimable, Pending, Exists, IInv, TypeOK
  <1>3. got \subseteq Item /\ got # {} /\ \A i, j \in got : i.row = j.row => i = j
    <2>1. \A r \in S : ticket(r) \in Item /\ ticket(r).row = r
      BY <1>2 DEF Item, Row
    <2>. HIDE DEF ticket
    <2>. QED  BY <1>0, <2>1
  <1>3a. \A j \in got : \E r \in S : j.row = r /\ j.attempts = row[r].attempts /\ j.ref = row[r].ref
    <2>1. \A r \in S : ticket(r).row = r /\ ticket(r).attempts = row[r].attempts /\ ticket(r).ref = row[r].ref
      OBVIOUS
    <2>. HIDE DEF ticket
    <2>. QED  BY <2>1
  <1>4. run' = [run EXCEPT ![w] = new]
    BY <1>0 DEF Claimed
  <1>. HIDE DEF got
  <1>5. new \in [phase : {"idle", "next", "sending"}, items : SUBSET Item,
                 item : Item \cup {NoItem}, aborted : BOOLEAN, outdated : BOOLEAN]
    BY <1>3
  <1>5a. new.phase = "next" /\ new.items = got
    OBVIOUS
  <1>. HIDE DEF new
  <1>6. /\ run' \in [Run -> [phase : {"idle", "next", "sending"}, items : SUBSET Item,
                              item : Item \cup {NoItem}, aborted : BOOLEAN, outdated : BOOLEAN]]
        /\ run'[w] = new /\ \A v \in Run \ {w} : run'[v] = Idle
    BY <1>1, <1>4, <1>5 DEF IInv, TypeOK
  <1>7. /\ row' \in [RowId -> Row \cup {NoRow}]
        /\ \A r \in S : /\ row'[r].st = "pending" /\ row'[r].lock = w /\ row'[r] \in Row
                        /\ row'[r].attempts = row[r].attempts /\ row'[r].ref = row[r].ref
        /\ \A r \in RowId \ S : row'[r] = row[r]
    <2>1. \A r \in S : LET rec == [row[r] EXCEPT !.lock = w, !.aged = FALSE]
                       IN /\ rec \in Row /\ rec.st = "pending" /\ rec.lock = w
                          /\ rec.attempts = row[r].attempts /\ rec.ref = row[r].ref
      BY <1>2 DEF Row
    <2>. QED  BY <1>0, <2>1, <1>2 DEF IInv, TypeOK
  <1>8. TypeOK'
    BY <1>6, <1>7 DEF Wake, IInv, TypeOK, process, bounds
  <1>9. OneRun'
    BY <1>1, <1>6 DEF Wake, OneRun, Idle, process
  <1>10. RunShape'
    <2>. SUFFICES ASSUME NEW v \in Run
                  PROVE  /\ run'[v].phase = "idle" => run'[v] = Idle
                         /\ run'[v].phase # "idle" => run'[v].items # {}
                         /\ run'[v].phase = "sending" => /\ run'[v].item \in run'[v].items
                                                         /\ Sendable(run'[v].item)
                         /\ \A i, j \in run'[v].items : i.row = j.row => i = j
      BY DEF RunShape, Sendable, Chan
    <2>1. CASE v = w
      BY <2>1, <1>3, <1>5a, <1>6
    <2>2. CASE v # w
      BY <2>2, <1>6 DEF Idle
    <2>. QED  BY <2>1, <2>2
  <1>11. HoldersOwn'
    <2>. SUFFICES ASSUME NEW v \in Run, NEW j \in run'[v].items
                  PROVE  /\ Pending(j.row)' /\ row'[j.row].lock = v
                         /\ row'[j.row].attempts = j.attempts /\ row'[j.row].ref = j.ref
      BY DEF HoldersOwn
    <2>1. v = w /\ j \in got
      BY <1>5a, <1>6 DEF Idle
    <2>2. PICK r \in S : j.row = r /\ j.attempts = row[r].attempts /\ j.ref = row[r].ref
      BY <2>1, <1>3a
    <2>. QED  BY <2>1, <2>2, <1>7 DEF Pending, Exists
  <1>12. BudgetLeft'
    <2>. SUFFICES ASSUME NEW r \in RowId, row'[r] # NoRow
                  PROVE  /\ row'[r].st = "pending" => row'[r].attempts < MaxAttempts
                         /\ row'[r].lock # NoRun => row'[r].st = "pending"
      BY DEF BudgetLeft, Exists
    <2>1. CASE r \in S
      BY <2>1, <1>2, <1>7 DEF IInv, OutboxInvariant, BudgetLeft, Exists
    <2>2. CASE r \notin S
      BY <2>2, <1>7 DEF IInv, OutboxInvariant, BudgetLeft, Exists
    <2>. QED  BY <2>1, <2>2
  <1>. QED  BY <1>8, <1>9, <1>10, <1>11, <1>12 DEF IInv, OutboxInvariant

-----------------------------------------------------------------------------
\* How a step of a run that settles an item does so, and with what outcome.
LEMMA SettleSteps ==
    ASSUME IInv, NEW w \in Run
    PROVE  /\ \A i \in run[w].items : Deliver(w, i) =>
                 \/ Handled(i, {"abandoned", "pending", "dead"}) /\ run' = After(w, i) /\ UNCHANGED wire
                 \/ /\ i.ref = dest[Chan(i.row)] /\ Sendable(i) /\ row' = row
                    /\ run' = [run EXCEPT ![w] = [run[w] EXCEPT !.phase = "sending", !.item = i, !.outdated = FALSE]]
                    /\ wire' = wire \cup {<<i.row, dest[Chan(i.row)]>>}
           /\ AnswerOK(w) => Handled(run[w].item, {"delivered", "pending"}) /\ run' = After(w, run[w].item)
           /\ AnswerError(w) => Handled(run[w].item, {"dead", "pending"}) /\ run' = After(w, run[w].item)
           /\ \A disable \in BOOLEAN : AnswerTerminal(w, disable) =>
                 Handled(run[w].item, {"dead", "pending"}) /\ run' = After(w, run[w].item)
  <1>1. ASSUME NEW i \in run[w].items, Deliver(w, i)
        PROVE  \/ Handled(i, {"abandoned", "pending", "dead"}) /\ run' = After(w, i) /\ UNCHANGED wire
               \/ /\ i.ref = dest[Chan(i.row)] /\ Sendable(i) /\ row' = row
                  /\ run' = [run EXCEPT ![w] = [run[w] EXCEPT !.phase = "sending", !.item = i, !.outdated = FALSE]]
                  /\ wire' = wire \cup {<<i.row, dest[Chan(i.row)]>>}
    <2>1. CASE i.ref # dest[Chan(i.row)]
      <3>1. Handled(i, {"abandoned"})
        BY <1>1, <2>1, AbandonedHandles DEF Deliver
      <3>. QED  BY <3>1, <1>1, <2>1 DEF Deliver, Handled
    <2>2. CASE i.ref = dest[Chan(i.row)] /\ ~Sendable(i)
      <3>1. Handled(i, {"pending", "dead"})
        BY <1>1, <2>2, ChargeHandles DEF Deliver
      <3>. QED  BY <3>1, <1>1, <2>2 DEF Deliver, Handled
    <2>3. CASE i.ref = dest[Chan(i.row)] /\ Sendable(i)
      BY <1>1, <2>3 DEF Deliver
    <2>. QED  BY <2>1, <2>2, <2>3
  <1>2. run[w].phase = "sending" => run[w].item \in run[w].items
    BY DEF IInv, OutboxInvariant, RunShape
  <1>3. ASSUME AnswerOK(w)
        PROVE  Handled(run[w].item, {"delivered", "pending"}) /\ run' = After(w, run[w].item)
    <2>1. run[w].item \in run[w].items /\ run' = After(w, run[w].item)
      BY <1>2, <1>3 DEF AnswerOK
    <2>2. CASE Cut(w, run[w].item)
      <3>1. Handled(run[w].item, {"pending"})
        BY <1>3, <2>1, <2>2, ReleasedHandles DEF AnswerOK
      <3>. QED  BY <2>1, <3>1 DEF Handled
    <2>3. CASE ~Cut(w, run[w].item)
      <3>1. Handled(run[w].item, {"delivered"})
        BY <1>3, <2>1, <2>3, CompletedHandles DEF AnswerOK
      <3>. QED  BY <2>1, <3>1 DEF Handled
    <2>. QED  BY <2>2, <2>3
  <1>4. AnswerError(w) => Handled(run[w].item, {"dead", "pending"}) /\ run' = After(w, run[w].item)
    BY <1>2, ChargeHandles DEF AnswerError, Handled
  <1>5. \A disable \in BOOLEAN : AnswerTerminal(w, disable) =>
            Handled(run[w].item, {"dead", "pending"}) /\ run' = After(w, run[w].item)
    BY <1>2, ChargeHandles DEF AnswerTerminal, Handled
  <1>. QED  BY <1>1, <1>3, <1>4, <1>5

LEMMA RunnerKeeps ==
    ASSUME IInv, NEW w \in Run,
           \/ \E i \in run[w].items : Deliver(w, i)
           \/ AnswerOK(w) \/ AnswerError(w) \/ \E disable \in BOOLEAN : AnswerTerminal(w, disable)
    PROVE  IInv'
  <1>1. run[w].phase = "sending" => run[w].item \in run[w].items
    BY DEF IInv, OutboxInvariant, RunShape
  <1>2. CASE \E i \in run[w].items : Handled(i, {"pending", "delivered", "dead", "abandoned"}) /\ run' = After(w, i)
                                    /\ run[w].phase # "idle"
    <2>. PICK i \in run[w].items : Handled(i, {"pending", "delivered", "dead", "abandoned"}) /\ run' = After(w, i)
                                   /\ run[w].phase # "idle"
      BY <1>2
    <2>1. up' = up /\ stopping' = stopping /\ hidden' = hidden /\ issued' = issued
          /\ changes' = changes /\ faults' = faults
      BY DEF Deliver, AnswerOK, AnswerError, AnswerTerminal, process, bounds
    <2>2. OutboxInvariant' /\ row' \in [RowId -> Row \cup {NoRow}]
      BY <2>1, HandledKeeps
    <2>3. run' \in [Run -> [phase : {"idle", "next", "sending"}, items : SUBSET Item,
                            item : Item \cup {NoItem}, aborted : BOOLEAN, outdated : BOOLEAN]]
      BY AfterEffect
    <2>4. dest' \in [Channel -> Ref \cup {NoRef}]
      BY DEF Deliver, AnswerOK, AnswerError, AnswerTerminal, IInv, TypeOK
    <2>5. wire' \subseteq RowId \X Ref /\ heard' \in [RowId -> SUBSET Ref]
      <3>1. CASE AnswerOK(w)
        <4>1. run[w].item.ref \in Ref
          BY <3>1, <1>1, ItemHeld DEF AnswerOK, IInv, OutboxInvariant, RunShape, Sendable, Item
        <4>. QED  BY <4>1, <3>1 DEF AnswerOK, IInv, TypeOK
      <3>2. CASE AnswerError(w) \/ \E disable \in BOOLEAN : AnswerTerminal(w, disable)
        BY <3>2 DEF AnswerError, AnswerTerminal, IInv, TypeOK
      <3>3. CASE \E k \in run[w].items : Deliver(w, k)
        <4>. PICK k \in run[w].items : Deliver(w, k)
          BY <3>3
        <4>1. heard' = heard
          BY DEF Deliver
        <4>2. CASE UNCHANGED wire
          BY <4>1, <4>2 DEF IInv, TypeOK
        <4>3. CASE k.ref = dest[Chan(k.row)] /\ Sendable(k) /\ wire' = wire \cup {<<k.row, dest[Chan(k.row)]>>}
          <5>1. k.row \in RowId /\ k.ref \in Ref
            BY <4>3, ItemHeld DEF Sendable, Item
          <5>. QED  BY <4>1, <4>3, <5>1 DEF IInv, TypeOK
        <4>. QED  BY <4>2, <4>3, SettleSteps
      <3>. QED  BY <3>1, <3>2, <3>3
    <2>. QED  BY <2>1, <2>2, <2>3, <2>4, <2>5 DEF IInv, TypeOK
  <1>3. CASE \E i \in run[w].items :
                /\ Deliver(w, i) /\ i.ref = dest[Chan(i.row)] /\ Sendable(i) /\ row' = row
                /\ run' = [run EXCEPT ![w] = [run[w] EXCEPT !.phase = "sending", !.item = i, !.outdated = FALSE]]
                /\ wire' = wire \cup {<<i.row, dest[Chan(i.row)]>>}
    <2>1. PICK i \in run[w].items :
                /\ Deliver(w, i) /\ i.ref = dest[Chan(i.row)] /\ Sendable(i) /\ row' = row
                /\ run' = [run EXCEPT ![w] = [run[w] EXCEPT !.phase = "sending", !.item = i, !.outdated = FALSE]]
                /\ wire' = wire \cup {<<i.row, dest[Chan(i.row)]>>}
      BY <1>3
    <2>. DEFINE new == [run[w] EXCEPT !.phase = "sending", !.item = i, !.outdated = FALSE]
    <2>2. run[w] \in [phase : {"idle", "next", "sending"}, items : SUBSET Item,
                      item : Item \cup {NoItem}, aborted : BOOLEAN, outdated : BOOLEAN]
      BY DEF IInv, TypeOK
    <2>3. /\ new \in [phase : {"idle", "next", "sending"}, items : SUBSET Item,
                       item : Item \cup {NoItem}, aborted : BOOLEAN, outdated : BOOLEAN]
          /\ new.phase = "sending" /\ new.item = i /\ new.items = run[w].items
      BY <2>1, <2>2, ItemHeld
    <2>3a. run' = [run EXCEPT ![w] = new] /\ run[w].phase = "next"
      BY <2>1 DEF Deliver
    <2>. HIDE DEF new
    <2>4. /\ run' \in [Run -> [phase : {"idle", "next", "sending"}, items : SUBSET Item,
                                item : Item \cup {NoItem}, aborted : BOOLEAN, outdated : BOOLEAN]]
          /\ run'[w] = new /\ \A v \in Run \ {w} : run'[v] = run[v]
      BY <2>3, <2>3a DEF IInv, TypeOK
    <2>5. i.row \in RowId /\ i.ref \in Ref
      BY <2>1, ItemHeld DEF Sendable, Item
    <2>5a. wire' \subseteq RowId \X Ref /\ UNCHANGED <<dest, hidden, up, stopping, heard, issued, changes, faults>>
      <3>1. wire' = wire \cup {<<i.row, i.ref>>} /\ wire \subseteq RowId \X Ref
        BY <2>1 DEF IInv, TypeOK
      <3>2. <<i.row, i.ref>> \in RowId \X Ref
        BY <2>5
      <3>3. wire' \subseteq RowId \X Ref
        BY <3>1, <3>2
      <3>4. UNCHANGED <<dest, hidden, up, stopping, heard, issued, changes, faults>>
        BY <2>1 DEF Deliver, process, bounds
      <3>. QED  BY <3>3, <3>4
    <2>6. TypeOK'
      BY <2>1, <2>4, <2>5a DEF IInv, TypeOK
    <2>7. OneRun' /\ BudgetLeft'
      BY <2>1, <2>3a, <2>4, <2>5a DEF IInv, OutboxInvariant, OneRun, BudgetLeft, Exists, Idle
    <2>8. RunShape'
      <3>. SUFFICES ASSUME NEW v \in Run
                    PROVE  /\ run'[v].phase = "idle" => run'[v] = Idle
                           /\ run'[v].phase # "idle" => run'[v].items # {}
                           /\ run'[v].phase = "sending" => /\ run'[v].item \in run'[v].items
                                                           /\ Sendable(run'[v].item)
                           /\ \A k, j \in run'[v].items : k.row = j.row => k = j
        BY DEF RunShape, Sendable, Chan
      <3>1. CASE v = w
        BY <3>1, <2>1, <2>3, <2>4 DEF IInv, OutboxInvariant, RunShape
      <3>2. CASE v # w
        BY <3>2, <2>4 DEF IInv, OutboxInvariant, RunShape
      <3>. QED  BY <3>1, <3>2
    <2>9. HoldersOwn'
      <3>. SUFFICES ASSUME NEW v \in Run, NEW j \in run'[v].items
                    PROVE  /\ Pending(j.row)' /\ row'[j.row].lock = v
                           /\ row'[j.row].attempts = j.attempts /\ row'[j.row].ref = j.ref
        BY DEF HoldersOwn
      <3>1. j \in run[v].items
        BY <2>3, <2>4
      <3>. QED  BY <3>1, <2>1, ItemHeld DEF Pending, Exists
    <2>. QED  BY <2>6, <2>7, <2>8, <2>9 DEF IInv, OutboxInvariant
  <1>. QED
    <2>1. CASE \E i \in run[w].items : Deliver(w, i)
      <3>1. run[w].phase # "idle"
        BY <2>1 DEF Deliver
      <3>2. \A i : Handled(i, {"abandoned", "pending", "dead"}) => Handled(i, {"pending", "delivered", "dead", "abandoned"})
        BY DEF Handled
      <3>. QED  BY <2>1, <3>1, <3>2, <1>2, <1>3, SettleSteps
    <2>2. CASE AnswerOK(w) \/ AnswerError(w) \/ \E disable \in BOOLEAN : AnswerTerminal(w, disable)
      <3>1. run[w].phase = "sending" /\ run[w].item \in run[w].items
        BY <2>2, <1>1 DEF AnswerOK, AnswerError, AnswerTerminal
      <3>2. Handled(run[w].item, {"pending", "delivered", "dead", "abandoned"}) /\ run' = After(w, run[w].item)
        BY <2>2, SettleSteps DEF Handled
      <3>. QED  BY <3>1, <3>2, <1>2
    <2>. QED  BY <2>1, <2>2

-----------------------------------------------------------------------------
\* A step that changes no row, and no run except its flags, keeps the worker's
\* invariant.
LEMMA FlagStepKeeps ==
    ASSUME IInv, row' = row, up' = up,
           \A w \in Run : /\ run'[w].phase = run[w].phase /\ run'[w].items = run[w].items
                          /\ run'[w].item = run[w].item
                          /\ run[w].phase = "idle" => run'[w] = run[w]
    PROVE  OutboxInvariant'
  <1>1. OneRun' /\ BudgetLeft'
    <2>1. BudgetLeft'
      BY DEF IInv, OutboxInvariant, BudgetLeft, Exists
    <2>2. Idle.phase = "idle"
      BY DEF Idle
    <2>3. OneRun'
      BY <2>2 DEF IInv, OutboxInvariant, OneRun
    <2>. QED  BY <2>1, <2>3
  <1>2. RunShape'
    BY DEF IInv, OutboxInvariant, RunShape, Sendable, Chan
  <1>3. HoldersOwn'
    BY DEF IInv, OutboxInvariant, HoldersOwn, Pending, Exists
  <1>. QED  BY <1>1, <1>2, <1>3 DEF OutboxInvariant

\* An aborted run hands back every row it holds.
LEMMA HandBackKeeps ==
    ASSUME IInv, NEW w \in Run, HandBack(w)
    PROVE  IInv'
  <1>1. row' = Released(w, run[w].items) /\ run' = [run EXCEPT ![w] = Idle] /\ run[w].phase # "idle"
    BY DEF HandBack
  <1>2. \A r \in RowId :
          \/ row'[r] = row[r] /\ ~(Exists(r) /\ row[r].lock = w)
          \/ /\ Exists(r) /\ row[r] \in Row /\ row'[r] \in Row /\ row'[r].lock = NoRun
             /\ row'[r].st = row[r].st /\ row'[r].attempts = row[r].attempts /\ row'[r].ref = row[r].ref
          \/ row'[r] = row[r] /\ ~\E i \in run[w].items : i.row = r
    <2>. SUFFICES ASSUME NEW r \in RowId
                  PROVE  \/ row'[r] = row[r] /\ ~(Exists(r) /\ row[r].lock = w)
                         \/ /\ Exists(r) /\ row[r] \in Row /\ row'[r] \in Row /\ row'[r].lock = NoRun
                            /\ row'[r].st = row[r].st /\ row'[r].attempts = row[r].attempts
                            /\ row'[r].ref = row[r].ref
                         \/ row'[r] = row[r] /\ ~\E i \in run[w].items : i.row = r
      OBVIOUS
    <2>. DEFINE rec == Unlocked(r, row[r].st, row[r].attempts, TRUE)
    <2>1. CASE Holds(w, r) /\ \E i \in run[w].items : i.row = r
      <3>1. row[r] \in Row /\ Exists(r)
        BY <2>1 DEF Holds, Exists, IInv, TypeOK
      <3>2. /\ rec \in Row /\ rec.lock = NoRun /\ rec.st = row[r].st
            /\ rec.attempts = row[r].attempts /\ rec.ref = row[r].ref
        BY <3>1 DEF Row, Unlocked
      <3>3. row'[r] = rec
        BY <1>1, <2>1 DEF Released
      <3>. QED  BY <3>1, <3>2, <3>3
    <2>2. CASE ~(Holds(w, r) /\ \E i \in run[w].items : i.row = r)
      <3>1. row'[r] = row[r]
        BY <1>1, <2>2 DEF Released
      <3>2. CASE \E i \in run[w].items : i.row = r
        BY <3>1, <3>2, <2>2, ItemHeld
      <3>. QED  BY <3>1, <3>2
    <2>. QED  BY <2>1, <2>2
  <1>3. row' \in [RowId -> Row \cup {NoRow}]
    <2>1. row' = [r \in RowId |-> row'[r]]
      BY <1>1 DEF Released
    <2>2. \A r \in RowId : row'[r] \in Row \cup {NoRow}
      BY <1>2 DEF IInv, TypeOK
    <2>. QED  BY <2>1, <2>2
  <1>4. Idle \in [phase : {"idle", "next", "sending"}, items : SUBSET Item,
                  item : Item \cup {NoItem}, aborted : BOOLEAN, outdated : BOOLEAN]
    BY DEF Idle
  <1>5. /\ run' \in [Run -> [phase : {"idle", "next", "sending"}, items : SUBSET Item,
                              item : Item \cup {NoItem}, aborted : BOOLEAN, outdated : BOOLEAN]]
        /\ \A v \in Run : run'[v] = Idle
    BY <1>1, <1>4 DEF IInv, TypeOK, OutboxInvariant, OneRun, RunShape
  <1>6. TypeOK'
    BY <1>3, <1>5 DEF HandBack, IInv, TypeOK, process, bounds
  <1>7. OneRun' /\ RunShape' /\ HoldersOwn'
    BY <1>5 DEF OneRun, RunShape, HoldersOwn, Idle
  <1>8. BudgetLeft'
    BY <1>2 DEF IInv, OutboxInvariant, BudgetLeft, Exists
  <1>. QED  BY <1>6, <1>7, <1>8 DEF IInv, OutboxInvariant

\* Operators, phones, destinations, retention and the process.
LEMMA OtherKeeps ==
    ASSUME IInv,
           \/ \E S \in SUBSET RowId : Prune(S)
           \/ \E ref \in Ref \cup {NoRef} : \/ ConfigureTelegram(ref) \/ Register(ref) \/ Restart(ref)
                                            \/ \E r \in RowId : Accept(r, ref)
           \/ Stop \/ Exit \/ Crash
    PROVE  IInv'
  <1>1. CASE \E S \in SUBSET RowId : Prune(S)
    <2>1. PICK S \in SUBSET RowId : Prune(S)
      BY <1>1
    <2>2. \A r \in RowId : row'[r] = IF r \in S THEN NoRow ELSE row[r]
      BY <2>1 DEF Prune
    <2>3. TypeOK'
      BY <2>1 DEF Prune, IInv, TypeOK, process, bounds
    <2>4. \A r \in RowId : r \in S => ~Pending(r)
      BY <2>1 DEF Prune, Settled, Pending
    <2>5. BudgetLeft'
      BY <2>2 DEF IInv, OutboxInvariant, BudgetLeft, Exists
    <2>6. run' = run /\ up' = up
      BY <2>1 DEF Prune, process
    <2>7. \A r \in RowId : row'[r] = row[r] \/ ~Pending(r)
      BY <2>2, <2>4
    <2>8. OutboxInvariant'
      BY <2>5, <2>6, <2>7, RowStepKeeps
    <2>. QED  BY <2>3, <2>8 DEF IInv
  <1>2. CASE \E ref \in Ref \cup {NoRef} : ConfigureTelegram(ref)
    <2>1. PICK ref \in Ref \cup {NoRef} : ConfigureTelegram(ref)
      BY <1>2
    <2>. DEFINE cut(w) == [run[w] EXCEPT !.aborted = TRUE, !.outdated = TRUE]
    <2>2. \A w \in Run : /\ cut(w) \in [phase : {"idle", "next", "sending"}, items : SUBSET Item,
                                          item : Item \cup {NoItem}, aborted : BOOLEAN, outdated : BOOLEAN]
                         /\ cut(w).phase = run[w].phase /\ cut(w).items = run[w].items
                         /\ cut(w).item = run[w].item
      BY DEF IInv, TypeOK
    <2>3. run' = [w \in Run |-> IF run[w].phase = "idle" THEN run[w] ELSE cut(w)]
      BY <2>1 DEF ConfigureTelegram
    <2>. HIDE DEF cut
    <2>4. run' \in [Run -> [phase : {"idle", "next", "sending"}, items : SUBSET Item,
                            item : Item \cup {NoItem}, aborted : BOOLEAN, outdated : BOOLEAN]]
      BY <2>2, <2>3 DEF IInv, TypeOK
    <2>5. changes' \in 0..MaxChanges
      <3>1. changes' = changes + 1 /\ changes < MaxChanges
        BY <2>1 DEF ConfigureTelegram
      <3>. QED  BY <3>1 DEF IInv, TypeOK
    <2>6. TypeOK'
      BY <2>1, <2>4, <2>5 DEF ConfigureTelegram, IInv, TypeOK, process
    <2>7. row' = row /\ up' = up
      BY <2>1 DEF ConfigureTelegram, process
    <2>8. OutboxInvariant'
      BY <2>2, <2>3, <2>7, FlagStepKeeps
    <2>. QED  BY <2>6, <2>8 DEF IInv
  <1>3. CASE Stop
    <2>. DEFINE cut(w) == [run[w] EXCEPT !.aborted = TRUE]
    <2>2. \A w \in Run : /\ cut(w) \in [phase : {"idle", "next", "sending"}, items : SUBSET Item,
                                          item : Item \cup {NoItem}, aborted : BOOLEAN, outdated : BOOLEAN]
                         /\ cut(w).phase = run[w].phase /\ cut(w).items = run[w].items
                         /\ cut(w).item = run[w].item
      BY DEF IInv, TypeOK
    <2>3. run' = [w \in Run |-> IF run[w].phase = "idle" THEN run[w] ELSE cut(w)]
      BY <1>3 DEF Stop
    <2>. HIDE DEF cut
    <2>4. run' \in [Run -> [phase : {"idle", "next", "sending"}, items : SUBSET Item,
                            item : Item \cup {NoItem}, aborted : BOOLEAN, outdated : BOOLEAN]]
      BY <2>2, <2>3 DEF IInv, TypeOK
    <2>5. faults' \in 0..MaxFaults
      BY <1>3 DEF Stop, IInv, TypeOK
    <2>6. TypeOK'
      BY <1>3, <2>4, <2>5 DEF Stop, IInv, TypeOK
    <2>7. row' = row /\ up' = up
      BY <1>3 DEF Stop
    <2>8. OutboxInvariant'
      BY <2>2, <2>3, <2>7, FlagStepKeeps
    <2>. QED  BY <2>6, <2>8 DEF IInv
  <1>4. CASE Crash
    <2>1. run' = [w \in Run |-> Idle] /\ row' = row
      BY <1>4 DEF Crash
    <2>2. Idle \in [phase : {"idle", "next", "sending"}, items : SUBSET Item,
                    item : Item \cup {NoItem}, aborted : BOOLEAN, outdated : BOOLEAN]
      BY DEF Idle
    <2>3. faults' \in 0..MaxFaults
      BY <1>4 DEF Crash, IInv, TypeOK
    <2>4. TypeOK'
      BY <1>4, <2>1, <2>2, <2>3 DEF Crash, IInv, TypeOK
    <2>5. OneRun' /\ RunShape' /\ HoldersOwn' /\ BudgetLeft'
      BY <2>1 DEF IInv, OutboxInvariant, OneRun, RunShape, HoldersOwn, BudgetLeft, Exists, Idle
    <2>. QED  BY <2>4, <2>5 DEF IInv, OutboxInvariant
  <1>5. CASE Exit
    <2>1. TypeOK'
      BY <1>5 DEF Exit, IInv, TypeOK, bounds
    <2>2. OneRun' /\ RunShape' /\ HoldersOwn' /\ BudgetLeft'
      BY <1>5 DEF Exit, IInv, OutboxInvariant, OneRun, RunShape, HoldersOwn, BudgetLeft,
                  Exists, Pending, Sendable, Chan
    <2>. QED  BY <2>1, <2>2 DEF IInv, OutboxInvariant
  <1>6. CASE \E ref \in Ref \cup {NoRef} : Register(ref)
    <2>1. PICK ref \in Ref \cup {NoRef} : Register(ref)
      BY <1>6
    <2>2. changes' \in 0..MaxChanges
      BY <2>1 DEF Register, IInv, TypeOK
    <2>3. TypeOK'
      BY <2>1, <2>2 DEF Register, IInv, TypeOK, process
    <2>4. row' = row /\ up' = up /\ run' = run
      BY <2>1 DEF Register, process
    <2>. QED  BY <2>3, <2>4, FlagStepKeeps DEF IInv
  <1>7. CASE \E ref \in Ref \cup {NoRef} : \E r \in RowId : Accept(r, ref)
    <2>1. PICK ref \in Ref \cup {NoRef}, r \in RowId : Accept(r, ref)
      BY <1>7
    <2>2. ref \in Ref
      BY <2>1 DEF Accept, IInv, TypeOK
    <2>3. TypeOK'
      BY <2>1, <2>2 DEF Accept, IInv, TypeOK, process, bounds
    <2>4. row' = row /\ up' = up /\ run' = run
      BY <2>1 DEF Accept, process
    <2>. QED  BY <2>3, <2>4, FlagStepKeeps DEF IInv
  <1>8. CASE \E ref \in Ref \cup {NoRef} : Restart(ref)
    <2>1. PICK ref \in Ref \cup {NoRef} : Restart(ref)
      BY <1>8
    <2>2. TypeOK'
      BY <2>1 DEF Restart, IInv, TypeOK, bounds
    <2>3. OneRun' /\ RunShape' /\ HoldersOwn' /\ BudgetLeft'
      BY <2>1 DEF Restart, IInv, OutboxInvariant, OneRun, RunShape, HoldersOwn, BudgetLeft,
                  Exists, Pending, Sendable, Chan
    <2>. QED  BY <2>2, <2>3 DEF IInv, OutboxInvariant
  <1>. QED  BY <1>1, <1>2, <1>3, <1>4, <1>5, <1>6, <1>7, <1>8

-----------------------------------------------------------------------------
\* Type correctness and the worker's invariant hold initially, and every step
\* keeps them.
LEMMA InitInvariant == Init => IInv
  <1>. SUFFICES ASSUME Init PROVE IInv
    OBVIOUS
  <1>1. TypeOK
    <2>1. Idle \in [phase : {"idle", "next", "sending"}, items : SUBSET Item,
                    item : Item \cup {NoItem}, aborted : BOOLEAN, outdated : BOOLEAN]
      BY DEF Idle
    <2>2. row \in [RowId -> Row \cup {NoRow}] /\ run \in [Run -> [phase : {"idle", "next", "sending"},
             items : SUBSET Item, item : Item \cup {NoItem}, aborted : BOOLEAN, outdated : BOOLEAN]]
      BY <2>1 DEF Init
    <2>3. heard \in [RowId -> SUBSET Ref] /\ changes \in 0..MaxChanges /\ faults \in 0..MaxFaults
      BY DEF Init
    <2>. QED  BY <2>2, <2>3 DEF Init, TypeOK
  <1>2. OutboxInvariant
    BY DEF Init, OutboxInvariant, OneRun, RunShape, HoldersOwn, BudgetLeft, Exists, Idle
  <1>. QED  BY <1>1, <1>2 DEF IInv

LEMMA StepInvariant == IInv /\ [Next]_vars => IInv'
  <1>. SUFFICES ASSUME IInv, [Next]_vars PROVE IInv'
    OBVIOUS
  <1>1. CASE UNCHANGED vars
    <2>1. TypeOK'
      BY <1>1 DEF vars, process, bounds, IInv, TypeOK
    <2>2. row' = row /\ up' = up /\ run' = run
      BY <1>1 DEF vars, process
    <2>. QED  BY <2>1, <2>2, FlagStepKeeps DEF IInv
  <1>2. CASE Next
    BY <1>2, ProducerKeeps, WakeKeeps, HandBackKeeps, RunnerKeeps, OtherKeeps DEF Next
  <1>. QED  BY <1>1, <1>2

\* Every reachable state is well typed.
THEOREM TypeCorrect == Spec => []TypeOK
  <1>1. IInv => TypeOK
    BY DEF IInv
  <1>. QED  BY <1>1, InitInvariant, StepInvariant, PTL DEF Spec

\* One run at a time, which still owns what it claimed when it settles it, and
\* attempts never exceed the policy (DurableWorker.wake, lock_token).
THEOREM InvariantCorrect == Spec => []OutboxInvariant
  <1>1. IInv => OutboxInvariant
    BY DEF IInv
  <1>. QED  BY <1>1, InitInvariant, StepInvariant, PTL DEF Spec

-----------------------------------------------------------------------------
\* How a step treats rows, requests and what destinations have heard: a row
\* keeps its destination, and a request or a receipt is for that one.
Addressed ==
    /\ \A r \in RowId :
        Exists(r) => \/ Exists(r)' /\ row'[r].ref = row[r].ref
                     \/ heard'[r] = {} /\ \A ref \in Ref : <<r, ref>> \notin wire'
    /\ \A r \in RowId, ref \in Ref :
        <<r, ref>> \in wire' => <<r, ref>> \in wire \/ (Exists(r) /\ row[r].ref = ref)
    /\ \A r \in RowId : \A ref \in heard'[r] :
        ref \in heard[r] \/ <<r, ref>> \in wire \/ (Exists(r) /\ row[r].ref = ref)

LEMMA AddressedKeeps ==
    ASSUME TypeOK, TypeOK', NotRerouted, Addressed
    PROVE  NotRerouted'
  <1>. USE DEF Exists
  <1>1. ASSUME NEW r \in RowId, NEW ref \in Ref, <<r, ref>> \in wire' PROVE Exists(r)' /\ row'[r].ref = ref
    <2>1. Exists(r) /\ row[r].ref = ref
      BY <1>1 DEF NotRerouted, Addressed
    <2>. QED  BY <1>1, <2>1 DEF Addressed
  <1>2. ASSUME NEW r \in RowId, NEW ref \in heard'[r] PROVE Exists(r)' /\ row'[r].ref = ref
    <2>1. ref \in Ref
      BY <1>2 DEF TypeOK
    <2>2. Exists(r) /\ row[r].ref = ref
      BY <1>2, <2>1 DEF NotRerouted, Addressed
    <2>. QED  BY <1>2, <2>2 DEF Addressed
  <1>. QED  BY <1>1, <1>2 DEF NotRerouted

\* Settling keeps the destination of the row.
LEMMA HandledAddresses ==
    ASSUME IInv, NEW w \in Run, NEW i \in run[w].items,
           Handled(i, {"pending", "delivered", "dead", "abandoned"})
    PROVE  /\ \A r \in RowId : Exists(r) => Exists(r)' /\ row'[r].ref = row[r].ref
           /\ \A r \in RowId \ {i.row} : row'[r] = row[r]
  BY ItemHeld DEF Handled, IInv, TypeOK, Exists

LEMMA StepAddresses == IInv /\ IInv' /\ NotRerouted /\ Next => NotRerouted'
  <1>. SUFFICES ASSUME IInv, IInv', NotRerouted, Next PROVE NotRerouted'
    OBVIOUS
  <1>. USE DEF Exists
  <1>1. ASSUME NEW r \in RowId, \/ \E soon \in BOOLEAN : Enqueue(r, soon)
                               \/ Retry(r) \/ DeleteHouse(r) \/ BecomesDue(r) \/ LockAges(r)
        PROVE  Addressed
    <2>1. wire' = wire /\ heard' = heard
      BY <1>1 DEF Enqueue, Retry, DeleteHouse, BecomesDue, LockAges
    <2>2. CASE \E soon \in BOOLEAN : Enqueue(r, soon)
      <3>1. \A q \in RowId \ {r} : row'[q] = row[q]
        BY <2>2 DEF Enqueue
      <3>2. ~Exists(r)
        BY <2>2 DEF Enqueue
      <3>. QED  BY <2>1, <3>1, <3>2 DEF Addressed
    <2>3. CASE Retry(r) \/ DeleteHouse(r) \/ BecomesDue(r) \/ LockAges(r)
      <3>1. \A q \in RowId : Exists(q) => Exists(q)' /\ row'[q].ref = row[q].ref
        <4>1. CASE DeleteHouse(r)
          BY <4>1 DEF DeleteHouse
        <4>2. CASE Retry(r)
          <5>1. Unlocked(r, "pending", 0, TRUE).ref = row[r].ref
            BY DEF Unlocked
          <5>2. row'[r] = Unlocked(r, "pending", 0, TRUE) /\ \A q \in RowId \ {r} : row'[q] = row[q]
            BY <4>2 DEF Retry, IInv, TypeOK
          <5>3. row'[r] \in Row
            <6>1. row[r] \in Row
              BY <4>2 DEF Retry, IInv, TypeOK
            <6>. QED  BY <6>1, <5>2 DEF Unlocked, Row
          <5>. QED  BY <5>1, <5>2, <5>3
        <4>3. CASE BecomesDue(r) \/ LockAges(r)
          <5>1. row[r] \in Row
            BY <4>3 DEF BecomesDue, LockAges, Pending, IInv, TypeOK
          <5>2. [row[r] EXCEPT !.due = TRUE].ref = row[r].ref /\ [row[r] EXCEPT !.aged = TRUE].ref = row[r].ref
                /\ [row[r] EXCEPT !.due = TRUE] \in Row /\ [row[r] EXCEPT !.aged = TRUE] \in Row
            BY <5>1 DEF Row
          <5>3. /\ row'[r] = [row[r] EXCEPT !.due = TRUE] \/ row'[r] = [row[r] EXCEPT !.aged = TRUE]
                /\ \A q \in RowId \ {r} : row'[q] = row[q]
            BY <4>3 DEF BecomesDue, LockAges, IInv, TypeOK
          <5>. QED  BY <5>2, <5>3
        <4>. QED  BY <2>3, <4>1, <4>2, <4>3
      <3>. QED  BY <2>1, <3>1 DEF Addressed
    <2>. QED  BY <1>1, <2>2, <2>3
  <1>2. ASSUME NEW w \in Run, Wake(w) PROVE Addressed
    <2>1. wire' = wire /\ heard' = heard
      BY <1>2 DEF Wake
    <2>2. \A q \in RowId : Exists(q) => Exists(q)' /\ row'[q].ref = row[q].ref
      <3>. SUFFICES ASSUME NEW q \in RowId, Exists(q)
                    PROVE  Exists(q)' /\ row'[q].ref = row[q].ref
        OBVIOUS
      <3>1. row[q] \in Row
        BY DEF IInv, TypeOK
      <3>2. [row[q] EXCEPT !.lock = w, !.aged = FALSE] \in Row
            /\ [row[q] EXCEPT !.lock = w, !.aged = FALSE].ref = row[q].ref
        BY <3>1 DEF Row
      <3>3. row'[q] = row[q] \/ row'[q] = [row[q] EXCEPT !.lock = w, !.aged = FALSE]
        BY <1>2 DEF Wake
      <3>. QED  BY <3>1, <3>2, <3>3
    <2>. QED  BY <2>1, <2>2 DEF Addressed
  <1>3. ASSUME NEW w \in Run, HandBack(w) PROVE Addressed
    <2>1. wire' = wire /\ heard' = heard
      BY <1>3 DEF HandBack
    <2>2. \A q \in RowId : Exists(q) => Exists(q)' /\ row'[q].ref = row[q].ref
      <3>. SUFFICES ASSUME NEW q \in RowId, Exists(q)
                    PROVE  Exists(q)' /\ row'[q].ref = row[q].ref
        OBVIOUS
      <3>. DEFINE rec == Unlocked(q, row[q].st, row[q].attempts, TRUE)
      <3>1. row[q] \in Row
        BY DEF IInv, TypeOK
      <3>2. rec \in Row /\ rec.ref = row[q].ref
        BY <3>1 DEF Row, Unlocked
      <3>3. row'[q] = row[q] \/ row'[q] = rec
        BY <1>3 DEF HandBack, Released
      <3>. QED  BY <3>1, <3>2, <3>3
    <2>. QED  BY <2>1, <2>2 DEF Addressed
  <1>4. ASSUME NEW w \in Run, NEW i \in run[w].items, Deliver(w, i) PROVE Addressed
    <2>1. heard' = heard
      BY <1>4 DEF Deliver
    <2>2. CASE Handled(i, {"abandoned", "pending", "dead"}) /\ wire' = wire
      <3>1. Handled(i, {"pending", "delivered", "dead", "abandoned"})
        BY <2>2 DEF Handled
      <3>. QED  BY <2>1, <2>2, <3>1, HandledAddresses DEF Addressed
    <2>3. CASE i.ref = dest[Chan(i.row)] /\ row' = row /\ wire' = wire \cup {<<i.row, dest[Chan(i.row)]>>}
      <3>1. i.row \in RowId /\ Exists(i.row) /\ row[i.row].ref = i.ref
        BY ItemHeld DEF Pending
      <3>. QED  BY <2>1, <2>3, <3>1 DEF Addressed
    <2>. QED  BY <1>4, <2>2, <2>3, SettleSteps
  <1>5. ASSUME NEW w \in Run, \/ AnswerOK(w) \/ AnswerError(w) \/ \E disable \in BOOLEAN : AnswerTerminal(w, disable)
        PROVE  Addressed
    <2>1. run[w].item \in run[w].items
      BY <1>5 DEF AnswerOK, AnswerError, AnswerTerminal, IInv, OutboxInvariant, RunShape
    <2>2. Handled(run[w].item, {"pending", "delivered", "dead", "abandoned"})
      BY <1>5, SettleSteps DEF Handled
    <2>3. run[w].item.row \in RowId /\ Exists(run[w].item.row) /\ row[run[w].item.row].ref = run[w].item.ref
      BY <2>1, ItemHeld DEF Pending
    <2>4. /\ wire' \subseteq wire
          /\ \A r \in RowId : \A ref \in heard'[r] : ref \in heard[r] \/ (Exists(r) /\ row[r].ref = ref)
      <3>1. CASE AnswerOK(w)
        <4>1. heard' = [heard EXCEPT ![run[w].item.row] = heard[run[w].item.row] \cup {run[w].item.ref}]
              /\ wire' \subseteq wire
          BY <3>1 DEF AnswerOK
        <4>2. heard \in [RowId -> SUBSET Ref]
          BY DEF IInv, TypeOK
        <4>. QED  BY <4>1, <4>2, <2>3
      <3>2. CASE AnswerError(w)
        BY <3>2 DEF AnswerError
      <3>3. CASE \E disable \in BOOLEAN : AnswerTerminal(w, disable)
        BY <3>3 DEF AnswerTerminal
      <3>. QED  BY <1>5, <3>1, <3>2, <3>3
    <2>. QED  BY <2>1, <2>2, <2>4, HandledAddresses DEF Addressed
  <1>6. ASSUME NEW S \in SUBSET RowId, Prune(S) PROVE Addressed
    <2>1. \A r \in RowId : row'[r] = (IF r \in S THEN NoRow ELSE row[r])
                           /\ heard'[r] = (IF r \in S THEN {} ELSE heard[r])
      BY <1>6 DEF Prune
    <2>2. wire' \subseteq wire /\ \A r \in S, ref \in Ref : <<r, ref>> \notin wire'
      BY <1>6 DEF Prune
    <2>. QED  BY <2>1, <2>2 DEF Addressed
  <1>7. ASSUME NEW ref \in Ref \cup {NoRef}, NEW r \in RowId, Accept(r, ref) PROVE Addressed
    <2>1. row' = row /\ wire' \subseteq wire
          /\ \A q \in RowId : \A x \in heard'[q] : x \in heard[q] \/ <<q, x>> \in wire
      BY <1>7 DEF Accept, IInv, TypeOK
    <2>. QED  BY <2>1 DEF Addressed
  <1>8. ASSUME row' = row, wire' = wire, heard' = heard PROVE Addressed
    BY <1>8 DEF Addressed
  <1>9. \A ref : ConfigureTelegram(ref) \/ Register(ref) \/ Restart(ref) => row' = row /\ wire' = wire /\ heard' = heard
    BY DEF ConfigureTelegram, Register, Restart
  <1>10. Stop \/ Exit \/ Crash => row' = row /\ wire' = wire /\ heard' = heard
    BY DEF Stop, Exit, Crash
  <1>11. Addressed
    BY <1>1, <1>2, <1>3, <1>4, <1>5, <1>6, <1>7, <1>8, <1>9, <1>10 DEF Next
  <1>. QED  BY <1>11, AddressedKeeps DEF IInv

\* A queued notification reaches no destination but its own, however often the
\* configuration changes while it waits or is on its way (destination_ref).
THEOREM NeverRerouted == Spec => []NotRerouted
  <1>1. Init => NotRerouted
    BY DEF Init, NotRerouted
  <1>2. IInv /\ IInv' /\ NotRerouted /\ [Next]_vars => NotRerouted'
    <2>1. ASSUME NotRerouted, UNCHANGED vars PROVE NotRerouted'
      BY <2>1 DEF NotRerouted, vars, Exists
    <2>. QED  BY <2>1, StepAddresses
  <1>. QED  BY <1>1, <1>2, InitInvariant, StepInvariant, PTL DEF Spec

-----------------------------------------------------------------------------
\* Steps that change no state of a notification and reach no new one are
\* invisible in the ledger.
LEMMA Stutters ==
    ASSUME \A r \in RowId : State(r)' = State(r) /\ (heard'[r] = {} <=> heard[r] = {})
    PROVE  UNCHANGED Ledger!ledgerVars
  BY DEF Ledger!ledgerVars

\* One notification changes its state in the ledger.
LEMMA Moves ==
    ASSUME NEW r \in RowId, NEW from, NEW to, State(r) = from, State(r)' = to,
           \A q \in RowId \ {r} : State(q)' = State(q)
    PROVE  Ledger!Move(r, from, to)
  BY DEF Ledger!Move

\* Settling item i moves its notification as its status says.
LEMMA HandledMoves ==
    ASSUME IInv, NEW w \in Run, NEW i \in run[w].items,
           NEW st \in {"pending", "delivered", "dead", "abandoned"}, Handled(i, {st})
    PROVE  /\ i.row \in RowId /\ State(i.row) = "queued"
           /\ st = "pending" => State(i.row)' = "queued"
           /\ st = "delivered" => State(i.row)' = "delivered"
           /\ st \in {"dead", "abandoned"} => State(i.row)' = "failed"
           /\ \A q \in RowId \ {i.row} : State(q)' = State(q)
  <1>1. i.row \in RowId /\ Pending(i.row)
    BY ItemHeld
  <1>2. PICK rec \in Row : row' = [row EXCEPT ![i.row] = rec] /\ rec.st = st
    BY DEF Handled
  <1>3. row \in [RowId -> Row \cup {NoRow}]
    BY DEF IInv, TypeOK
  <1>4. row'[i.row] = rec /\ rec # NoRow /\ \A q \in RowId \ {i.row} : row'[q] = row[q]
    BY <1>1, <1>2, <1>3
  <1>. QED  BY <1>1, <1>2, <1>4 DEF State, Pending, Exists

\* Settling an item without an acceptance fails or keeps its notification.
LEMMA HandledLedger ==
    ASSUME IInv, NEW w \in Run, NEW i \in run[w].items,
           Handled(i, {"pending", "dead", "abandoned"}), heard' = heard
    PROVE  [Ledger!Next]_Ledger!ledgerVars
  <1>1. PICK st \in {"pending", "dead", "abandoned"} : Handled(i, {st})
    BY DEF Handled
  <1>2. CASE st = "pending"
    BY <1>1, <1>2, HandledMoves, Stutters
  <1>3. CASE st \in {"dead", "abandoned"}
    <2>1. Ledger!Move(i.row, "queued", "failed") /\ i.row \in RowId
      BY <1>1, <1>3, HandledMoves, Moves
    <2>. QED  BY <2>1 DEF Ledger!Next, Ledger!Fail
  <1>. QED  BY <1>2, <1>3

LEMMA StepImplements == IInv /\ [Next]_vars => [Ledger!Next]_Ledger!ledgerVars
  <1>. SUFFICES ASSUME IInv, [Next]_vars PROVE [Ledger!Next]_Ledger!ledgerVars
    OBVIOUS
  <1>t. row \in [RowId -> Row \cup {NoRow}] /\ heard \in [RowId -> SUBSET Ref]
    BY DEF IInv, TypeOK
  <1>1. ASSUME NEW r \in RowId, NEW soon \in BOOLEAN, Enqueue(r, soon) PROVE Ledger!Next
    <2>. DEFINE rec == [st |-> "pending", attempts |-> 0, due |-> soon, lock |-> NoRun,
                        aged |-> FALSE, ref |-> dest[Chan(r)]]
    <2>1. rec \in Row /\ rec.st = "pending"
      BY DEF Row, Chan, Channel, IInv, TypeOK
    <2>2. row' = [row EXCEPT ![r] = rec] /\ ~Exists(r) /\ heard' = heard
      BY <1>1 DEF Enqueue
    <2>. HIDE DEF rec
    <2>3. row'[r] = rec /\ rec # NoRow /\ \A q \in RowId \ {r} : row'[q] = row[q]
      BY <1>t, <2>1, <2>2
    <2>4. Ledger!Move(r, "none", "queued")
      BY <2>1, <2>2, <2>3, Moves DEF State, Exists
    <2>. QED  BY <2>2, <2>4 DEF Ledger!Next, Ledger!Queue
  <1>2. ASSUME NEW r \in RowId, Retry(r) PROVE Ledger!Next
    <2>. DEFINE rec == Unlocked(r, "pending", 0, TRUE)
    <2>1. rec \in Row /\ rec.st = "pending"
      BY <1>2, <1>t DEF Row, Unlocked, Retry, Exists
    <2>2. row' = [row EXCEPT ![r] = rec] /\ Exists(r) /\ row[r].st \in {"dead", "abandoned"} /\ heard' = heard
      BY <1>2 DEF Retry
    <2>. HIDE DEF rec
    <2>3. row'[r] = rec /\ rec # NoRow /\ \A q \in RowId \ {r} : row'[q] = row[q]
      BY <1>t, <2>1, <2>2
    <2>4. Ledger!Move(r, "failed", "queued")
      BY <2>1, <2>2, <2>3, Moves DEF State, Exists
    <2>. QED  BY <2>2, <2>4 DEF Ledger!Next, Ledger!Requeue
  <1>3. ASSUME NEW r \in RowId, BecomesDue(r) \/ LockAges(r) PROVE UNCHANGED Ledger!ledgerVars
    <2>1. row[r] \in Row /\ Exists(r)
      BY <1>3, <1>t DEF BecomesDue, LockAges, Pending, Exists
    <2>2. PICK rec \in Row : row' = [row EXCEPT ![r] = rec] /\ rec.st = row[r].st
      <3>1. /\ [row[r] EXCEPT !.due = TRUE] \in Row /\ [row[r] EXCEPT !.due = TRUE].st = row[r].st
            /\ [row[r] EXCEPT !.aged = TRUE] \in Row /\ [row[r] EXCEPT !.aged = TRUE].st = row[r].st
        BY <2>1 DEF Row
      <3>. QED  BY <1>3, <3>1 DEF BecomesDue, LockAges
    <2>3. row'[r] = rec /\ rec # NoRow /\ \A q \in RowId \ {r} : row'[q] = row[q]
      BY <1>t, <2>2
    <2>4. heard' = heard
      BY <1>3 DEF BecomesDue, LockAges
    <2>. QED  BY <2>1, <2>2, <2>3, <2>4, Stutters DEF State, Exists
  <1>4. ASSUME NEW w \in Run, Wake(w) \/ HandBack(w) PROVE UNCHANGED Ledger!ledgerVars
    <2>1. heard' = heard
      BY <1>4 DEF Wake, HandBack
    <2>2. ASSUME NEW q \in RowId PROVE State(q)' = State(q)
      <3>1. CASE row'[q] = row[q]
        BY <3>1 DEF State, Exists
      <3>2. CASE row'[q] # row[q]
        <4>1. Exists(q) /\ row'[q] \in Row /\ row'[q].st = row[q].st
          <5>1. CASE Wake(w)
            <6>1. Exists(q) /\ row'[q] = [row[q] EXCEPT !.lock = w, !.aged = FALSE]
              BY <3>2, <5>1 DEF Wake, Claimable, Pending
            <6>2. row[q] \in Row
              BY <1>t, <6>1 DEF Exists
            <6>. QED  BY <6>1, <6>2 DEF Row
          <5>2. CASE HandBack(w)
            <6>1. Exists(q) /\ row'[q] = Unlocked(q, row[q].st, row[q].attempts, TRUE)
              BY <3>2, <5>2 DEF HandBack, Released, Holds
            <6>2. row[q] \in Row
              BY <1>t, <6>1 DEF Exists
            <6>. QED  BY <6>1, <6>2 DEF Row, Unlocked
          <5>. QED  BY <1>4, <5>1, <5>2
        <4>. QED  BY <4>1 DEF State, Exists
      <3>. QED  BY <3>1, <3>2
    <2>. QED  BY <2>1, <2>2, Stutters
  <1>5. ASSUME NEW w \in Run, NEW i \in run[w].items, Deliver(w, i) PROVE [Ledger!Next]_Ledger!ledgerVars
    <2>1. heard' = heard
      BY <1>5 DEF Deliver
    <2>2. CASE row' = row
      BY <2>1, <2>2, Stutters DEF State, Exists
    <2>3. CASE Handled(i, {"abandoned", "pending", "dead"})
      <3>1. Handled(i, {"pending", "dead", "abandoned"})
        BY <2>3 DEF Handled
      <3>. QED  BY <2>1, <3>1, HandledLedger
    <2>. QED  BY <1>5, <2>2, <2>3, SettleSteps
  <1>6. ASSUME NEW w \in Run, AnswerError(w) \/ \E disable \in BOOLEAN : AnswerTerminal(w, disable)
        PROVE  [Ledger!Next]_Ledger!ledgerVars
    <2>1. heard' = heard
      BY <1>6 DEF AnswerError, AnswerTerminal
    <2>2. run[w].item \in run[w].items
      BY <1>6 DEF AnswerError, AnswerTerminal, IInv, OutboxInvariant, RunShape
    <2>3. Handled(run[w].item, {"dead", "pending"})
      BY <1>6, SettleSteps
    <2>4. Handled(run[w].item, {"pending", "dead", "abandoned"})
      BY <2>3 DEF Handled
    <2>. QED  BY <2>1, <2>2, <2>4, HandledLedger
  <1>7. ASSUME NEW w \in Run, AnswerOK(w) PROVE Ledger!Next
    <2>. DEFINE i == run[w].item
    <2>1. i \in run[w].items
      BY <1>7 DEF AnswerOK, IInv, OutboxInvariant, RunShape
    <2>2. heard' = [heard EXCEPT ![i.row] = heard[i.row] \cup {i.ref}] /\ i.row \in RowId
      BY <1>7, <2>1, ItemHeld DEF AnswerOK
    <2>3. {r \in RowId : heard'[r] # {}} = {r \in RowId : heard[r] # {}} \cup {i.row}
      BY <1>t, <2>2
    <2>4. CASE Cut(w, i)
      <3>1. Handled(i, {"pending"})
        BY <1>7, <2>1, <2>4, ReleasedHandles DEF AnswerOK
      <3>2. \A r \in RowId : State(r)' = State(r)
        BY <2>1, <3>1, HandledMoves
      <3>. HIDE DEF i
      <3>3. Ledger!Receive(i.row) /\ i.row \in RowId
        BY <2>2, <2>3, <3>2 DEF Ledger!Receive
      <3>. QED  BY <3>3 DEF Ledger!Next, Ledger!Receive
    <2>5. CASE ~Cut(w, i)
      <3>1. Handled(i, {"delivered"})
        BY <1>7, <2>1, <2>5, CompletedHandles DEF AnswerOK
      <3>2. Ledger!Move(i.row, "queued", "delivered")
        BY <2>1, <3>1, HandledMoves, Moves
      <3>. HIDE DEF i
      <3>3. Ledger!Deliver(i.row) /\ i.row \in RowId
        BY <2>2, <2>3, <3>2 DEF Ledger!Deliver
      <3>. QED  BY <3>3 DEF Ledger!Next, Ledger!Deliver, Ledger!Move
    <2>. QED  BY <2>4, <2>5
  <1>8. ASSUME NEW S \in SUBSET RowId, Prune(S) PROVE Ledger!Next
    <2>1. \A r \in RowId : /\ row'[r] = (IF r \in S THEN NoRow ELSE row[r])
                           /\ heard'[r] = (IF r \in S THEN {} ELSE heard[r])
      BY <1>8 DEF Prune
    <2>2. \A r \in S : State(r) \in {"delivered", "failed"}
      BY <1>8 DEF Prune, Settled, State
    <2>3. \A r \in RowId : State(r)' = (IF r \in S THEN "none" ELSE State(r))
      BY <2>1 DEF State, Exists
    <2>4. {r \in RowId : heard'[r] # {}} = {r \in RowId : heard[r] # {}} \ S
      BY <2>1
    <2>5. Ledger!Forget(S)
      BY <2>2, <2>3, <2>4 DEF Ledger!Forget
    <2>. QED  BY <2>5 DEF Ledger!Next
  <1>9. ASSUME NEW r \in RowId, NEW ref \in Ref \cup {NoRef}, Accept(r, ref) PROVE Ledger!Next
    <2>1. row' = row /\ heard' = [heard EXCEPT ![r] = heard[r] \cup {ref}]
      BY <1>9 DEF Accept
    <2>2. \A q \in RowId : State(q)' = State(q)
      BY <2>1 DEF State, Exists
    <2>3. {q \in RowId : heard'[q] # {}} = {q \in RowId : heard[q] # {}} \cup {r}
      BY <1>t, <2>1
    <2>4. Ledger!Receive(r)
      BY <2>2, <2>3 DEF Ledger!Receive
    <2>. QED  BY <2>4 DEF Ledger!Next
  <1>10. ASSUME row' = row, heard' = heard PROVE UNCHANGED Ledger!ledgerVars
    BY <1>10, Stutters DEF State, Exists
  <1>11. \/ UNCHANGED vars \/ (\E r \in RowId : DeleteHouse(r)) \/ Stop \/ Exit \/ Crash
         \/ (\E ref \in Ref \cup {NoRef} : ConfigureTelegram(ref) \/ Register(ref) \/ Restart(ref))
         => row' = row /\ heard' = heard
    BY DEF vars, DeleteHouse, Stop, Exit, Crash, ConfigureTelegram, Register, Restart
  <1>. QED  BY <1>1, <1>2, <1>3, <1>4, <1>5, <1>6, <1>7, <1>8, <1>9, <1>10, <1>11 DEF Next

\* The outbox implements the ledger: delivered means received, a settled
\* notification stays settled unless an operator retries it, and only settled
\* ones are forgotten.
THEOREM Implements == Spec => ImplementsLedger
  <1>1. Init => Ledger!Init
    BY DEF Init, Ledger!Init, State, Exists
  <1>. QED  BY <1>1, StepImplements, InitInvariant, StepInvariant, PTL DEF Spec, ImplementsLedger, Ledger!Spec

-----------------------------------------------------------------------------
(* What the ledger promises of delivered notifications *)

\* Delivered means received.
HeardIfDelivered == \A r \in RowId : State(r) = "delivered" => heard[r] # {}

\* What is delivered stays so until it is forgotten.
DeliveredStays == \A r \in RowId : State(r) = "delivered" => State(r)' \in {"delivered", "none"}

\* Where the ledger's state has changed, it has moved along one of its lines.
LEMMA LedgerLines ==
    ASSUME [Ledger!Next]_(Ledger!ledgerVars), NEW r \in RowId
    PROVE  \/ State(r)' = State(r) /\ (heard[r] # {} => heard'[r] # {})
           \/ State(r)' = "delivered" /\ State(r) = "queued" /\ heard'[r] # {}
           \/ State(r)' \in {"queued", "failed"} /\ State(r) \in {"none", "queued", "failed"}
           \/ State(r)' = "none" /\ State(r) \in {"delivered", "failed"}
  <1> DEFINE reached == {q \in RowId : heard[q] # {}}
             moved(q, to) == [p \in RowId |-> State(p)'] = [[p \in RowId |-> State(p)] EXCEPT ![q] = to]
  <1>1. ASSUME [p \in RowId |-> State(p)'] = [p \in RowId |-> State(p)]
        PROVE  State(r)' = State(r)
    BY <1>1
  <1>2. ASSUME NEW q \in RowId, NEW to, moved(q, to)
        PROVE  State(r)' = IF r = q THEN to ELSE State(r)
    BY <1>2
  <1>3. ASSUME reached \subseteq reached', heard[r] # {}
        PROVE  heard'[r] # {}
    BY <1>3
  <1>4. CASE UNCHANGED Ledger!ledgerVars
    BY <1>1, <1>3, <1>4 DEF Ledger!ledgerVars
  <1>5. ASSUME NEW q \in RowId, Ledger!Queue(q) \/ Ledger!Fail(q) \/ Ledger!Requeue(q)
        PROVE  \/ State(r)' = State(r) /\ (heard[r] # {} => heard'[r] # {})
               \/ State(r)' \in {"queued", "failed"} /\ State(r) \in {"none", "queued", "failed"}
    BY <1>2, <1>3, <1>5 DEF Ledger!Queue, Ledger!Fail, Ledger!Requeue, Ledger!Move
  <1>6. ASSUME NEW q \in RowId, Ledger!Receive(q)
        PROVE  State(r)' = State(r) /\ (heard[r] # {} => heard'[r] # {})
    BY <1>1, <1>3, <1>6 DEF Ledger!Receive
  <1>7. ASSUME NEW q \in RowId, Ledger!Deliver(q)
        PROVE  \/ State(r)' = State(r) /\ (heard[r] # {} => heard'[r] # {})
               \/ State(r)' = "delivered" /\ State(r) = "queued" /\ heard'[r] # {}
    <2>1. moved(q, "delivered") /\ State(q) = "queued" /\ reached' = reached \cup {q}
      BY <1>7 DEF Ledger!Deliver, Ledger!Move
    <2>2. r = q => heard'[r] # {}
      BY <2>1
    <2>. QED  BY <1>2, <1>3, <2>1, <2>2
  <1>8. ASSUME NEW S \in SUBSET RowId, Ledger!Forget(S)
        PROVE  \/ State(r)' = State(r) /\ (heard[r] # {} => heard'[r] # {})
               \/ State(r)' = "none" /\ State(r) \in {"delivered", "failed"}
    <2>1. /\ State(r)' = IF r \in S THEN "none" ELSE State(r)
          /\ r \in S => State(r) \in {"delivered", "failed"}
          /\ reached' = reached \ S
      BY <1>8 DEF Ledger!Forget
    <2>. QED  BY <2>1
  <1>. QED  BY <1>4, <1>5, <1>6, <1>7, <1>8 DEF Ledger!Next

\* Delivered means received, by the row's own destination alone.
DeliveredToItsOwn ==
    \A r \in RowId : Exists(r) /\ row[r].st = "delivered" => heard[r] = {row[r].ref}

\* A notification that is marked delivered was received by the destination it
\* was queued for, and by no other, across crashes between the send and its
\* record, lost answers and changed credentials (DurableWorker.deliver).
THEOREM DeliveredCorrect == Spec => []DeliveredToItsOwn
  <1>1. Init => HeardIfDelivered
    BY DEF Init, HeardIfDelivered, State, Exists
  <1>2. HeardIfDelivered /\ [Ledger!Next]_(Ledger!ledgerVars) => HeardIfDelivered'
    BY LedgerLines DEF HeardIfDelivered
  <1>3. TypeOK /\ NotRerouted /\ HeardIfDelivered => DeliveredToItsOwn
    <2>. SUFFICES ASSUME TypeOK, NotRerouted, HeardIfDelivered, NEW r \in RowId, Exists(r), row[r].st = "delivered"
                  PROVE  heard[r] = {row[r].ref}
      BY DEF DeliveredToItsOwn
    <2>1. heard[r] # {} /\ heard[r] \subseteq Ref
      BY DEF HeardIfDelivered, State, TypeOK
    <2>2. \A ref \in heard[r] : ref = row[r].ref
      BY <2>1 DEF NotRerouted
    <2>. QED  BY <2>1, <2>2
  <1>. QED  BY <1>1, <1>2, <1>3, Implements, NeverRerouted, TypeCorrect, PTL DEF Spec, ImplementsLedger, Ledger!Spec

\* A delivered notification is never put back into the queue, neither by a run
\* whose answer comes late nor by a restart nor by an operator; it can only be
\* pruned.
THEOREM DeliveredIsFinal == Spec => [][DeliveredStays]_vars
  <1>1. [Ledger!Next]_(Ledger!ledgerVars) => DeliveredStays
    BY LedgerLines DEF DeliveredStays
  <1>2. [Ledger!Next]_(Ledger!ledgerVars) => [DeliveredStays]_vars
    BY <1>1
  <1>. QED  BY <1>2, Implements, PTL DEF ImplementsLedger, Ledger!Spec
=============================================================================
