-------------------------- MODULE NotificationOutbox --------------------------
(***************************************************************************)
(* The durable outbox of apps/api (outbox.ts and the SQLite methods of     *)
(* db/methods/notification-outbox.ts): rows are claimed in batches, sent   *)
(* one after another to webhooks, Telegram or Apple push, and completed,   *)
(* retried, dead-lettered, abandoned or handed back; with shutdown,        *)
(* crashes, credentials that change while a request is on its way, lost    *)
(* answers and requests that arrive late.                                  *)
(*                                                                         *)
(* JavaScript runs to the next await, so an action reaches from one await  *)
(* to the next.  A claim writes one fresh lock token per row; here the     *)
(* token is the run that claimed it.  The order of a batch is free.        *)
(***************************************************************************)
EXTENDS Naturals, FiniteSets

CONSTANTS
    HookRows, TelegramRows, PushRows,  \* unique keys of rows, per channel
    Standing,          \* rows asked for again at every tick while their subject is open
    Ref, NoRef,        \* references of credential tuples; none configured
    Blocked,           \* references of webhooks that are not on the allowlist
    Run, NoRun,        \* runs of the worker; no lock token
    NoRow, NoItem,
    Batch,             \* rows claimed at once (10)
    MaxAttempts,       \* attempts the delivery policy allows
    MaxChanges,        \* bound on changes by operators and phones
    MaxFaults          \* bound on crashes and shutdowns

RowId == HookRows \cup TelegramRows \cup PushRows

Chan(r) == IF r \in HookRows THEN "webhook" ELSE IF r \in TelegramRows THEN "telegram" ELSE "apns"

Channel == {Chan(r) : r \in RowId}

\* notification_outbox: due is available_at in the past, aged a lock of more
\* than five minutes, ref the destination_ref frozen when it was queued.
Row == [st : {"pending", "delivered", "dead", "abandoned"}, attempts : 0..MaxAttempts,
        due : BOOLEAN, lock : Run \cup {NoRun}, aged : BOOLEAN, ref : Ref \cup {NoRef}]

Item == [row : RowId, attempts : 0..MaxAttempts, ref : Ref \cup {NoRef}]

ASSUME NullAssumption == NoRef \notin Ref /\ NoRun \notin Run /\ NoRow \notin Row /\ NoItem \notin Item
ASSUME BoundAssumption == /\ Batch \in Nat \ {0} /\ MaxAttempts \in Nat \ {0}
                          /\ MaxChanges \in Nat /\ MaxFaults \in Nat
ASSUME SetAssumption == Blocked \subseteq Ref /\ Standing \subseteq RowId

VARIABLES
    row,               \* notification_outbox
    dest,              \* per channel: the credentials configured now
    hidden,            \* rows whose house is deleted
    up, stopping,      \* the process, DurableWorker.#stopping
    run,               \* per run: what it still holds and what it is sending
    wire,              \* requests sent that a destination may still accept
    heard,             \* per row: the credentials it was accepted under
    issued,            \* rows that were ever queued
    changes, faults    \* bounds

process  == <<up, stopping>>
bounds   == <<changes, faults>>
vars     == <<row, dest, hidden, process, run, wire, heard, issued, bounds>>

Idle == [phase |-> "idle", items |-> {}, item |-> NoItem, aborted |-> FALSE, outdated |-> FALSE]

Init ==
    /\ row = [r \in RowId |-> NoRow]
    /\ dest \in [Channel -> Ref \cup {NoRef}]
    /\ hidden = {} /\ up = TRUE /\ stopping = FALSE
    /\ run = [w \in Run |-> Idle]
    /\ wire = {} /\ heard = [r \in RowId |-> {}] /\ issued = {}
    /\ changes = 0 /\ faults = 0

Exists(r)  == row[r] # NoRow
Pending(r) == Exists(r) /\ row[r].st = "pending"
Settled    == {r \in RowId : Exists(r) /\ row[r].st # "pending"}

-----------------------------------------------------------------------------
(* Producers: INSERT OR IGNORE on the unique key *)

\* An alert and its first notifications are one transaction, so those are
\* asked for once; escalations and reminders at every tick.  A webhook or push
\* row is only written for a destination there is.
Enqueue(r, soon) ==
    /\ up /\ ~Exists(r) /\ r \notin hidden
    /\ r \in Standing \/ r \notin issued
    /\ Chan(r) # "telegram" => dest[Chan(r)] # NoRef
    /\ row' = [row EXCEPT ![r] = [st |-> "pending", attempts |-> 0, due |-> soon, lock |-> NoRun,
                                  aged |-> FALSE, ref |-> dest[Chan(r)]]]
    /\ issued' = issued \cup {r}
    /\ UNCHANGED <<dest, hidden, process, run, wire, heard, bounds>>

-----------------------------------------------------------------------------
(* Updates by the holder of the lock token *)

Holds(w, r) == Exists(r) /\ row[r].lock = w /\ row[r].st # "delivered"

\* Every such update clears the lock.
Unlocked(r, st, attempts, due) ==
    [st |-> st, attempts |-> attempts, due |-> due, lock |-> NoRun, aged |-> FALSE, ref |-> row[r].ref]

Update(w, r, st, attempts, due) ==
    IF Holds(w, r) THEN [row EXCEPT ![r] = Unlocked(r, st, attempts, due)] ELSE row

Completed(w, i) == Update(w, i.row, "delivered", row[i.row].attempts, row[i.row].due)

Failed(w, i) == Update(w, i.row, row[i.row].st, row[i.row].attempts + 1, FALSE)

DeadLettered(w, i) == Update(w, i.row, "dead", row[i.row].attempts + 1, row[i.row].due)

Abandoned(w, i) == Update(w, i.row, "abandoned", row[i.row].attempts, row[i.row].due)

Released(w, S) == [r \in RowId |-> IF Holds(w, r) /\ \E i \in S : i.row = r
                                   THEN Unlocked(r, row[r].st, row[r].attempts, TRUE) ELSE row[r]]

-----------------------------------------------------------------------------
(* A run: runOnce, deliver, send *)

\* Slip: a claim respects every lock, however old.
ClaimableUnlocked(r) == /\ Pending(r) /\ row[r].due /\ r \notin hidden
                        /\ row[r].lock = NoRun

Claimable(r) == /\ Pending(r) /\ row[r].due /\ r \notin hidden
                /\ row[r].lock = NoRun \/ row[r].aged

\* What a run holds after claiming the rows S.
Claimed(S) == [phase |-> "next", item |-> NoItem, aborted |-> FALSE, outdated |-> FALSE,
               items |-> {[row |-> r, attempts |-> row[r].attempts, ref |-> row[r].ref] : r \in S}]

\* Slip: the timer starts a run without looking for one that is active.
WakeAgain(w) ==
    /\ up /\ ~stopping /\ run[w].phase = "idle"
    /\ \E S \in SUBSET {r \in RowId : Claimable(r)} :
        /\ S # {} /\ Cardinality(S) <= Batch
        /\ row' = [r \in RowId |-> IF r \in S THEN [row[r] EXCEPT !.lock = w, !.aged = FALSE] ELSE row[r]]
        /\ run' = [run EXCEPT ![w] = Claimed(S)]
    /\ UNCHANGED <<dest, hidden, process, wire, heard, issued, bounds>>

\* The timer, or a producer, starts a run unless one is active; it claims a
\* batch.
Wake(w) ==
    /\ up /\ ~stopping /\ \A v \in Run : run[v].phase = "idle"
    /\ \E S \in SUBSET {r \in RowId : Claimable(r)} :
        /\ S # {} /\ Cardinality(S) <= Batch
        /\ Cardinality(S) = Batch \/ S = {r \in RowId : Claimable(r)}
        /\ row' = [r \in RowId |-> IF r \in S THEN [row[r] EXCEPT !.lock = w, !.aged = FALSE] ELSE row[r]]
        /\ run' = [run EXCEPT ![w] = Claimed(S)]
    /\ UNCHANGED <<dest, hidden, process, wire, heard, issued, bounds>>

\* Once a day a run first deletes settled rows past their retention.
Prune(S) ==
    /\ up /\ ~stopping /\ \A v \in Run : run[v].phase = "idle"
    /\ S # {} /\ S \subseteq Settled
    /\ row' = [r \in RowId |-> IF r \in S THEN NoRow ELSE row[r]]
    /\ heard' = [r \in RowId |-> IF r \in S THEN {} ELSE heard[r]]
    /\ wire' = {m \in wire : m[1] \notin S}
    /\ UNCHANGED <<dest, hidden, process, run, issued, bounds>>

\* The run w is done with item i and turns to the next one.
After(w, i) ==
    LET rest == run[w].items \ {i} IN
    [run EXCEPT ![w] = IF rest = {} THEN Idle
                       ELSE [phase |-> "next", items |-> rest, item |-> NoItem,
                             aborted |-> run[w].aborted, outdated |-> run[w].outdated]]

\* An aborted run, or one whose Telegram credentials were replaced, hands the
\* row back whatever became of its request.
Cut(w, i) == run[w].aborted \/ (Chan(i.row) = "telegram" /\ run[w].outdated)

\* Slip: the attempt limit is off by one.
ChargeOnceMore(w, i, terminal) ==
    row' = IF Cut(w, i) THEN Released(w, {i})
           ELSE IF terminal \/ i.attempts >= MaxAttempts THEN DeadLettered(w, i)
           ELSE Failed(w, i)

\* recordDeliveryFailure
Charge(w, i, terminal) ==
    row' = IF Cut(w, i) THEN Released(w, {i})
           ELSE IF terminal \/ i.attempts + 1 >= MaxAttempts THEN DeadLettered(w, i)
           ELSE Failed(w, i)

Sendable(i) == i.ref # NoRef /\ ~(Chan(i.row) = "webhook" /\ i.ref \in Blocked)

\* Slip: a queued row goes to whatever destination is configured now.
DeliverAnywhere(w, i) ==
    /\ run[w].phase = "next" /\ i \in run[w].items /\ ~run[w].aborted
    /\ dest[Chan(i.row)] # NoRef
    /\ run' = [run EXCEPT ![w] = [run[w] EXCEPT !.phase = "sending", !.item = i, !.outdated = FALSE]]
    /\ wire' = wire \cup {<<i.row, dest[Chan(i.row)]>>}
    /\ UNCHANGED <<row, dest, hidden, process, heard, issued, bounds>>

\* Take the next item: abandon it when its destination is not the one it was
\* queued for; count a failure when it cannot be sent; else send it, with the
\* credentials configured now.
Deliver(w, i) ==
    /\ run[w].phase = "next" /\ i \in run[w].items /\ ~run[w].aborted
    /\ IF i.ref # dest[Chan(i.row)]
       THEN row' = Abandoned(w, i) /\ run' = After(w, i) /\ UNCHANGED wire
       ELSE IF ~Sendable(i)
       THEN Charge(w, i, FALSE) /\ run' = After(w, i) /\ UNCHANGED wire
       ELSE /\ run' = [run EXCEPT ![w] = [run[w] EXCEPT !.phase = "sending", !.item = i, !.outdated = FALSE]]
            /\ wire' = wire \cup {<<i.row, dest[Chan(i.row)]>>}
            /\ UNCHANGED row
    /\ UNCHANGED <<dest, hidden, process, heard, issued, bounds>>

\* Between two items an aborted run hands back everything it still holds.
HandBack(w) ==
    /\ run[w].phase = "next" /\ run[w].aborted
    /\ row' = Released(w, run[w].items)
    /\ run' = [run EXCEPT ![w] = Idle]
    /\ UNCHANGED <<dest, hidden, process, wire, heard, issued, bounds>>

\* The destination says it took the notification.
AnswerOK(w) ==
    /\ run[w].phase = "sending"
    /\ LET i == run[w].item IN
       /\ heard' = [heard EXCEPT ![i.row] = @ \cup {i.ref}]
       /\ wire' = wire \ {<<i.row, i.ref>>}
       /\ row' = IF Cut(w, i) THEN Released(w, {i}) ELSE Completed(w, i)
       /\ run' = After(w, i)
    /\ UNCHANGED <<dest, hidden, process, issued, bounds>>

\* Slip: the status of the answer is not looked at.
AnswerErrorIgnored(w) ==
    /\ run[w].phase = "sending"
    /\ row' = IF Cut(w, run[w].item) THEN Released(w, {run[w].item}) ELSE Completed(w, run[w].item)
    /\ run' = After(w, run[w].item)
    /\ UNCHANGED <<dest, hidden, process, wire, heard, issued, bounds>>

\* It refuses, the request is aborted, or no answer comes within ten seconds:
\* the destination may still have taken it.
AnswerError(w) ==
    /\ run[w].phase = "sending"
    /\ Charge(w, run[w].item, FALSE)
    /\ run' = After(w, run[w].item)
    /\ UNCHANGED <<dest, hidden, process, wire, heard, issued, bounds>>

\* Apple rejects the push for good; some reasons also disable the registration.
AnswerTerminal(w, disable) ==
    /\ run[w].phase = "sending"
    /\ LET i == run[w].item IN
       /\ Chan(i.row) = "apns"
       /\ Charge(w, i, TRUE)
       /\ dest' = IF disable /\ ~Cut(w, i) THEN [dest EXCEPT !["apns"] = NoRef] ELSE dest
       /\ wire' = wire \ {<<i.row, i.ref>>}
       /\ run' = After(w, i)
    /\ UNCHANGED <<hidden, process, heard, issued, bounds>>

-----------------------------------------------------------------------------
(* Operators, phones and destinations *)

\* retryNotificationDelivery
Retry(r) ==
    /\ up /\ Exists(r) /\ r \notin hidden /\ row[r].st \in {"dead", "abandoned"} /\ changes < MaxChanges
    /\ changes' = changes + 1
    /\ row' = [row EXCEPT ![r] = Unlocked(r, "pending", 0, TRUE)]
    /\ UNCHANGED <<dest, hidden, process, run, wire, heard, issued, faults>>

\* Saving or removing the Telegram credentials aborts the active run first.
ConfigureTelegram(ref) ==
    /\ up /\ changes < MaxChanges
    /\ changes' = changes + 1
    /\ dest' = [dest EXCEPT !["telegram"] = ref]
    /\ run' = [w \in Run |-> IF run[w].phase = "idle" THEN run[w]
                             ELSE [run[w] EXCEPT !.aborted = TRUE, !.outdated = TRUE]]
    /\ UNCHANGED <<row, hidden, process, wire, heard, issued, faults>>

\* A phone registers with its current device token, or is removed.
Register(ref) ==
    /\ up /\ changes < MaxChanges /\ ref # dest["apns"]
    /\ changes' = changes + 1
    /\ dest' = [dest EXCEPT !["apns"] = ref]
    /\ UNCHANGED <<row, hidden, process, run, wire, heard, issued, faults>>

DeleteHouse(r) ==
    /\ up /\ changes < MaxChanges /\ r \notin hidden
    /\ changes' = changes + 1
    /\ hidden' = hidden \cup {r}
    /\ UNCHANGED <<row, dest, process, run, wire, heard, issued, faults>>

\* A destination accepts a request whose answer is never read.
Accept(r, ref) ==
    /\ <<r, ref>> \in wire
    /\ wire' = wire \ {<<r, ref>>}
    /\ heard' = [heard EXCEPT ![r] = @ \cup {ref}]
    /\ UNCHANGED <<row, dest, hidden, process, run, issued, bounds>>

-----------------------------------------------------------------------------
(* Time and the process *)

BecomesDue(r) ==
    /\ Pending(r) /\ ~row[r].due
    /\ row' = [row EXCEPT ![r] = [row[r] EXCEPT !.due = TRUE]]
    /\ UNCHANGED <<dest, hidden, process, run, wire, heard, issued, bounds>>

\* Five minutes pass, or the clock jumps.
LockAges(r) ==
    /\ Exists(r) /\ row[r].lock # NoRun /\ ~row[r].aged
    /\ row' = [row EXCEPT ![r] = [row[r] EXCEPT !.aged = TRUE]]
    /\ UNCHANGED <<dest, hidden, process, run, wire, heard, issued, bounds>>

Stop ==
    /\ up /\ ~stopping /\ faults < MaxFaults
    /\ stopping' = TRUE /\ faults' = faults + 1
    /\ run' = [w \in Run |-> IF run[w].phase = "idle" THEN run[w] ELSE [run[w] EXCEPT !.aborted = TRUE]]
    /\ UNCHANGED <<row, dest, hidden, up, wire, heard, issued, changes>>

Exit ==
    /\ up /\ stopping /\ \A w \in Run : run[w].phase = "idle"
    /\ up' = FALSE /\ stopping' = FALSE
    /\ UNCHANGED <<row, dest, hidden, run, wire, heard, issued, bounds>>

Crash ==
    /\ up /\ faults < MaxFaults
    /\ up' = FALSE /\ stopping' = FALSE /\ faults' = faults + 1
    /\ run' = [w \in Run |-> Idle]
    /\ UNCHANGED <<row, dest, hidden, wire, heard, issued, changes>>

\* The environment of the new process may name other webhooks.
Restart(ref) ==
    /\ ~up /\ up' = TRUE
    /\ dest' = [dest EXCEPT !["webhook"] = ref]
    /\ UNCHANGED <<row, hidden, stopping, run, wire, heard, issued, bounds>>

Next ==
    \/ \E r \in RowId : \/ \E soon \in BOOLEAN : Enqueue(r, soon)
                        \/ Retry(r) \/ DeleteHouse(r) \/ BecomesDue(r) \/ LockAges(r)
    \/ \E w \in Run : \/ Wake(w) \/ HandBack(w) \/ AnswerOK(w) \/ AnswerError(w)
                      \/ \E disable \in BOOLEAN : AnswerTerminal(w, disable)
                      \/ \E i \in run[w].items : Deliver(w, i)
    \/ \E S \in SUBSET RowId : Prune(S)
    \/ \E ref \in Ref \cup {NoRef} : \/ ConfigureTelegram(ref) \/ Register(ref) \/ Restart(ref)
                                     \/ \E r \in RowId : Accept(r, ref)
    \/ Stop \/ Exit \/ Crash

Spec == Init /\ [][Next]_vars

\* The timer fires, requests end (ten-second limit), time passes, and
\* something starts the process again.
Fairness ==
    /\ WF_vars(\E w \in Run : Wake(w))
    /\ \A w \in Run : /\ WF_vars(HandBack(w) \/ \E i \in run[w].items : Deliver(w, i))
                      /\ WF_vars(AnswerOK(w) \/ AnswerError(w))
    /\ \A r \in RowId : WF_vars(BecomesDue(r)) /\ WF_vars(LockAges(r))
    /\ WF_vars(Exit) /\ WF_vars(\E ref \in Ref \cup {NoRef} : Restart(ref))

FairSpec == Spec /\ Fairness

-----------------------------------------------------------------------------
(* Properties *)

\* Every variable holds values of its type.
TypeOK ==
    /\ row \in [RowId -> Row \cup {NoRow}]
    /\ dest \in [Channel -> Ref \cup {NoRef}]
    /\ hidden \subseteq RowId /\ up \in BOOLEAN /\ stopping \in BOOLEAN
    /\ run \in [Run -> [phase : {"idle", "next", "sending"}, items : SUBSET Item,
                        item : Item \cup {NoItem}, aborted : BOOLEAN, outdated : BOOLEAN]]
    /\ wire \subseteq RowId \X Ref
    /\ heard \in [RowId -> SUBSET Ref]
    /\ issued \subseteq RowId
    /\ changes \in 0..MaxChanges /\ faults \in 0..MaxFaults

\* At most one run is active, and only in a live process.
OneRun == /\ \A v, w \in Run : run[v].phase # "idle" /\ run[w].phase # "idle" => v = w
          /\ ~up => \A w \in Run : run[w] = Idle

\* A run works on items it has claimed and not yet settled.
RunShape == \A w \in Run : /\ run[w].phase = "idle" => run[w] = Idle
                           /\ run[w].phase # "idle" => run[w].items # {}
                           /\ run[w].phase = "sending" => /\ run[w].item \in run[w].items
                                                          /\ Sendable(run[w].item)
                           /\ \A i, j \in run[w].items : i.row = j.row => i = j

\* What a run was told when it claimed a row still stands when it acts: the
\* row is pending under its token, with the same attempts and destination,
\* however long the send took.
HoldersOwn == \A w \in Run : \A i \in run[w].items :
    Pending(i.row) /\ row[i.row].lock = w /\ row[i.row].attempts = i.attempts /\ row[i.row].ref = i.ref

\* A pending row has attempts left and is the only kind that is locked.
BudgetLeft == \A r \in RowId : Exists(r) => /\ row[r].st = "pending" => row[r].attempts < MaxAttempts
                                            /\ row[r].lock # NoRun => row[r].st = "pending"

\* A notification reaches no destination but the one it was queued for,
\* whatever is configured when it is sent, and a request that is under way or
\* was accepted belongs to a row that exists.
NotRerouted == \A r \in RowId : /\ \A ref \in Ref : <<r, ref>> \in wire => Exists(r) /\ row[r].ref = ref
                                /\ \A ref \in heard[r] : Exists(r) /\ row[r].ref = ref

\* The inductive invariant of the worker.
OutboxInvariant == OneRun /\ RunShape /\ HoldersOwn /\ BudgetLeft

\* The outbox implements the ledger: settled rows stay settled except for an
\* operator's retry, and delivered means received.
State(r) == IF ~Exists(r) THEN "none"
            ELSE IF row[r].st = "pending" THEN "queued"
            ELSE IF row[r].st = "delivered" THEN "delivered" ELSE "failed"

Ledger == INSTANCE NotificationLedger WITH
    Row <- RowId, state <- [r \in RowId |-> State(r)], reached <- {r \in RowId : heard[r] # {}}

ImplementsLedger == Ledger!Spec

\* Every pending row of a house that is still there is settled in the end,
\* across crashes that leave it locked, shutdowns and changed credentials.
EverySettles == \A r \in RowId :
    Pending(r) /\ r \notin hidden ~> ~Pending(r) \/ r \in hidden

\* A registration is disabled only by an answer about its own device token.
FreshRegistrationStands ==
    [][\A w \in Run : run[w].phase = "sending" /\ run'[w].phase # "sending" /\ dest'["apns"] # dest["apns"]
                      => run[w].item.ref = dest["apns"]]_vars
=============================================================================
