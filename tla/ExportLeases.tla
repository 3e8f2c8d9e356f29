---------------------------- MODULE ExportLeases ----------------------------
(***************************************************************************)
(* The app export of a device's history: the job queue of apps/api         *)
(* (tapo-history-export/core.ts and the SQLite methods of                  *)
(* db/methods/tapo-history-export-*.ts), the runner of                     *)
(* apps/tapo-export-runner that drives a phone under a lease, the phone,   *)
(* and the mailbox poll that completes a job; with canary approvals,       *)
(* operators, lost and late answers, crashes and deadlines.                *)
(*                                                                         *)
(* Times are what is left of them, in ticks: a lease, a watchdog, a        *)
(* back-off, a command on the phone.  One tick cannot pass over a limit.   *)
(* A lease token and the mail address made for it carry the number of the  *)
(* claim.  All jobs are for one device; bound holds those queued under its *)
(* present name, scope and settings.                                       *)
(***************************************************************************)
EXTENDS Integers, FiniteSets

CONSTANTS
    Job, Canary,       \* exports, and those among them that test a deployment
    Worker, NoWorker,  \* one per phone (the lease owner); none
    NoRow,
    Lease,             \* a lease and each renewal (at least five minutes)
    Grace,             \* an expired lease is respected this much longer (125 s)
    Margin,            \* the watchdog fires this much before the lease ends (125 s)
    Limit,             \* longest request, to the API or to the phone (at most 120 s)
    MaxAttempts, MaxPending,
    MaxTrouble         \* bound on crashes, lost answers and what operators do

ASSUME JobAssumption == IsFiniteSet(Job) /\ Canary \subseteq Job /\ NoWorker \notin Worker
ASSUME TimeAssumption == /\ Limit \in Nat \ {0} /\ Margin \in Nat /\ Grace \in Nat /\ Lease \in Nat
                         /\ Margin > Limit /\ Grace > Limit /\ Lease > Margin
ASSUME CountAssumption == /\ MaxAttempts \in Nat \ {0} /\ MaxPending \in Nat \ {0}
                          /\ MaxTrouble \in Nat

Status == {"queued", "claimed", "running", "waiting-email", "needs-attention", "completed", "failed", "cancelled"}

\* Longest back-off: a minute after a failure, or a fence of lease and grace.
MaxWait == Lease + Grace

\* tapo_history_export_jobs: left is -Grace for a lease that is NULL or long
\* over; rcpt, sub and mail are the claims whose address, submission and
\* message the row carries; late is the deadline of the mail in the past.
Row == [st : Status, attempts : 0..MaxAttempts, wait : 0..MaxWait, owner : Worker \cup {NoWorker},
        token : Nat, left : -Grace..Lease, rcpt : Nat, sub : Nat, mail : Nat, late : BOOLEAN,
        manual : BOOLEAN]

ASSUME NullAssumption == NoRow \notin Row

VARIABLES
    job,             \* the queue
    claims,          \* claims made of each job so far
    approval,        \* of the deployment: none, fresh, or due for renewal
    bound,           \* jobs queued under the device's present name
    worker,          \* what each runner process does
    screen,          \* per phone: commands it may still be executing
    wire,            \* reports of workers the API may still receive
    asked,           \* claims whose mail the phone asked for
    poll,            \* mailbox searches under way
    unfenced,        \* claims whose lease was dropped while they were driven
    trouble          \* so far

world  == <<approval, bound>>
vars   == <<job, claims, world, worker, screen, wire, asked, poll, unfenced, trouble>>

Idle == [phase |-> "idle", job |-> NoRow, token |-> 0, watch |-> 0, age |-> -1, want |-> "none"]

Init ==
    /\ job = [j \in Job |-> NoRow] /\ claims = [j \in Job |-> 0]
    /\ approval \in {"none", "fresh", "due"} /\ bound = {}
    /\ worker = [w \in Worker |-> Idle]
    /\ screen = [w \in Worker |-> {}]
    /\ wire = {} /\ asked = {} /\ poll = {} /\ unfenced = {}
    /\ trouble = 0

Exists(j)  == job[j] # NoRow
In(j, S)   == Exists(j) /\ job[j].st \in S
Leased(j)  == In(j, {"claimed", "running"})
Waiting(j) == In(j, {"waiting-email"})
\* A lease that stops other claims, whatever became of its job.
Held(j)    == Exists(j) /\ job[j].left > -Grace

Outstanding == {j \in Job : Waiting(j) \/ (Leased(j) /\ Held(j))}

\* The row without its lease, in status st.
Unleased(row, st) == [row EXCEPT !.st = st, !.owner = NoWorker, !.token = 0, !.left = -Grace]

Queued(manual) == [st |-> "queued", attempts |-> 0, wait |-> 0, owner |-> NoWorker, token |-> 0,
                   left |-> -Grace, rcpt |-> 0, sub |-> 0, mail |-> 0, late |-> FALSE, manual |-> manual]

\* expireExhaustedTapoHistoryExportLeases
Expired(rows) == [j \in Job |->
    IF /\ rows[j] # NoRow /\ rows[j].st \in {"claimed", "running"}
       /\ rows[j].left <= -Grace /\ rows[j].attempts >= MaxAttempts
    THEN Unleased(rows[j], "failed") ELSE rows[j]]

-----------------------------------------------------------------------------
(* Requests *)

\* Gap recovery asks for a stretch of history, once.
Enqueue(j) ==
    /\ j \notin Canary /\ ~Exists(j)
    /\ job' = [job EXCEPT ![j] = Queued(FALSE)]
    /\ bound' = bound \cup {j}
    /\ UNCHANGED <<claims, approval, worker, screen, wire, asked, poll, unfenced, trouble>>

\* An operator asks for a canary: approvals of the device are withdrawn and
\* its ordinary exports are parked, with the lease they have.
RequestCanary(c) ==
    /\ c \in Canary /\ ~Exists(c) /\ trouble < MaxTrouble
    /\ trouble' = trouble + 1 /\ approval' = "none"
    /\ job' = [j \in Job |->
                IF j = c THEN Queued(TRUE)
                ELSE IF j \in bound \ Canary /\ (Leased(j) \/ Waiting(j))
                THEN [job[j] EXCEPT !.st = "needs-attention"] ELSE job[j]]
    /\ bound' = bound \cup {c}
    /\ UNCHANGED <<claims, worker, screen, wire, asked, poll, unfenced>>

\* A canary the service queues itself, when none is left over for it.
Renewed(rows, c) == [rows EXCEPT ![c] = Queued(FALSE)]

\* The fence of a lease stays with a job that was cancelled, and is dropped
\* with that of any other.
Retried(row) ==
    [(IF row.st = "cancelled" THEN [row EXCEPT !.st = "queued"] ELSE Unleased(row, "queued"))
        EXCEPT !.attempts = 0, !.wait = row.left + Grace, !.sub = 0, !.mail = 0, !.late = FALSE]

\* retry
Retry(j) ==
    /\ In(j, {"failed", "needs-attention", "cancelled"}) /\ trouble < MaxTrouble
    /\ trouble' = trouble + 1
    /\ job' = [job EXCEPT ![j] = Retried(@)]
    /\ unfenced' = IF Held(j) /\ job[j].st # "cancelled" THEN unfenced \cup {<<j, job[j].token>>} ELSE unfenced
    /\ UNCHANGED <<claims, world, worker, screen, wire, asked, poll>>

\* Slip: cancelling a job ends its lease.
CancelOutright(j) ==
    /\ Exists(j) /\ ~In(j, {"completed", "cancelled"}) /\ trouble < MaxTrouble
    /\ trouble' = trouble + 1
    /\ job' = [job EXCEPT ![j] = Unleased(@, "cancelled")]
    /\ UNCHANGED <<claims, world, worker, screen, wire, asked, poll, unfenced>>

\* Cancelling leaves the lease behind.
Cancel(j) ==
    /\ Exists(j) /\ ~In(j, {"completed", "cancelled"}) /\ trouble < MaxTrouble
    /\ trouble' = trouble + 1
    /\ job' = [job EXCEPT ![j].st = "cancelled"]
    /\ UNCHANGED <<claims, world, worker, screen, wire, asked, poll, unfenced>>

\* The device gets a name that no job and no approval was made under.
Rename ==
    /\ trouble < MaxTrouble /\ bound # {}
    /\ trouble' = trouble + 1 /\ bound' = {} /\ approval' = "none"
    /\ UNCHANGED <<job, claims, worker, screen, wire, asked, poll, unfenced>>

ApprovalAges ==
    /\ approval # "none" /\ trouble < MaxTrouble
    /\ trouble' = trouble + 1
    /\ approval' = IF approval = "fresh" THEN "due" ELSE "none"
    /\ UNCHANGED <<job, claims, bound, worker, screen, wire, asked, poll, unfenced>>

-----------------------------------------------------------------------------
(* claim *)

\* Slip: exhausted jobs are tried again.
RunnableForever(rows, j) ==
    /\ rows[j] # NoRow
    /\ \/ rows[j].st \in {"queued", "failed"} /\ rows[j].wait = 0
       \/ rows[j].st \in {"claimed", "running"} /\ rows[j].left <= -Grace

Runnable(rows, j) ==
    /\ rows[j] # NoRow /\ rows[j].attempts < MaxAttempts
    /\ \/ rows[j].st \in {"queued", "failed"} /\ rows[j].wait = 0
       \/ rows[j].st \in {"claimed", "running"} /\ rows[j].left <= -Grace

\* Canaries come first; ordinary exports need an approval.  That of an
\* earlier name of the device may still stand.
Candidates(rows) ==
    LET runnable == {j \in Job : Runnable(rows, j)} IN
    IF runnable \cap Canary # {} THEN runnable \cap Canary
    ELSE {j \in runnable : j \in bound => approval # "none"}

\* Jobs whose lease ran out come before those that queue.
Selectable(rows) ==
    LET S == Candidates(rows)
        again == {j \in S : rows[j].st \in {"claimed", "running"}}
    IN  IF again # {} THEN again ELSE S

\* Slip: only leases count, not mail that is waited for.
AdmitsLeased(rows, w) ==
    /\ Cardinality({j \in Job : Leased(j) /\ Held(j)}) < MaxPending
    /\ \A j \in Job : rows[j] # NoRow /\ rows[j].owner = w => rows[j].left <= -Grace

\* At most MaxPending exports are outstanding, and the phone has no lease.
Admits(rows, w) ==
    /\ Cardinality(Outstanding) < MaxPending
    /\ \A j \in Job : rows[j] # NoRow /\ rows[j].owner = w => rows[j].left <= -Grace

\* Before it looks for a job, the service gives up exhausted ones and, when
\* the approval is due and ordinary work waits, queues a canary.
Prepared ==
    {Expired(job)} \cup
    {Renewed(Expired(job), c) : c \in
        {d \in Canary : /\ ~Exists(d) /\ approval = "due"
                        /\ \A e \in Canary : In(e, {"completed", "cancelled"}) \/ ~Exists(e)
                        /\ \E j \in bound \ Canary :
                               /\ Expired(job)[j].st \in {"queued", "failed"}
                               /\ Expired(job)[j].attempts < MaxAttempts}}

\* The row of j once w has claimed it, before its address is renewed.
LeasedTo(row, j, w) == [row EXCEPT !.st = "claimed", !.attempts = @ + 1, !.owner = w,
                                   !.token = claims[j] + 1, !.left = Lease]

\* rotateTapoHistoryExportRecipient
Rotated(row) == [row EXCEPT !.rcpt = row.token, !.sub = 0, !.mail = 0, !.late = FALSE]

\* What any outcome of a claim of j by w from rows has in common.
Taken(rows, w, j) ==
    /\ worker[w].phase = "idle" /\ Admits(rows, w) /\ j \in Selectable(rows)
    /\ claims' = [claims EXCEPT ![j] = @ + 1]
    /\ approval' = IF rows[j].manual THEN "none" ELSE approval
    /\ bound' = bound \cup {c \in Canary : ~Exists(c) /\ rows[c] # NoRow}
    /\ UNCHANGED <<screen, wire, asked, poll, unfenced>>

\* The worker's answer is on its way, with a new address for the mail.
Claim(w, j) == \E rows \in Prepared :
    /\ Taken(rows, w, j) /\ j \in bound'
    /\ job' = [rows EXCEPT ![j] = Rotated(LeasedTo(rows[j], j, w))]
    /\ worker' = [worker EXCEPT ![w] = [Idle EXCEPT !.phase = "claiming", !.job = j, !.token = claims'[j], !.age = 0]]
    /\ UNCHANGED trouble

\* The API dies between the two transactions.
ClaimCut(w, j) == \E rows \in Prepared :
    /\ trouble < MaxTrouble /\ Taken(rows, w, j)
    /\ trouble' = trouble + 1
    /\ job' = [rows EXCEPT ![j] = LeasedTo(rows[j], j, w)]
    /\ UNCHANGED <<worker>>

\* A job of an earlier name is parked, and the service looks for another.
Park(w, j) == \E rows \in Prepared :
    /\ Taken(rows, w, j) /\ j \notin bound'
    /\ job' = [rows EXCEPT ![j] = Unleased(LeasedTo(rows[j], j, w), "needs-attention")]
    /\ UNCHANGED <<worker, trouble>>

\* A worker is told that there is nothing for it; a canary may be queued all
\* the same, unless too many jobs wait for mail.
FindsNothing(w) == \E rows \in Prepared :
    /\ worker[w].phase = "idle" /\ ~(Admits(rows, w) /\ Selectable(rows) # {})
    /\ rows = Expired(job) \/ Cardinality({j \in Job : Waiting(j)}) < MaxPending
    /\ job' = rows
    /\ bound' = bound \cup {c \in Canary : ~Exists(c) /\ rows[c] # NoRow}
    /\ UNCHANGED <<claims, approval, worker, screen, wire, asked, poll, unfenced, trouble>>

\* listJobs gives up exhausted jobs, like every claim and poll.
Maintain ==
    /\ job' = Expired(job)
    /\ UNCHANGED <<claims, world, worker, screen, wire, asked, poll, unfenced, trouble>>

-----------------------------------------------------------------------------
(* The worker *)

Message(w, want) == [owner |-> w, job |-> worker[w].job, token |-> worker[w].token, want |-> want]

Own(w) == {c \in screen[w] : c.job = worker[w].job /\ c.token = worker[w].token}

\* The watchdog runs while the worker is at a job.
Armed(w) == worker[w].phase \in {"calling", "driving"}

Call(w, want, watch) ==
    /\ worker' = [worker EXCEPT ![w] =
                    [worker[w] EXCEPT !.phase = "calling", !.want = want, !.watch = watch, !.age = -1]]
    /\ wire' = wire \cup {Message(w, want)}

\* Slip: a watchdog without a margin before the end of the lease.
ClaimArrivesNoMargin(w) ==
    /\ worker[w].phase = "claiming"
    /\ Call(w, "running", Lease)
    /\ UNCHANGED <<job, claims, world, screen, asked, poll, unfenced, trouble>>

\* processJob arms the watchdog for the whole of the lease it was told of,
\* however long the answer took, and reports that it runs.
ClaimArrives(w) ==
    /\ worker[w].phase = "claiming"
    /\ Call(w, "running", Lease - Margin)
    /\ UNCHANGED <<job, claims, world, screen, asked, poll, unfenced, trouble>>

ClaimLost(w) ==
    /\ worker[w].phase = "claiming" /\ trouble < MaxTrouble
    /\ trouble' = trouble + 1
    /\ worker' = [worker EXCEPT ![w] = Idle]
    /\ UNCHANGED <<job, claims, world, screen, wire, asked, poll, unfenced>>

\* One command at a time, none after the watchdog fired.
Drive(w) ==
    /\ worker[w].phase = "driving" /\ Own(w) = {}
    /\ screen' = [screen EXCEPT ![w] = @ \cup {[job |-> worker[w].job, token |-> worker[w].token, left |-> Limit]}]
    /\ UNCHANGED <<job, claims, world, worker, wire, asked, poll, unfenced, trouble>>

\* It ends; it may have been the one that asks for the mail.
CommandEnds(w, c, submits) ==
    /\ c \in screen[w]
    /\ screen' = [screen EXCEPT ![w] = @ \ {c}]
    /\ asked' = IF submits THEN asked \cup {<<c.job, c.token>>} ELSE asked
    /\ UNCHANGED <<job, claims, world, worker, wire, poll, unfenced, trouble>>

\* The flow is over: the app confirmed the request, or it did not get there.
Report(w, st) ==
    /\ worker[w].phase = "driving" /\ Own(w) = {}
    /\ st \in {"waiting-email", "needs-attention", "failed"}
    /\ st = "waiting-email" => <<worker[w].job, worker[w].token>> \in asked
    /\ Call(w, st, worker[w].watch)
    /\ UNCHANGED <<job, claims, world, screen, asked, poll, unfenced, trouble>>

\* No answer in time: the worker reports a failure, or leaves it.
GiveUp(w) ==
    /\ worker[w].phase = "calling" /\ trouble < MaxTrouble
    /\ trouble' = trouble + 1
    /\ \/ worker[w].want # "failed" /\ Call(w, "failed", worker[w].watch)
       \/ /\ worker[w].want \in {"needs-attention", "failed"}
          /\ worker' = [worker EXCEPT ![w] = Idle] /\ UNCHANGED wire
    /\ UNCHANGED <<job, claims, world, screen, asked, poll, unfenced>>

\* The worker leaves the job to its lease: the watchdog fires, three
\* heartbeats fail, it is shut down or it crashes.  A command stays behind.
Abandon(w) ==
    /\ Armed(w)
    /\ IF worker[w].watch = 0 THEN UNCHANGED trouble ELSE trouble < MaxTrouble /\ trouble' = trouble + 1
    /\ worker' = [worker EXCEPT ![w] = Idle]
    /\ UNCHANGED <<job, claims, world, screen, wire, asked, poll, unfenced>>

-----------------------------------------------------------------------------
(* The API: heartbeats and reports *)

\* The row is under the lease the worker was given, and that is not over.
LeaseStands(w, j, token) ==
    Leased(j) /\ job[j].owner = w /\ job[j].token = token /\ job[j].left > 0

\* Heartbeats go on from the start of the flow until its report is answered.
Beating(w) == worker[w].phase = "driving" \/ (worker[w].phase = "calling" /\ worker[w].want # "running")

\* A heartbeat finds the lease: it is renewed, and the answer is on its way;
\* or the device has another name: the job is parked and its lease dropped.
Heartbeat(w) ==
    /\ Beating(w) /\ worker[w].age = -1 /\ LeaseStands(w, worker[w].job, worker[w].token)
    /\ LET j == worker[w].job IN
       IF j \in bound
       THEN /\ job' = [job EXCEPT ![j].left = Lease]
            /\ worker' = [worker EXCEPT ![w].age = 0]
            /\ UNCHANGED unfenced
       ELSE /\ job' = [job EXCEPT ![j] = Unleased(@, "needs-attention")]
            /\ worker' = [worker EXCEPT ![w] = Idle]
            /\ unfenced' = unfenced \cup {<<j, worker[w].token>>}
    /\ UNCHANGED <<claims, world, screen, wire, asked, poll, trouble>>

\* It does not, and the worker stops.
HeartbeatRefused(w) ==
    /\ Beating(w) /\ worker[w].age = -1 /\ ~LeaseStands(w, worker[w].job, worker[w].token)
    /\ worker' = [worker EXCEPT ![w] = Idle]
    /\ UNCHANGED <<job, claims, world, screen, wire, asked, poll, unfenced, trouble>>

\* The answer arms the watchdog anew, or is lost.
HeartbeatArrives(w, lost) ==
    /\ Beating(w) /\ worker[w].age >= 0
    /\ lost => trouble < MaxTrouble
    /\ trouble' = IF lost THEN trouble + 1 ELSE trouble
    /\ worker' = [worker EXCEPT ![w] =
                    [worker[w] EXCEPT !.age = -1, !.watch = IF lost THEN worker[w].watch ELSE Lease - Margin]]
    /\ UNCHANGED <<job, claims, world, screen, wire, asked, poll, unfenced>>

\* Slip: a report counts whatever attempt it is about.
AcceptsAnyToken(m) == Leased(m.job) /\ job[m.job].owner = m.owner /\ job[m.job].left > 0

\* The reports that change a job: the lease stands, and the row is not
\* already in that status.
Accepts(m) == LeaseStands(m.owner, m.job, m.token) /\ job[m.job].st # m.want

\* The row after a report.
Reported(m) ==
    LET row == job[m.job] IN
    IF m.job \notin bound THEN Unleased(row, "needs-attention")
    ELSE IF m.want = "running" THEN [row EXCEPT !.st = "running"]
    ELSE IF m.want = "waiting-email" THEN [Unleased(row, m.want) EXCEPT !.sub = m.token]
    ELSE IF m.want = "failed" THEN [Unleased(row, m.want) EXCEPT !.wait = 1]
    ELSE Unleased(row, m.want)

\* The API receives a report.  A worker that still waits for the answer stops
\* when it is refused, and drives when it had reported that it runs: the
\* answer does not tell it that the job was parked.
Receive(m, answered) ==
    /\ m \in wire
    /\ wire' = wire \ {m}
    /\ job' = IF Accepts(m) THEN [job EXCEPT ![m.job] = Reported(m)] ELSE job
    /\ LET w == m.owner
           waits == worker[w].phase = "calling" /\ Message(w, worker[w].want) = m
           goes == m.want = "running" /\ Accepts(m)
       IN  /\ ~answered => waits /\ trouble < MaxTrouble
           /\ worker' = IF ~answered \/ ~waits THEN worker
                     ELSE [worker EXCEPT ![w] =
                             IF goes THEN [worker[w] EXCEPT !.phase = "driving", !.want = "none"] ELSE Idle]
    /\ unfenced' = IF Accepts(m) /\ m.want = "running" /\ m.job \notin bound
                   THEN unfenced \cup {<<m.job, m.token>>} ELSE unfenced
    /\ UNCHANGED <<claims, world, screen, asked, poll, trouble>>

-----------------------------------------------------------------------------
(* pollMailbox *)

\* The poll lists the jobs that wait, then searches for one after another.
PollBegins ==
    /\ poll = {}
    /\ job' = Expired(job)
    /\ poll' = {[job |-> j, rcpt |-> job[j].rcpt, sub |-> job[j].sub] : j \in {k \in Job : Waiting(k)}}
    /\ UNCHANGED <<claims, world, worker, screen, wire, asked, unfenced, trouble>>

\* Slip: the submission is compared with the message.
SameMessage(i) == job[i.job].rcpt = i.rcpt /\ job[i.job].mail = i.sub

\* The job is still in the attempt the search was for.
SameAttempt(i) == job[i.job].rcpt = i.rcpt /\ job[i.job].sub = i.sub

\* What a finished search changes, beside the searches themselves.
SearchEnds(i) ==
    /\ i \in poll /\ poll' = poll \ {i}
    /\ UNCHANGED <<claims, worker, screen, wire, asked, unfenced>>

\* transition to needs-attention or failed from waiting-email; it throws, and
\* leaves the row, when the attempt or the status is another.
Moved(i, st) == IF SameAttempt(i) /\ Waiting(i.job)
                THEN [job EXCEPT ![i.job] =
                        [Unleased(job[i.job], st) EXCEPT !.wait = IF st = "failed" THEN 1 ELSE job[i.job].wait]]
                ELSE job

\* Slip: a message completes a job that waits, whatever it was sent for.
FitsAny(i) == Waiting(i.job) /\ (i.job \notin Canary => approval # "none")

\* completeTapoHistoryExportJobWithSamples: the job waits for this message,
\* and an ordinary one still has its approval.
Fits(i) == /\ Waiting(i.job) /\ SameAttempt(i)
           /\ i.job \notin Canary => approval # "none"

\* The row of a job its mail completes.
Completed(i) == [job EXCEPT ![i.job] = [Unleased(job[i.job], "completed") EXCEPT !.mail = i.rcpt]]

\* The mail is there and its table is good.
Delivered(i) ==
    /\ SearchEnds(i) /\ <<i.job, i.rcpt>> \in asked /\ UNCHANGED <<bound, trouble>>
    /\ IF i.job \in bound /\ Fits(i)
       THEN /\ job' = Completed(i)
            /\ approval' = IF i.job \in Canary THEN "fresh" ELSE approval
       ELSE job' = Moved(i, "needs-attention") /\ UNCHANGED approval

\* The API dies before it records the approval of a canary.
DeliveredCut(i) ==
    /\ SearchEnds(i) /\ <<i.job, i.rcpt>> \in asked /\ UNCHANGED world
    /\ i.job \in bound \cap Canary /\ Fits(i) /\ trouble < MaxTrouble
    /\ trouble' = trouble + 1
    /\ job' = Completed(i)

\* It is there and cannot be used.
Rejected(i) ==
    /\ SearchEnds(i) /\ <<i.job, i.rcpt>> \in asked
    /\ job' = Moved(i, "needs-attention")
    /\ UNCHANGED <<world, trouble>>

\* Its table is not the one that was approved: the approval is withdrawn and
\* a canary queued, when there is one left.
Drifted(i) ==
    /\ SearchEnds(i) /\ <<i.job, i.rcpt>> \in asked /\ i.job \in bound \ Canary
    /\ approval' = "none" /\ UNCHANGED trouble
    /\ IF \E c \in Canary : ~Exists(c)
       THEN \E c \in Canary : ~Exists(c) /\ job' = Renewed(Moved(i, "needs-attention"), c) /\ bound' = bound \cup {c}
       ELSE job' = Moved(i, "needs-attention") /\ UNCHANGED bound

\* Nothing came before the deadline of the mail.
Overdue(i) ==
    /\ SearchEnds(i) /\ Exists(i.job) /\ job[i.job].late
    /\ job' = Moved(i, "failed")
    /\ UNCHANGED <<world, trouble>>

\* Nothing came yet, the mailbox could not be read, or the process dies and
\* forgets the search.
NotYet(i) == SearchEnds(i) /\ UNCHANGED <<job, world, trouble>>

-----------------------------------------------------------------------------
(* Time *)

\* Hours pass while a job waits for its mail.
MailDeadline(j) ==
    /\ Waiting(j) /\ ~job[j].late
    /\ job' = [job EXCEPT ![j].late = TRUE]
    /\ UNCHANGED <<claims, world, worker, screen, wire, asked, poll, unfenced, trouble>>

Less(n, floor) == IF n > floor THEN n - 1 ELSE n

\* A tick, unless a command, an answer or a watchdog is at its limit.
Tick ==
    /\ \A w \in Worker : /\ \A c \in screen[w] : c.left > 0
                         /\ worker[w].age < Limit
                         /\ Armed(w) => worker[w].watch > 0
    /\ job' = [j \in Job |-> IF Exists(j) THEN [job[j] EXCEPT !.left = Less(@, -Grace), !.wait = Less(@, 0)]
                             ELSE job[j]]
    /\ screen' = [w \in Worker |-> {[c EXCEPT !.left = @ - 1] : c \in screen[w]}]
    /\ worker' = [w \in Worker |->
                    [worker[w] EXCEPT !.watch = IF Armed(w) THEN @ - 1 ELSE @,
                                      !.age = IF @ = -1 THEN @ ELSE @ + 1]]
    /\ UNCHANGED <<claims, world, wire, asked, poll, unfenced, trouble>>

Next ==
    \/ \E j \in Job : \/ Enqueue(j) \/ RequestCanary(j) \/ Retry(j) \/ Cancel(j) \/ MailDeadline(j)
                      \/ \E w \in Worker : Claim(w, j) \/ ClaimCut(w, j) \/ Park(w, j)
    \/ \E w \in Worker : \/ ClaimArrives(w) \/ ClaimLost(w) \/ FindsNothing(w) \/ Drive(w) \/ GiveUp(w) \/ Abandon(w)
                         \/ Heartbeat(w) \/ HeartbeatRefused(w)
                         \/ \E lost \in BOOLEAN : HeartbeatArrives(w, lost)
                         \/ \E c \in screen[w], submits \in BOOLEAN : CommandEnds(w, c, submits)
                         \/ \E st \in Status : Report(w, st)
    \/ \E m \in wire, answered \in BOOLEAN : Receive(m, answered)
    \/ \E i \in poll : Delivered(i) \/ DeliveredCut(i) \/ Rejected(i) \/ Drifted(i) \/ Overdue(i) \/ NotYet(i)
    \/ Rename \/ ApprovalAges \/ Maintain \/ PollBegins \/ Tick

Spec == Init /\ [][Next]_vars

\* What comes to the worker by itself: an answer, or its watchdog.
Wakes(w) == \/ ClaimArrives(w) \/ ClaimLost(w)
            \/ \E lost \in BOOLEAN : HeartbeatArrives(w, lost)
            \/ worker[w].watch = 0 /\ Abandon(w)

\* Time passes; requests and commands end, and the watchdog fires; a flow is
\* a finite list of actions with time limits; the API answers; the mailbox is
\* polled, and now and then a search ends with the mailbox in order.
Fairness ==
    /\ WF_vars(Tick) /\ WF_vars(\E w \in Worker : Wakes(w))
    /\ WF_vars(\E w \in Worker : \E k \in screen[w] : CommandEnds(w, k, FALSE) \/ CommandEnds(w, k, TRUE))
    /\ SF_vars(\E w \in Worker, st \in Status : Report(w, st))
    /\ WF_vars(\E m \in wire : Receive(m, TRUE))
    /\ WF_vars(\E j \in Job : MailDeadline(j))
    /\ WF_vars(PollBegins) /\ WF_vars(\E i \in poll : NotYet(i))
    /\ SF_vars(\E i \in poll : Delivered(i) \/ Rejected(i) \/ Drifted(i) \/ Overdue(i))

FairSpec == Spec /\ Fairness

-----------------------------------------------------------------------------
(* Properties *)

\* Every variable holds values of its type.
TypeOK ==
    /\ job \in [Job -> Row \cup {NoRow}] /\ claims \in [Job -> Nat]
    /\ approval \in {"none", "fresh", "due"} /\ bound \subseteq Job
    /\ worker \in [Worker -> [phase : {"idle", "claiming", "calling", "driving"}, job : Job \cup {NoRow},
                              token : Nat, watch : 0..Lease, age : -1..Limit, want : Status \cup {"none"}]]
    /\ screen \in [Worker -> SUBSET [job : Job, token : Nat, left : 0..Limit]]
    /\ wire \subseteq [owner : Worker, job : Job, token : Nat, want : Status]
    /\ asked \subseteq Job \X Nat /\ unfenced \subseteq Job \X Nat
    /\ poll \subseteq [job : Job, rcpt : Nat, sub : Nat]
    /\ trouble \in 0..MaxTrouble

\* A job waits for mail its present attempt asked for, however late the
\* reports of earlier attempts come, and is done only by that mail.
OwnMail == \A j \in Job :
    /\ Waiting(j) => job[j].rcpt = job[j].sub /\ <<j, job[j].rcpt>> \in asked
    /\ In(j, {"completed"}) => job[j].mail = job[j].rcpt /\ <<j, job[j].mail>> \in asked

\* No more exports are under way or wait for mail than the operator allows.
PendingBounded == Cardinality(Outstanding) <= MaxPending

\* An attempt sends nothing to a phone that may still be executing a command
\* of another attempt, across lost answers, expired and cancelled leases and
\* crashes, unless that attempt's lease was dropped while it was driven.
TargetDrained == \A w \in Worker : \A c, d \in screen[w] :
    \/ <<c.job, c.token>> = <<d.job, d.token>>
    \/ <<c.job, c.token>> \in unfenced \/ <<d.job, d.token>> \in unfenced

\* A worker that drives a phone has an unexpired lease in the queue, whatever
\* answers were late and whoever cancelled or superseded the job, unless the
\* lease was dropped while it drove: its watchdog ends the drive first.
DrivesUnderLease == \A w \in Worker :
    worker[w].phase = "driving" /\ <<worker[w].job, worker[w].token>> \notin unfenced =>
        LET row == job[worker[w].job] IN
        row # NoRow /\ row.owner = w /\ row.token = worker[w].token /\ row.left > 0

Stage(j) == IF ~Exists(j) THEN "none"
            ELSE IF In(j, {"queued", "claimed", "running", "failed"}) THEN "open"
            ELSE IF Waiting(j) THEN "waiting"
            ELSE IF In(j, {"completed"}) THEN "done" ELSE "stopped"

\* The queue implements the requests: it waits and completes only in the
\* round of the present address, and completed is final.
Requests == INSTANCE ExportRequests WITH
    Request <- Job, stage <- [j \in Job |-> Stage(j)], asked <- asked,
    round <- [j \in Job |-> IF Exists(j) THEN job[j].rcpt ELSE 0],
    source <- [j \in Job |-> IF Exists(j) THEN job[j].mail ELSE 0]

ImplementsRequests == Requests!Spec

\* Whatever is lost or dies, an export that is under way or waits for mail
\* does not stand in the way of the others for good.
Resolves == \A j \in Job : j \in Outstanding ~> j \notin Outstanding
=============================================================================
