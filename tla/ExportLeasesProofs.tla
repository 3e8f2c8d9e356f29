------------------------- MODULE ExportLeasesProofs -------------------------
(***************************************************************************)
(* Proofs about ExportLeases for any jobs, workers, times and bounds:      *)
(* types, the mail of an attempt, the phone that is driven for one attempt *)
(* at a time, the limit on outstanding exports, and the refinement of the  *)
(* requests.                                                               *)
(***************************************************************************)
EXTENDS ExportLeases, FiniteSetTheorems, TLAPS

-----------------------------------------------------------------------------
(* Constants and rows *)

LEMMA Times ==
    /\ Limit \in Nat /\ Margin \in Nat /\ Grace \in Nat /\ Lease \in Nat
    /\ Limit >= 1 /\ Margin > Limit /\ Grace > Limit /\ Lease > Margin
    /\ MaxAttempts \in Nat /\ MaxAttempts >= 1 /\ MaxWait \in Nat /\ MaxWait = Lease + Grace
  BY TimeAssumption, CountAssumption DEF TimeAssumption, CountAssumption, MaxWait

Rows == [Job -> Row \cup {NoRow}]

LEMMA RowIsRow == ASSUME NEW r \in Row PROVE r # NoRow
  BY NullAssumption DEF NullAssumption

LEMMA RowFields ==
    ASSUME NEW r \in Row
    PROVE  /\ r.st \in Status /\ r.attempts \in 0..MaxAttempts /\ r.wait \in 0..MaxWait
           /\ r.owner \in Worker \cup {NoWorker} /\ r.token \in Nat
           /\ r.left \in -Grace..Lease /\ r.rcpt \in Nat /\ r.sub \in Nat /\ r.mail \in Nat
           /\ r.late \in BOOLEAN /\ r.manual \in BOOLEAN
  BY DEF Row

\* The row without its lease.
LEMMA UnleasedRow ==
    ASSUME NEW r \in Row, NEW st \in Status
    PROVE  /\ Unleased(r, st) \in Row
           /\ Unleased(r, st).st = st /\ Unleased(r, st).owner = NoWorker
           /\ Unleased(r, st).token = 0 /\ Unleased(r, st).left = -Grace
           /\ Unleased(r, st).attempts = r.attempts /\ Unleased(r, st).wait = r.wait
           /\ Unleased(r, st).rcpt = r.rcpt /\ Unleased(r, st).sub = r.sub
           /\ Unleased(r, st).mail = r.mail /\ Unleased(r, st).manual = r.manual
  <1>1. -Grace \in -Grace..Lease
    BY Times
  <1>2. Unleased(r, st) \in Row
    BY <1>1 DEF Unleased, Row
  <1>3. Unleased(r, st).st = st /\ Unleased(r, st).owner = NoWorker
    BY DEF Unleased, Row
  <1>4. Unleased(r, st).token = 0 /\ Unleased(r, st).left = -Grace
    BY DEF Unleased, Row
  <1>5. Unleased(r, st).attempts = r.attempts /\ Unleased(r, st).wait = r.wait
    BY DEF Unleased, Row
  <1>6. Unleased(r, st).rcpt = r.rcpt /\ Unleased(r, st).sub = r.sub
    BY DEF Unleased, Row
  <1>7. Unleased(r, st).mail = r.mail
    BY DEF Unleased, Row
  <1>8. Unleased(r, st).manual = r.manual
    BY DEF Unleased, Row
  <1>. QED  BY <1>2, <1>3, <1>4, <1>5, <1>6, <1>7, <1>8

LEMMA QueuedRow ==
    ASSUME NEW b \in BOOLEAN
    PROVE  /\ Queued(b) \in Row /\ Queued(b).st = "queued" /\ Queued(b).owner = NoWorker
           /\ Queued(b).token = 0 /\ Queued(b).left = -Grace /\ Queued(b).wait = 0
           /\ Queued(b).attempts = 0 /\ Queued(b).rcpt = 0 /\ Queued(b).sub = 0 /\ Queued(b).mail = 0
  <1>1. -Grace \in -Grace..Lease /\ 0 \in 0..MaxAttempts /\ 0 \in 0..MaxWait
    BY Times
  <1>. QED  BY <1>1 DEF Queued, Row, Status

\* A row with another status.
LEMMA RestatedRow ==
    ASSUME NEW r \in Row, NEW st \in Status
    PROVE  LET n == [r EXCEPT !.st = st] IN
           /\ n \in Row /\ n.st = st
           /\ n.owner = r.owner /\ n.token = r.token /\ n.left = r.left /\ n.wait = r.wait
           /\ n.rcpt = r.rcpt /\ n.sub = r.sub /\ n.mail = r.mail
  <1>. DEFINE n == [r EXCEPT !.st = st]
  <1>1. n \in Row
    BY DEF Row
  <1>2. n.st = st /\ n.owner = r.owner /\ n.token = r.token
    BY DEF Row
  <1>3. n.left = r.left /\ n.wait = r.wait
    BY DEF Row
  <1>4. n.rcpt = r.rcpt /\ n.sub = r.sub /\ n.mail = r.mail
    BY DEF Row
  <1>. QED  BY <1>1, <1>2, <1>3, <1>4

\* A row that is queued again (requeueTapoHistoryExportJob): the lease of a
\* cancelled job stays, and the job waits until it is over.
LEMMA RetriedRow ==
    ASSUME NEW r \in Row
    PROVE  /\ Retried(r) \in Row /\ Retried(r).st = "queued" /\ Retried(r).wait = r.left + Grace
           /\ r.st = "cancelled" => /\ Retried(r).owner = r.owner /\ Retried(r).token = r.token
                                    /\ Retried(r).left = r.left
           /\ r.st # "cancelled" => /\ Retried(r).owner = NoWorker /\ Retried(r).token = 0
                                    /\ Retried(r).left = -Grace
           /\ Retried(r).rcpt = r.rcpt /\ Retried(r).sub = 0 /\ Retried(r).mail = 0
  <1>. DEFINE base == IF r.st = "cancelled" THEN [r EXCEPT !.st = "queued"] ELSE Unleased(r, "queued")
              wait == r.left + Grace
  <1>1. "queued" \in Status /\ wait \in 0..MaxWait /\ 0 \in 0..MaxAttempts
    BY Times, RowFields DEF Status
  <1>2. /\ base \in Row /\ base.st = "queued" /\ base.rcpt = r.rcpt
        /\ r.st = "cancelled" => base.owner = r.owner /\ base.token = r.token /\ base.left = r.left
        /\ r.st # "cancelled" => base.owner = NoWorker /\ base.token = 0 /\ base.left = -Grace
    BY <1>1, RestatedRow, UnleasedRow
  <1>. DEFINE mid == [base EXCEPT !.attempts = 0, !.wait = wait]
  <1>3. Retried(r) = [mid EXCEPT !.sub = 0, !.mail = 0, !.late = FALSE]
    BY DEF Retried
  <1>. HIDE DEF base, wait
  <1>4. /\ mid \in Row
    BY <1>1, <1>2 DEF Row
  <1>5. mid.st = base.st /\ mid.wait = wait
    BY <1>2 DEF Row
  <1>6. mid.owner = base.owner /\ mid.token = base.token
    BY <1>2 DEF Row
  <1>7. mid.left = base.left /\ mid.rcpt = base.rcpt
    BY <1>2 DEF Row
  <1>. HIDE DEF mid
  <1>8. Retried(r) \in Row
    <2>. DEFINE last == [mid EXCEPT !.sub = 0, !.mail = 0]
    <2>1. last \in Row
      BY <1>4 DEF Row
    <2>2. Retried(r) = [last EXCEPT !.late = FALSE]
      BY <1>3
    <2>. HIDE DEF last
    <2>. QED  BY <2>1, <2>2 DEF Row
  <1>9. Retried(r).st = mid.st /\ Retried(r).wait = mid.wait
    BY <1>3, <1>4 DEF Row
  <1>10. Retried(r).owner = mid.owner /\ Retried(r).token = mid.token
    BY <1>3, <1>4 DEF Row
  <1>11. Retried(r).left = mid.left /\ Retried(r).rcpt = mid.rcpt
    BY <1>3, <1>4 DEF Row
  <1>12. Retried(r).sub = 0 /\ Retried(r).mail = 0
    BY <1>3, <1>4 DEF Row
  <1>. QED
    BY <1>2, <1>5, <1>6, <1>7, <1>8, <1>9, <1>10, <1>11, <1>12 DEF wait

\* A row that w has claimed, and the same with a new address.
LEMMA LeasedToRow ==
    ASSUME NEW r \in Row, r.attempts < MaxAttempts, NEW j \in Job, NEW w \in Worker, claims[j] \in Nat
    PROVE  LET n == LeasedTo(r, j, w) IN
           /\ n \in Row /\ n.st = "claimed" /\ n.owner = w /\ n.token = claims[j] + 1
           /\ n.left = Lease /\ n.wait = r.wait /\ n.rcpt = r.rcpt /\ n.sub = r.sub /\ n.mail = r.mail
  <1>. DEFINE n == LeasedTo(r, j, w)
  <1>1. r.attempts + 1 \in 0..MaxAttempts /\ Lease \in -Grace..Lease /\ claims[j] + 1 \in Nat
    BY Times, RowFields
  <1>2. n \in Row
    BY <1>1 DEF LeasedTo, Row, Status
  <1>3. n.st = "claimed" /\ n.owner = w
    BY DEF LeasedTo, Row
  <1>4. n.token = claims[j] + 1 /\ n.left = Lease
    BY DEF LeasedTo, Row
  <1>5. n.wait = r.wait /\ n.rcpt = r.rcpt
    BY DEF LeasedTo, Row
  <1>6. n.sub = r.sub /\ n.mail = r.mail
    BY DEF LeasedTo, Row
  <1>. QED  BY <1>2, <1>3, <1>4, <1>5, <1>6

LEMMA RotatedRow ==
    ASSUME NEW r \in Row
    PROVE  /\ Rotated(r) \in Row /\ Rotated(r).st = r.st /\ Rotated(r).owner = r.owner
           /\ Rotated(r).token = r.token /\ Rotated(r).left = r.left /\ Rotated(r).wait = r.wait
           /\ Rotated(r).rcpt = r.token /\ Rotated(r).sub = 0 /\ Rotated(r).mail = 0
  <1>1. Rotated(r) \in Row
    BY DEF Rotated, Row
  <1>2. Rotated(r).st = r.st /\ Rotated(r).owner = r.owner
    BY DEF Rotated, Row
  <1>3. Rotated(r).token = r.token /\ Rotated(r).left = r.left
    BY DEF Rotated, Row
  <1>4. Rotated(r).rcpt = r.token /\ Rotated(r).wait = r.wait
    BY DEF Rotated, Row
  <1>5. Rotated(r).sub = 0 /\ Rotated(r).mail = 0
    BY DEF Rotated, Row
  <1>. QED  BY <1>1, <1>2, <1>3, <1>4, <1>5

\* A row with another time of its lease, or whose mail is late.
LEMMA TimedRow ==
    ASSUME NEW r \in Row, NEW n \in -Grace..Lease
    PROVE  /\ [r EXCEPT !.left = n] \in Row
           /\ [r EXCEPT !.left = n].left = n /\ [r EXCEPT !.left = n].wait = r.wait
           /\ [r EXCEPT !.left = n].st = r.st /\ [r EXCEPT !.left = n].owner = r.owner
           /\ [r EXCEPT !.left = n].token = r.token /\ [r EXCEPT !.left = n].rcpt = r.rcpt
           /\ [r EXCEPT !.left = n].sub = r.sub /\ [r EXCEPT !.left = n].mail = r.mail
  <1>1. [r EXCEPT !.left = n] \in Row
    BY DEF Row
  <1>2. [r EXCEPT !.left = n].left = n /\ [r EXCEPT !.left = n].wait = r.wait
    BY DEF Row
  <1>3. [r EXCEPT !.left = n].st = r.st /\ [r EXCEPT !.left = n].owner = r.owner
    BY DEF Row
  <1>4. [r EXCEPT !.left = n].token = r.token /\ [r EXCEPT !.left = n].rcpt = r.rcpt
    BY DEF Row
  <1>5. [r EXCEPT !.left = n].sub = r.sub /\ [r EXCEPT !.left = n].mail = r.mail
    BY DEF Row
  <1>. QED  BY <1>1, <1>2, <1>3, <1>4, <1>5

LEMMA LateRow ==
    ASSUME NEW r \in Row
    PROVE  LET n == [r EXCEPT !.late = TRUE] IN
           /\ n \in Row /\ n.st = r.st /\ n.owner = r.owner /\ n.token = r.token /\ n.left = r.left
           /\ n.wait = r.wait /\ n.rcpt = r.rcpt /\ n.sub = r.sub /\ n.mail = r.mail
  <1>. DEFINE n == [r EXCEPT !.late = TRUE]
  <1>1. n \in Row
    BY DEF Row
  <1>2. n.st = r.st /\ n.owner = r.owner /\ n.token = r.token
    BY DEF Row
  <1>3. n.left = r.left /\ n.wait = r.wait
    BY DEF Row
  <1>4. n.rcpt = r.rcpt /\ n.sub = r.sub /\ n.mail = r.mail
    BY DEF Row
  <1>. QED  BY <1>1, <1>2, <1>3, <1>4

\* A row after a tick.
Ticked(r) == [r EXCEPT !.left = Less(@, -Grace), !.wait = Less(@, 0)]

LEMMA TickedRow ==
    ASSUME NEW r \in Row
    PROVE  /\ Ticked(r) \in Row /\ Ticked(r).st = r.st /\ Ticked(r).owner = r.owner
           /\ Ticked(r).token = r.token /\ Ticked(r).rcpt = r.rcpt
           /\ Ticked(r).sub = r.sub /\ Ticked(r).mail = r.mail
           /\ Ticked(r).left = Less(r.left, -Grace) /\ Ticked(r).wait = Less(r.wait, 0)
  <1>1. Less(r.left, -Grace) \in -Grace..Lease /\ Less(r.wait, 0) \in 0..MaxWait
    BY Times, RowFields DEF Less
  <1>2. Ticked(r) \in Row
    BY <1>1 DEF Ticked, Row
  <1>3. Ticked(r).st = r.st /\ Ticked(r).owner = r.owner
    BY DEF Ticked, Row
  <1>4. Ticked(r).token = r.token /\ Ticked(r).rcpt = r.rcpt
    BY DEF Ticked, Row
  <1>5. Ticked(r).sub = r.sub /\ Ticked(r).mail = r.mail
    BY DEF Ticked, Row
  <1>6. Ticked(r).left = Less(r.left, -Grace)
    BY DEF Ticked, Row
  <1>7. Ticked(r).wait = Less(r.wait, 0)
    BY DEF Ticked, Row
  <1>. QED  BY <1>2, <1>3, <1>4, <1>5, <1>6, <1>7

-----------------------------------------------------------------------------
(* What the queue looks like when a claim selects from it *)

\* The lease of the last allowed attempt of j is over, and r is its row.
Ends(j, r) == Leased(j) /\ ~Held(j) /\ r = Unleased(job[j], "failed")

LEMMA ExpiredRows ==
    ASSUME job \in Rows
    PROVE  /\ Expired(job) \in Rows
           /\ \A j \in Job : Expired(job)[j] = job[j] \/ Ends(j, Expired(job)[j])
  <1>1. ASSUME NEW j \in Job
        PROVE  /\ Expired(job)[j] \in Row \cup {NoRow}
               /\ Expired(job)[j] = job[j] \/ Ends(j, Expired(job)[j])
    <2>1. job[j] \in Row \cup {NoRow}
      BY DEF Rows
    <2>2. CASE Expired(job)[j] = job[j]
      BY <2>1, <2>2
    <2>3. CASE Expired(job)[j] # job[j]
      <3>1. /\ job[j] # NoRow /\ job[j].st \in {"claimed", "running"} /\ job[j].left <= -Grace
            /\ Expired(job)[j] = Unleased(job[j], "failed")
        BY <2>3 DEF Expired
      <3>2. "failed" \in Status
        BY DEF Status
      <3>3. job[j].left \in Int /\ -Grace \in Int
        BY <3>1, <2>1, RowFields, Times
      <3>. QED  BY <2>1, <3>1, <3>2, <3>3, UnleasedRow DEF Ends, Leased, Held, In, Exists
    <2>. QED  BY <2>2, <2>3
  <1>2. Expired(job) = [j \in Job |-> Expired(job)[j]]
    BY DEF Expired
  <1>. QED  BY <1>1, <1>2 DEF Rows

LEMMA PreparedRows ==
    ASSUME job \in Rows, NEW rows \in Prepared
    PROVE  /\ rows \in Rows
           /\ \A j \in Job : \/ rows[j] = job[j] \/ Ends(j, rows[j])
                             \/ j \in Canary /\ job[j] = NoRow /\ rows[j] = Queued(FALSE)
  <1>1. CASE rows = Expired(job)
    BY <1>1, ExpiredRows
  <1>2. CASE rows # Expired(job)
    <2>1. PICK c \in Canary : ~Exists(c) /\ rows = Renewed(Expired(job), c)
      BY <1>2 DEF Prepared
    <2>2. rows = [Expired(job) EXCEPT ![c] = Queued(FALSE)]
      BY <2>1 DEF Renewed
    <2>. QED  BY <2>1, <2>2, ExpiredRows, QueuedRow, JobAssumption DEF JobAssumption, Rows, Exists
  <1>. QED  BY <1>1, <1>2

LEMMA ExpiredPrepared == Expired(job) \in Prepared
  BY DEF Prepared

\* A row that a claim may select.
LEMMA RunnableRow ==
    ASSUME job \in Rows, NEW rows \in Prepared, NEW j \in Job, j \in Selectable(rows)
    PROVE  /\ rows[j] \in Row /\ rows[j].attempts < MaxAttempts
           /\ \/ rows[j].st \in {"queued", "failed"} /\ rows[j].wait = 0
              \/ rows[j].st \in {"claimed", "running"} /\ rows[j].left <= -Grace
  <1>1. Runnable(rows, j)
    BY DEF Selectable, Candidates
  <1>2. rows[j] \in Row \cup {NoRow}
    BY PreparedRows DEF Rows
  <1>. QED  BY <1>1, <1>2 DEF Runnable

-----------------------------------------------------------------------------
(* Types *)

WorkerState == [phase : {"idle", "claiming", "calling", "driving"}, job : Job \cup {NoRow},
                token : Nat, watch : 0..Lease, age : -1..Limit, want : Status \cup {"none"}]
Letter == [owner : Worker, job : Job, token : Nat, want : Status]
Command == [job : Job, token : Nat, left : 0..Limit]
Search  == [job : Job, rcpt : Nat, sub : Nat]

\* A worker that is not idle is at a job.
Busy == \A w \in Worker : worker[w].phase # "idle" => worker[w].job \in Job

Typed == TypeOK /\ Busy

LEMMA TypedState ==
    ASSUME Typed
    PROVE  /\ job \in Rows /\ claims \in [Job -> Nat] /\ bound \subseteq Job
           /\ worker \in [Worker -> WorkerState] /\ screen \in [Worker -> SUBSET Command]
           /\ wire \subseteq Letter /\ poll \subseteq Search
           /\ asked \subseteq Job \X Nat /\ unfenced \subseteq Job \X Nat
           /\ approval \in {"none", "fresh", "due"} /\ trouble \in 0..MaxTrouble
  BY DEF Typed, TypeOK, Rows, WorkerState, Letter, Search, Command

LEMMA TypedNext ==
    ASSUME Typed'
    PROVE  /\ job' \in Rows /\ claims' \in [Job -> Nat]
           /\ worker' \in [Worker -> WorkerState] /\ screen' \in [Worker -> SUBSET Command]
           /\ wire' \subseteq Letter
  BY DEF Typed, TypeOK, Rows, WorkerState, Letter, Command

LEMMA TypedAgain ==
    ASSUME job' \in Rows, claims' \in [Job -> Nat], bound' \subseteq Job,
           worker' \in [Worker -> WorkerState], screen' \in [Worker -> SUBSET Command],
           wire' \subseteq Letter, poll' \subseteq Search,
           asked' \subseteq Job \X Nat, unfenced' \subseteq Job \X Nat,
           approval' \in {"none", "fresh", "due"}, trouble' \in 0..MaxTrouble, Busy'
    PROVE  Typed'
  BY DEF Typed, TypeOK, Rows, WorkerState, Letter, Search, Command

\* The state of a worker, for the provers.
LEMMA StateFields ==
    ASSUME NEW s \in WorkerState
    PROVE  /\ s.phase \in {"idle", "claiming", "calling", "driving"} /\ s.job \in Job \cup {NoRow}
           /\ s.token \in Nat /\ s.watch \in 0..Lease /\ s.age \in -1..Limit
           /\ s.want \in Status \cup {"none"}
  BY DEF WorkerState

LEMMA IdleState ==
    /\ Idle \in WorkerState /\ Idle.phase = "idle" /\ Idle.job = NoRow /\ Idle.token = 0
    /\ Idle.age = -1 /\ Idle.watch = 0 /\ Idle.want = "none"
  <1>1. 0 \in 0..Lease /\ -1 \in -1..Limit
    BY Times
  <1>. QED  BY <1>1 DEF Idle, WorkerState

\* A worker whose claim is answered.
Claimant(j, t) == [Idle EXCEPT !.phase = "claiming", !.job = j, !.token = t, !.age = 0]

LEMMA ClaimantState ==
    ASSUME NEW j \in Job, NEW t \in Nat
    PROVE  /\ Claimant(j, t) \in WorkerState /\ Claimant(j, t).phase = "claiming"
           /\ Claimant(j, t).job = j /\ Claimant(j, t).token = t /\ Claimant(j, t).age = 0
  <1>1. 0 \in 0..Lease /\ 0 \in -1..Limit
    BY Times
  <1>2. Claimant(j, t) \in WorkerState
    BY <1>1, IdleState DEF Claimant, WorkerState
  <1>3. Claimant(j, t).phase = "claiming" /\ Claimant(j, t).job = j
    BY IdleState DEF Claimant, WorkerState
  <1>4. Claimant(j, t).token = t /\ Claimant(j, t).age = 0
    BY IdleState DEF Claimant, WorkerState
  <1>. QED  BY <1>2, <1>3, <1>4

\* A worker that reports.
Caller(s, want, watch) == [s EXCEPT !.phase = "calling", !.want = want, !.watch = watch, !.age = -1]

LEMMA CallerState ==
    ASSUME NEW s \in WorkerState, NEW want \in Status, NEW watch \in 0..Lease
    PROVE  LET n == Caller(s, want, watch) IN
           /\ n \in WorkerState /\ n.phase = "calling" /\ n.job = s.job /\ n.token = s.token
           /\ n.want = want /\ n.watch = watch /\ n.age = -1
  <1>1. -1 \in -1..Limit
    BY Times
  <1>2. Caller(s, want, watch) \in WorkerState
    BY <1>1 DEF Caller, WorkerState
  <1>3. Caller(s, want, watch).phase = "calling" /\ Caller(s, want, watch).job = s.job
    BY DEF Caller, WorkerState
  <1>4. Caller(s, want, watch).token = s.token /\ Caller(s, want, watch).want = want
    BY DEF Caller, WorkerState
  <1>5. Caller(s, want, watch).watch = watch /\ Caller(s, want, watch).age = -1
    BY DEF Caller, WorkerState
  <1>. QED  BY <1>2, <1>3, <1>4, <1>5

\* A worker that may drive.
Driver(s) == [s EXCEPT !.phase = "driving", !.want = "none"]

LEMMA DriverState ==
    ASSUME NEW s \in WorkerState
    PROVE  /\ Driver(s) \in WorkerState /\ Driver(s).phase = "driving" /\ Driver(s).job = s.job
           /\ Driver(s).token = s.token /\ Driver(s).watch = s.watch /\ Driver(s).age = s.age
  <1>1. Driver(s) \in WorkerState
    BY DEF Driver, WorkerState
  <1>2. Driver(s).phase = "driving" /\ Driver(s).job = s.job /\ Driver(s).token = s.token
    BY DEF Driver, WorkerState
  <1>3. Driver(s).watch = s.watch /\ Driver(s).age = s.age
    BY DEF Driver, WorkerState
  <1>. QED  BY <1>1, <1>2, <1>3

\* A worker whose heartbeat was answered, or not.
Beaten(s, lost) == [s EXCEPT !.age = -1, !.watch = IF lost THEN s.watch ELSE Lease - Margin]

LEMMA BeatenState ==
    ASSUME NEW s \in WorkerState, NEW lost \in BOOLEAN
    PROVE  LET n == Beaten(s, lost) IN
           /\ n \in WorkerState /\ n.phase = s.phase /\ n.job = s.job /\ n.token = s.token
           /\ n.want = s.want /\ n.age = -1
           /\ n.watch = IF lost THEN s.watch ELSE Lease - Margin
  <1>. DEFINE watch == IF lost THEN s.watch ELSE Lease - Margin
  <1>1. -1 \in -1..Limit /\ watch \in 0..Lease
    BY Times, StateFields
  <1>2. Beaten(s, lost) = [s EXCEPT !.age = -1, !.watch = watch]
    BY DEF Beaten, WorkerState
  <1>. HIDE DEF watch
  <1>3. Beaten(s, lost) \in WorkerState
    BY <1>1, <1>2 DEF WorkerState
  <1>4. Beaten(s, lost).phase = s.phase /\ Beaten(s, lost).job = s.job
    BY <1>2 DEF WorkerState
  <1>5. Beaten(s, lost).token = s.token /\ Beaten(s, lost).want = s.want
    BY <1>2 DEF WorkerState
  <1>6. Beaten(s, lost).age = -1 /\ Beaten(s, lost).watch = watch
    BY <1>2 DEF WorkerState
  <1>. QED  BY <1>3, <1>4, <1>5, <1>6 DEF watch

\* A worker whose heartbeat was received.
LEMMA HeardState ==
    ASSUME NEW s \in WorkerState
    PROVE  LET n == [s EXCEPT !.age = 0] IN
           /\ n \in WorkerState /\ n.phase = s.phase /\ n.job = s.job /\ n.token = s.token
           /\ n.want = s.want /\ n.watch = s.watch /\ n.age = 0
  <1>. DEFINE n == [s EXCEPT !.age = 0]
  <1>1. 0 \in -1..Limit
    BY Times
  <1>2. n \in WorkerState
    BY <1>1 DEF WorkerState
  <1>3. n.phase = s.phase /\ n.job = s.job /\ n.token = s.token
    BY DEF WorkerState
  <1>4. n.want = s.want /\ n.watch = s.watch /\ n.age = 0
    BY DEF WorkerState
  <1>. QED  BY <1>2, <1>3, <1>4

\* A worker after a tick.
Older(s, armed) == [s EXCEPT !.watch = IF armed THEN @ - 1 ELSE @, !.age = IF @ = -1 THEN @ ELSE @ + 1]

LEMMA OlderState ==
    ASSUME NEW s \in WorkerState, NEW armed \in BOOLEAN, s.age < Limit, armed => s.watch > 0
    PROVE  LET n == Older(s, armed) IN
           /\ n \in WorkerState /\ n.phase = s.phase /\ n.job = s.job /\ n.token = s.token
           /\ n.want = s.want
           /\ n.watch = IF armed THEN s.watch - 1 ELSE s.watch
           /\ n.age = IF s.age = -1 THEN s.age ELSE s.age + 1
  <1>. DEFINE watch == IF armed THEN s.watch - 1 ELSE s.watch
              age == IF s.age = -1 THEN s.age ELSE s.age + 1
  <1>1. age \in -1..Limit /\ watch \in 0..Lease
    BY Times, StateFields
  <1>2. Older(s, armed) = [s EXCEPT !.watch = watch, !.age = age]
    BY DEF Older, WorkerState
  <1>. HIDE DEF watch, age
  <1>3. Older(s, armed) \in WorkerState
    BY <1>1, <1>2 DEF WorkerState
  <1>4. Older(s, armed).phase = s.phase /\ Older(s, armed).job = s.job
    BY <1>2 DEF WorkerState
  <1>5. Older(s, armed).token = s.token /\ Older(s, armed).want = s.want
    BY <1>2 DEF WorkerState
  <1>6. Older(s, armed).age = age /\ Older(s, armed).watch = watch
    BY <1>2 DEF WorkerState
  <1>. QED  BY <1>3, <1>4, <1>5, <1>6 DEF watch, age

-----------------------------------------------------------------------------
(* What reports and searches make of a row *)

\* n is row o without its lease; its submission may be new.
Dropped(o, n) ==
    /\ n \in Row /\ n.owner = NoWorker /\ n.token = 0 /\ n.left = -Grace
    /\ n.rcpt = o.rcpt /\ n.mail = o.mail

\* n is row o under the same lease.
Kept(o, n) ==
    /\ n \in Row /\ n.owner = o.owner /\ n.token = o.token /\ n.left = o.left /\ n.wait = o.wait
    /\ n.rcpt = o.rcpt /\ n.sub = o.sub /\ n.mail = o.mail

LEMMA UnleasedDropped ==
    ASSUME NEW r \in Row, NEW st \in Status
    PROVE  /\ Dropped(r, Unleased(r, st)) /\ Unleased(r, st).st = st /\ Unleased(r, st).sub = r.sub
           /\ Unleased(r, st).wait = r.wait
  BY UnleasedRow DEF Dropped

LEMMA RestatedKept ==
    ASSUME NEW r \in Row, NEW st \in Status
    PROVE  Kept(r, [r EXCEPT !.st = st]) /\ [r EXCEPT !.st = st].st = st
  BY RestatedRow DEF Kept

LEMMA LateKept ==
    ASSUME NEW r \in Row
    PROVE  Kept(r, [r EXCEPT !.late = TRUE]) /\ [r EXCEPT !.late = TRUE].st = r.st
  BY LateRow DEF Kept

\* A row without its lease, after a failure or with the mail it waited for.
LEMMA FailedDropped ==
    ASSUME NEW r \in Row, NEW st \in Status, NEW wait \in 0..MaxWait
    PROVE  LET n == [Unleased(r, st) EXCEPT !.wait = wait] IN
           Dropped(r, n) /\ n.st = st /\ n.sub = r.sub /\ n.wait = wait
  <1>. DEFINE u == Unleased(r, st)
              n == [u EXCEPT !.wait = wait]
  <1>1. u \in Row /\ Dropped(r, u) /\ u.st = st /\ u.sub = r.sub
    BY UnleasedRow, UnleasedDropped
  <1>. HIDE DEF u
  <1>2. n \in Row
    BY <1>1 DEF Row
  <1>3. n.owner = u.owner /\ n.token = u.token /\ n.left = u.left
    BY <1>1 DEF Row
  <1>4. n.rcpt = u.rcpt /\ n.mail = u.mail /\ n.sub = u.sub
    BY <1>1 DEF Row
  <1>5. n.st = u.st /\ n.wait = wait
    BY <1>1 DEF Row
  <1>6. Dropped(r, n) /\ n.st = st /\ n.sub = r.sub /\ n.wait = wait
    BY <1>1, <1>2, <1>3, <1>4, <1>5 DEF Dropped
  <1>. QED  BY <1>6 DEF u

LEMMA SubmittedDropped ==
    ASSUME NEW r \in Row, NEW st \in Status, NEW sub \in Nat
    PROVE  LET n == [Unleased(r, st) EXCEPT !.sub = sub] IN
           Dropped(r, n) /\ n.st = st /\ n.sub = sub /\ n.wait = r.wait
  <1>. DEFINE u == Unleased(r, st)
              n == [u EXCEPT !.sub = sub]
  <1>1. u \in Row /\ Dropped(r, u) /\ u.st = st /\ u.wait = r.wait
    BY UnleasedRow, UnleasedDropped
  <1>. HIDE DEF u
  <1>2. n \in Row
    BY <1>1 DEF Row
  <1>3. n.owner = u.owner /\ n.token = u.token /\ n.left = u.left
    BY <1>1 DEF Row
  <1>4. n.rcpt = u.rcpt /\ n.mail = u.mail /\ n.sub = sub
    BY <1>1 DEF Row
  <1>5. n.st = u.st /\ n.wait = u.wait
    BY <1>1 DEF Row
  <1>6. Dropped(r, n) /\ n.st = st /\ n.sub = sub /\ n.wait = r.wait
    BY <1>1, <1>2, <1>3, <1>4, <1>5 DEF Dropped
  <1>. QED  BY <1>6 DEF u

LEMMA CompletedRow ==
    ASSUME NEW r \in Row, NEW mail \in Nat
    PROVE  LET n == [Unleased(r, "completed") EXCEPT !.mail = mail] IN
           /\ n \in Row /\ n.st = "completed" /\ n.mail = mail /\ n.rcpt = r.rcpt /\ n.sub = r.sub
           /\ n.owner = NoWorker /\ n.token = 0 /\ n.left = -Grace
  <1>. DEFINE u == Unleased(r, "completed")
              n == [u EXCEPT !.mail = mail]
  <1>0. "completed" \in Status
    BY DEF Status
  <1>1. u \in Row /\ Dropped(r, u) /\ u.st = "completed" /\ u.sub = r.sub
    BY <1>0, UnleasedRow, UnleasedDropped
  <1>. HIDE DEF u
  <1>2. n \in Row
    BY <1>1 DEF Row
  <1>3. n.owner = u.owner /\ n.token = u.token /\ n.left = u.left
    BY <1>1 DEF Row
  <1>4. n.rcpt = u.rcpt /\ n.mail = mail /\ n.sub = u.sub
    BY <1>1 DEF Row
  <1>5. n.st = u.st
    BY <1>1 DEF Row
  <1>6. /\ n \in Row /\ n.st = "completed" /\ n.mail = mail /\ n.rcpt = r.rcpt /\ n.sub = r.sub
        /\ n.owner = NoWorker /\ n.token = 0 /\ n.left = -Grace
    BY <1>1, <1>2, <1>3, <1>4, <1>5 DEF Dropped
  <1>. QED  BY <1>6 DEF u

\* A report under a lease that stands keeps that lease when it says that the
\* flow runs, and drops it otherwise.
LEMMA ReportedRow ==
    ASSUME job \in Rows, NEW m \in Letter, Leased(m.job)
    PROVE  LET o == job[m.job]
               n == Reported(m)
           IN  /\ n \in Row
               /\ m.job \in bound /\ m.want = "running" => Kept(o, n) /\ n.st = "running"
               /\ m.job \notin bound \/ m.want # "running" => Dropped(o, n)
               /\ m.job \notin bound => n.st = "needs-attention" /\ n.sub = o.sub
               /\ m.job \in bound /\ m.want # "running" => n.st = m.want
               /\ m.job \in bound /\ m.want = "waiting-email" => n.sub = m.token
               /\ m.job \in bound /\ m.want # "waiting-email" => n.sub = o.sub
  <1>. DEFINE o == job[m.job]
              n == Reported(m)
  <1>1. m.job \in Job /\ m.want \in Status /\ m.token \in Nat /\ o \in Row /\ 1 \in 0..MaxWait
    BY Times DEF Letter, Rows, Leased, In, Exists
  <1>2. "needs-attention" \in Status /\ "running" \in Status
    BY DEF Status
  <1>3. CASE m.job \notin bound
    <2>1. n = Unleased(o, "needs-attention")
      BY <1>3 DEF Reported
    <2>. QED  BY <2>1, <1>1, <1>2, <1>3, UnleasedDropped, UnleasedRow
  <1>4. CASE m.job \in bound /\ m.want = "running"
    <2>1. n = [o EXCEPT !.st = "running"]
      BY <1>4 DEF Reported
    <2>2. Kept(o, n) /\ n.st = "running"
      BY <2>1, <1>1, <1>2, RestatedKept
    <2>. QED  BY <2>2, <1>4 DEF Kept
  <1>5. CASE m.job \in bound /\ m.want = "waiting-email"
    <2>1. n = [Unleased(o, m.want) EXCEPT !.sub = m.token]
      BY <1>5 DEF Reported
    <2>2. Dropped(o, n) /\ n.st = m.want /\ n.sub = m.token
      BY <2>1, <1>1, SubmittedDropped
    <2>. QED  BY <2>2, <1>5 DEF Dropped
  <1>6. CASE m.job \in bound /\ m.want = "failed"
    <2>1. n = [Unleased(o, m.want) EXCEPT !.wait = 1]
      BY <1>6 DEF Reported
    <2>2. Dropped(o, n) /\ n.st = m.want /\ n.sub = o.sub
      BY <2>1, <1>1, FailedDropped
    <2>. QED  BY <2>2, <1>6 DEF Dropped
  <1>7. CASE m.job \in bound /\ m.want \notin {"running", "waiting-email", "failed"}
    <2>1. n = Unleased(o, m.want)
      BY <1>7 DEF Reported
    <2>. QED  BY <2>1, <1>1, <1>7, UnleasedDropped, UnleasedRow
  <1>. QED  BY <1>3, <1>4, <1>5, <1>6, <1>7

\* The end of a search stops a job that still waits for it.
LEMMA MovedRows ==
    ASSUME job \in Rows, NEW i \in Search, NEW st \in {"needs-attention", "failed"}
    PROVE  /\ Moved(i, st) \in Rows
           /\ \A j \in Job : \/ Moved(i, st)[j] = job[j]
                             \/ /\ Waiting(j) /\ Moved(i, st)[j].st = st
                                /\ Dropped(job[j], Moved(i, st)[j]) /\ Moved(i, st)[j].sub = job[j].sub
  <1>. DEFINE o == job[i.job]
              wait == IF st = "failed" THEN 1 ELSE o.wait
              n == [Unleased(o, st) EXCEPT !.wait = wait]
  <1>1. CASE ~(SameAttempt(i) /\ Waiting(i.job))
    BY <1>1 DEF Moved
  <1>2. CASE SameAttempt(i) /\ Waiting(i.job)
    <2>1. i.job \in Job /\ o \in Row /\ st \in Status
      BY <1>2 DEF Search, Rows, Waiting, In, Exists, Status
    <2>2. wait \in 0..MaxWait
      BY <2>1, RowFields, Times
    <2>4. Dropped(o, n) /\ n.st = st /\ n.sub = o.sub
      BY <2>1, <2>2, FailedDropped
    <2>5. Moved(i, st) = [job EXCEPT ![i.job] = n]
      BY <1>2 DEF Moved
    <2>. HIDE DEF n
    <2>6. n \in Row
      BY <2>4 DEF Dropped
    <2>. QED  BY <1>2, <2>1, <2>4, <2>5, <2>6 DEF Rows
  <1>. QED  BY <1>1, <1>2

-----------------------------------------------------------------------------
(* Type correctness *)

LEMMA TypedInit == Init => Typed
  <1>. SUFFICES ASSUME Init PROVE Typed
    OBVIOUS
  <1>1. job \in Rows /\ claims \in [Job -> Nat] /\ bound \subseteq Job
    BY DEF Init, Rows
  <1>2. worker \in [Worker -> WorkerState] /\ Busy
    BY IdleState DEF Init, Busy
  <1>3. trouble \in 0..MaxTrouble
    BY CountAssumption DEF Init, CountAssumption
  <1>. QED
    BY <1>1, <1>2, <1>3 DEF Typed, TypeOK, Init, Rows, WorkerState

\* Trouble is counted up to its bound.
LEMMA TroubleTyped ==
    ASSUME Typed,
           \/ trouble' = trouble
           \/ trouble < MaxTrouble /\ trouble' = trouble + 1
    PROVE  trouble' \in 0..MaxTrouble
  BY TypedState, CountAssumption DEF CountAssumption

\* A worker that changes what it does is still at a job, or idle.
LEMMA WorkerTyped ==
    ASSUME Typed, NEW w \in Worker, NEW s \in WorkerState,
           s.phase # "idle" => s.job \in Job,
           worker' = [worker EXCEPT ![w] = s]
    PROVE  worker' \in [Worker -> WorkerState] /\ Busy'
  BY TypedState DEF Typed, Busy

\* So is one that reports, and its letter is in order.
LEMMA CallTyped ==
    ASSUME Typed, NEW w \in Worker, NEW want \in Status, NEW watch \in 0..Lease,
           worker[w].phase # "idle", Call(w, want, watch)
    PROVE  /\ worker' = [worker EXCEPT ![w] = Caller(worker[w], want, watch)]
           /\ worker' \in [Worker -> WorkerState] /\ wire' \subseteq Letter /\ Busy'
           /\ Message(w, want) \in Letter
  <1>. DEFINE s == Caller(worker[w], want, watch)
  <1>1. worker[w] \in WorkerState /\ worker[w].job \in Job
    BY TypedState DEF Typed, Busy
  <1>2. s \in WorkerState /\ s.job \in Job
    BY <1>1, CallerState
  <1>3. worker' = [worker EXCEPT ![w] = s]
    BY DEF Call, Caller
  <1>. HIDE DEF s
  <1>4. worker' \in [Worker -> WorkerState] /\ Busy'
    BY <1>2, <1>3, WorkerTyped
  <1>5. Message(w, want) \in Letter
    BY <1>1, StateFields DEF Message, Letter
  <1>6. wire' \subseteq Letter
    BY <1>5, TypedState DEF Call
  <1>. QED  BY <1>3, <1>4, <1>5, <1>6 DEF s

\* What the outcomes of a claim have in common.
LEMMA TakenTyped ==
    ASSUME Typed, NEW w \in Worker, NEW j \in Job, NEW rows \in Prepared, Taken(rows, w, j)
    PROVE  /\ claims' \in [Job -> Nat] /\ claims'[j] = claims[j] + 1
           /\ bound' \subseteq Job /\ approval' \in {"none", "fresh", "due"}
           /\ LeasedTo(rows[j], j, w) \in Row
  <1>1. claims \in [Job -> Nat] /\ job \in Rows
    BY TypedState
  <1>2. claims[j] \in Nat /\ claims' = [claims EXCEPT ![j] = claims[j] + 1]
    BY <1>1 DEF Taken
  <1>3. claims' \in [Job -> Nat] /\ claims'[j] = claims[j] + 1
    BY <1>1, <1>2
  <1>4. bound' \subseteq Job /\ approval' \in {"none", "fresh", "due"}
    BY TypedState, JobAssumption DEF Taken, JobAssumption
  <1>5. rows[j] \in Row /\ rows[j].attempts < MaxAttempts
    BY <1>1, RunnableRow DEF Taken
  <1>6. LeasedTo(rows[j], j, w) \in Row
    BY <1>2, <1>5, LeasedToRow
  <1>. QED  BY <1>3, <1>4, <1>6

LEMMA TypedStep ==
    ASSUME Typed, [Next]_vars
    PROVE  Typed'
  <1>. USE TypedState
  <1>1. ASSUME NEW j \in Job, Enqueue(j)
        PROVE  Typed'
    <2>1. Queued(FALSE) \in Row
      BY QueuedRow
    <2>2. job' \in Rows /\ bound' \subseteq Job /\ Busy'
      BY <1>1, <2>1 DEF Enqueue, Rows, Typed, Busy
    <2>. QED  BY <1>1, <2>2, TypedAgain DEF Enqueue
  <1>2. ASSUME NEW c \in Job, RequestCanary(c)
        PROVE  Typed'
    <2>1. Queued(TRUE) \in Row /\ "needs-attention" \in Status
      BY QueuedRow DEF Status
    <2>2. ASSUME NEW j \in Job, Leased(j) \/ Waiting(j)
          PROVE  [job[j] EXCEPT !.st = "needs-attention"] \in Row
      BY <2>1, <2>2, RestatedRow DEF Leased, Waiting, In, Exists, Rows
    <2>3. job' \in Rows
      BY <1>2, <2>1, <2>2 DEF RequestCanary, Rows
    <2>4. bound' \subseteq Job /\ Busy'
      BY <1>2, JobAssumption DEF RequestCanary, JobAssumption, Typed, Busy
    <2>5. trouble' \in 0..MaxTrouble
      BY <1>2, TroubleTyped DEF RequestCanary
    <2>. QED  BY <1>2, <2>3, <2>4, <2>5, TypedAgain DEF RequestCanary
  <1>3. ASSUME NEW j \in Job, Retry(j)
        PROVE  Typed'
    <2>1. job[j] \in Row
      BY <1>3 DEF Retry, In, Exists, Rows
    <2>2. Retried(job[j]) \in Row /\ job[j].token \in Nat
      BY <2>1, RetriedRow, RowFields
    <2>3. job' \in Rows
      BY <1>3, <2>2 DEF Retry, Rows
    <2>4. unfenced' \subseteq Job \X Nat /\ Busy'
      BY <1>3, <2>2 DEF Retry, Typed, Busy
    <2>5. trouble' \in 0..MaxTrouble
      BY <1>3, TroubleTyped DEF Retry
    <2>. QED  BY <1>3, <2>3, <2>4, <2>5, TypedAgain DEF Retry, world
  <1>4. ASSUME NEW j \in Job, Cancel(j)
        PROVE  Typed'
    <2>1. job[j] \in Row /\ "cancelled" \in Status
      BY <1>4 DEF Cancel, Exists, Rows, Status
    <2>2. [job[j] EXCEPT !.st = "cancelled"] \in Row
      BY <2>1, RestatedRow
    <2>3. job' \in Rows /\ Busy'
      BY <1>4, <2>2 DEF Cancel, Rows, Typed, Busy
    <2>5. trouble' \in 0..MaxTrouble
      BY <1>4, TroubleTyped DEF Cancel
    <2>. QED  BY <1>4, <2>3, <2>5, TypedAgain DEF Cancel, world
  <1>5. ASSUME NEW j \in Job, MailDeadline(j)
        PROVE  Typed'
    <2>1. job[j] \in Row
      BY <1>5 DEF MailDeadline, Waiting, In, Exists, Rows
    <2>2. [job[j] EXCEPT !.late = TRUE] \in Row
      BY <2>1, LateRow
    <2>3. job' \in Rows /\ Busy'
      BY <1>5, <2>2 DEF MailDeadline, Rows, Typed, Busy
    <2>. QED  BY <1>5, <2>3, TypedAgain DEF MailDeadline, world
  <1>6. ASSUME NEW w \in Worker, NEW j \in Job, Claim(w, j)
        PROVE  Typed'
    <2>1. PICK rows \in Prepared :
            /\ Taken(rows, w, j) /\ j \in bound'
            /\ job' = [rows EXCEPT ![j] = Rotated(LeasedTo(rows[j], j, w))]
            /\ worker' = [worker EXCEPT ![w] = Claimant(j, claims'[j])]
            /\ UNCHANGED trouble
      BY <1>6 DEF Claim, Claimant
    <2>2. claims' \in [Job -> Nat] /\ bound' \subseteq Job /\ approval' \in {"none", "fresh", "due"}
      BY <2>1, TakenTyped
    <2>3. Rotated(LeasedTo(rows[j], j, w)) \in Row
      BY <2>1, TakenTyped, RotatedRow
    <2>4. job' \in Rows
      BY <2>1, <2>3, PreparedRows DEF Rows
    <2>5. worker' \in [Worker -> WorkerState] /\ Busy'
      <3>. DEFINE s == Claimant(j, claims'[j])
      <3>1. s \in WorkerState /\ s.job \in Job
        BY <2>2, ClaimantState
      <3>2. worker' = [worker EXCEPT ![w] = s]
        BY <2>1
      <3>. HIDE DEF s
      <3>. QED  BY <3>1, <3>2, WorkerTyped
    <2>. QED  BY <2>1, <2>2, <2>4, <2>5, TypedAgain DEF Taken
  <1>7. ASSUME NEW w \in Worker, NEW j \in Job, ClaimCut(w, j)
        PROVE  Typed'
    <2>1. PICK rows \in Prepared :
            /\ trouble < MaxTrouble /\ Taken(rows, w, j) /\ trouble' = trouble + 1
            /\ job' = [rows EXCEPT ![j] = LeasedTo(rows[j], j, w)]
            /\ UNCHANGED <<worker>>
      BY <1>7 DEF ClaimCut
    <2>2. claims' \in [Job -> Nat] /\ bound' \subseteq Job /\ approval' \in {"none", "fresh", "due"}
      BY <2>1, TakenTyped
    <2>3. LeasedTo(rows[j], j, w) \in Row
      BY <2>1, TakenTyped
    <2>4. job' \in Rows
      BY <2>1, <2>3, PreparedRows DEF Rows
    <2>5. Busy' /\ trouble' \in 0..MaxTrouble
      BY <2>1, TroubleTyped DEF Typed, Busy
    <2>. QED  BY <2>1, <2>2, <2>4, <2>5, TypedAgain DEF Taken
  <1>8. ASSUME NEW w \in Worker, NEW j \in Job, Park(w, j)
        PROVE  Typed'
    <2>1. PICK rows \in Prepared :
            /\ Taken(rows, w, j) /\ j \notin bound'
            /\ job' = [rows EXCEPT ![j] = Unleased(LeasedTo(rows[j], j, w), "needs-attention")]
            /\ UNCHANGED <<worker, trouble>>
      BY <1>8 DEF Park
    <2>2. claims' \in [Job -> Nat] /\ bound' \subseteq Job /\ approval' \in {"none", "fresh", "due"}
      BY <2>1, TakenTyped
    <2>3. "needs-attention" \in Status
      BY DEF Status
    <2>4. Unleased(LeasedTo(rows[j], j, w), "needs-attention") \in Row
      BY <2>1, <2>3, TakenTyped, UnleasedRow
    <2>5. job' \in Rows
      BY <2>1, <2>4, PreparedRows DEF Rows
    <2>6. Busy'
      BY <2>1 DEF Typed, Busy
    <2>. QED  BY <2>1, <2>2, <2>5, <2>6, TypedAgain DEF Taken
  <1>9. ASSUME NEW w \in Worker, ClaimArrives(w)
        PROVE  Typed'
    <2>1. "running" \in Status /\ Lease - Margin \in 0..Lease
      BY Times DEF Status
    <2>2. Call(w, "running", Lease - Margin) /\ worker[w].phase # "idle"
      BY <1>9 DEF ClaimArrives
    <2>3. worker' \in [Worker -> WorkerState] /\ wire' \subseteq Letter /\ Busy'
      BY <2>1, <2>2, CallTyped
    <2>. QED  BY <1>9, <2>3, TypedAgain DEF ClaimArrives, world
  <1>10. ASSUME NEW w \in Worker, ClaimLost(w)
         PROVE  Typed'
    <2>1. worker' \in [Worker -> WorkerState] /\ Busy'
      BY <1>10, IdleState, WorkerTyped DEF ClaimLost
    <2>2. trouble' \in 0..MaxTrouble
      BY <1>10, TroubleTyped DEF ClaimLost
    <2>. QED  BY <1>10, <2>1, <2>2, TypedAgain DEF ClaimLost, world
  <1>11. ASSUME NEW w \in Worker, FindsNothing(w)
         PROVE  Typed'
    <2>1. PICK rows \in Prepared :
            /\ job' = rows
            /\ bound' = bound \cup {c \in Canary : ~Exists(c) /\ rows[c] # NoRow}
            /\ UNCHANGED <<claims, approval, worker, screen, wire, asked, poll, unfenced, trouble>>
      BY <1>11 DEF FindsNothing
    <2>2. job' \in Rows /\ bound' \subseteq Job /\ Busy'
      BY <2>1, PreparedRows, JobAssumption DEF JobAssumption, Typed, Busy
    <2>. QED  BY <2>1, <2>2, TypedAgain
  <1>12. ASSUME NEW w \in Worker, Drive(w)
         PROVE  Typed'
    <2>1. worker[w] \in WorkerState /\ worker[w].job \in Job /\ Limit \in 0..Limit
      BY <1>12, Times DEF Drive, Typed, Busy
    <2>2. [job |-> worker[w].job, token |-> worker[w].token, left |-> Limit] \in Command
      BY <2>1, StateFields DEF Command
    <2>3. screen' \in [Worker -> SUBSET Command] /\ Busy'
      BY <1>12, <2>2 DEF Drive, Typed, Busy
    <2>. QED  BY <1>12, <2>3, TypedAgain DEF Drive, world
  <1>13. ASSUME NEW w \in Worker, GiveUp(w)
         PROVE  Typed'
    <2>1. /\ worker[w] \in WorkerState /\ worker[w].watch \in 0..Lease /\ "failed" \in Status
          /\ worker[w].phase # "idle"
      BY <1>13, StateFields DEF GiveUp, Status
    <2>2. trouble' \in 0..MaxTrouble
      BY <1>13, TroubleTyped DEF GiveUp
    <2>3. CASE Call(w, "failed", worker[w].watch)
      <3>1. worker' \in [Worker -> WorkerState] /\ wire' \subseteq Letter /\ Busy'
        BY <2>1, <2>3, CallTyped
      <3>. QED  BY <1>13, <2>2, <3>1, TypedAgain DEF GiveUp, world
    <2>4. CASE worker' = [worker EXCEPT ![w] = Idle] /\ UNCHANGED wire
      <3>1. worker' \in [Worker -> WorkerState] /\ Busy'
        BY <2>4, IdleState, WorkerTyped
      <3>. QED  BY <1>13, <2>2, <2>4, <3>1, TypedAgain DEF GiveUp, world
    <2>. QED  BY <1>13, <2>3, <2>4 DEF GiveUp
  <1>14. ASSUME NEW w \in Worker, Abandon(w)
         PROVE  Typed'
    <2>1. worker' \in [Worker -> WorkerState] /\ Busy'
      BY <1>14, IdleState, WorkerTyped DEF Abandon
    <2>2. trouble' \in 0..MaxTrouble
      BY <1>14, TroubleTyped DEF Abandon
    <2>. QED  BY <1>14, <2>1, <2>2, TypedAgain DEF Abandon, world
  <1>15. ASSUME NEW w \in Worker, Heartbeat(w)
         PROVE  Typed'
    <2>. DEFINE j == worker[w].job
    <2>1. /\ worker[w] \in WorkerState /\ j \in Job /\ worker[w].token \in Nat
          /\ worker[w].phase # "idle"
      BY <1>15, StateFields DEF Heartbeat, Beating, Typed, Busy
    <2>2. job[j] \in Row /\ Lease \in -Grace..Lease /\ "needs-attention" \in Status
      BY <1>15, <2>1, Times DEF Heartbeat, LeaseStands, Leased, In, Exists, Rows, Status
    <2>3. CASE j \in bound
      <3>1. job' = [job EXCEPT ![j] = [job[j] EXCEPT !.left = Lease]]
        BY <1>15, <2>3 DEF Heartbeat
      <3>2. [job[j] EXCEPT !.left = Lease] \in Row
        BY <2>2, TimedRow
      <3>3. job' \in Rows
        BY <3>1, <3>2 DEF Rows
      <3>4. worker' = [worker EXCEPT ![w] = [worker[w] EXCEPT !.age = 0]]
        BY <1>15, <2>3 DEF Heartbeat
      <3>5. [worker[w] EXCEPT !.age = 0] \in WorkerState /\ [worker[w] EXCEPT !.age = 0].job \in Job
        BY <2>1, HeardState
      <3>6. worker' \in [Worker -> WorkerState] /\ Busy'
        BY <3>4, <3>5, WorkerTyped
      <3>. QED  BY <1>15, <2>3, <3>3, <3>6, TypedAgain DEF Heartbeat, world
    <2>4. CASE j \notin bound
      <3>1. job' = [job EXCEPT ![j] = Unleased(job[j], "needs-attention")]
        BY <1>15, <2>4 DEF Heartbeat
      <3>2. job' \in Rows
        BY <2>1, <2>2, <3>1, UnleasedRow DEF Rows
      <3>3. worker' \in [Worker -> WorkerState] /\ Busy'
        BY <1>15, <2>4, IdleState, WorkerTyped DEF Heartbeat
      <3>4. unfenced' \subseteq Job \X Nat
        BY <1>15, <2>1, <2>4 DEF Heartbeat
      <3>. QED  BY <1>15, <2>4, <3>2, <3>3, <3>4, TypedAgain DEF Heartbeat, world
    <2>. QED  BY <2>3, <2>4
  <1>16. ASSUME NEW w \in Worker, HeartbeatRefused(w)
         PROVE  Typed'
    <2>1. worker' \in [Worker -> WorkerState] /\ Busy'
      BY <1>16, IdleState, WorkerTyped DEF HeartbeatRefused
    <2>. QED  BY <1>16, <2>1, TypedAgain DEF HeartbeatRefused, world
  <1>17. ASSUME NEW w \in Worker, NEW lost \in BOOLEAN, HeartbeatArrives(w, lost)
         PROVE  Typed'
    <2>. DEFINE s == Beaten(worker[w], lost)
    <2>1. worker[w] \in WorkerState /\ worker[w].job \in Job
      BY <1>17 DEF HeartbeatArrives, Beating, Typed, Busy
    <2>2. worker' = [worker EXCEPT ![w] = s]
      BY <1>17 DEF HeartbeatArrives, Beaten
    <2>3. s \in WorkerState /\ s.job \in Job
      BY <2>1, BeatenState
    <2>. HIDE DEF s
    <2>4. worker' \in [Worker -> WorkerState] /\ Busy'
      BY <2>2, <2>3, WorkerTyped
    <2>5. trouble' \in 0..MaxTrouble
      BY <1>17, TroubleTyped DEF HeartbeatArrives
    <2>. QED  BY <1>17, <2>4, <2>5, TypedAgain DEF HeartbeatArrives, world
  <1>18. ASSUME NEW w \in Worker, NEW c \in screen[w], NEW submits \in BOOLEAN, CommandEnds(w, c, submits)
         PROVE  Typed'
    <2>1. c \in Command
      OBVIOUS
    <2>2. screen' \in [Worker -> SUBSET Command] /\ Busy'
      BY <1>18 DEF CommandEnds, Typed, Busy
    <2>3. asked' \subseteq Job \X Nat
      BY <1>18, <2>1 DEF CommandEnds, Command
    <2>. QED  BY <1>18, <2>2, <2>3, TypedAgain DEF CommandEnds, world
  <1>19. ASSUME NEW w \in Worker, NEW st \in Status, Report(w, st)
         PROVE  Typed'
    <2>1. worker[w] \in WorkerState /\ worker[w].watch \in 0..Lease /\ worker[w].phase # "idle"
      BY <1>19, StateFields DEF Report
    <2>2. worker' \in [Worker -> WorkerState] /\ wire' \subseteq Letter /\ Busy'
      BY <1>19, <2>1, CallTyped DEF Report
    <2>. QED  BY <1>19, <2>2, TypedAgain DEF Report, world
  <1>20. ASSUME NEW m \in wire, NEW answered \in BOOLEAN, Receive(m, answered)
         PROVE  Typed'
    <2>. DEFINE w == m.owner
    <2>1. m \in Letter /\ w \in Worker /\ m.job \in Job /\ m.token \in Nat
      BY DEF Letter
    <2>2. job' \in Rows
      <3>1. CASE Accepts(m)
        <4>1. Leased(m.job)
          BY <3>1 DEF Accepts, LeaseStands
        <4>2. Reported(m) \in Row
          BY <2>1, <4>1, ReportedRow
        <4>. QED  BY <1>20, <2>1, <3>1, <4>2 DEF Receive, Rows
      <3>2. CASE ~Accepts(m)
        BY <1>20, <3>2 DEF Receive
      <3>. QED  BY <3>1, <3>2
    <2>3. worker' \in [Worker -> WorkerState] /\ Busy'
      <3>1. CASE worker' = worker
        BY <3>1 DEF Typed, Busy
      <3>2. CASE worker' = [worker EXCEPT ![w] = Idle]
        BY <2>1, <3>2, IdleState, WorkerTyped
      <3>3. CASE worker[w].phase = "calling" /\ worker' = [worker EXCEPT ![w] = Driver(worker[w])]
        <4>1. worker[w] \in WorkerState /\ worker[w].job \in Job
          BY <2>1, <3>3 DEF Typed, Busy
        <4>2. Driver(worker[w]) \in WorkerState /\ Driver(worker[w]).job \in Job
          BY <4>1, DriverState
        <4>. QED  BY <2>1, <3>3, <4>2, WorkerTyped
      <3>. QED  BY <1>20, <3>1, <3>2, <3>3 DEF Receive, Driver
    <2>4. wire' \subseteq Letter /\ unfenced' \subseteq Job \X Nat
      BY <1>20, <2>1 DEF Receive
    <2>. QED  BY <1>20, <2>2, <2>3, <2>4, TypedAgain DEF Receive, world
  <1>21. ASSUME NEW i \in poll, Delivered(i)
         PROVE  Typed'
    <2>1. i \in Search /\ i.job \in Job /\ i.rcpt \in Nat
      BY DEF Search
    <2>2. poll' \subseteq Search /\ Busy' /\ approval' \in {"none", "fresh", "due"}
      BY <1>21 DEF Delivered, SearchEnds, Typed, Busy
    <2>3. CASE i.job \in bound /\ Fits(i)
      <3>1. job[i.job] \in Row
        BY <2>1, <2>3 DEF Fits, Waiting, In, Exists, Rows
      <3>2. job' = [job EXCEPT ![i.job] = [Unleased(job[i.job], "completed") EXCEPT !.mail = i.rcpt]]
        BY <1>21, <2>3 DEF Delivered, Completed
      <3>3. [Unleased(job[i.job], "completed") EXCEPT !.mail = i.rcpt] \in Row
        BY <2>1, <3>1, CompletedRow
      <3>4. job' \in Rows
        BY <3>2, <3>3 DEF Rows
      <3>. QED  BY <1>21, <2>2, <3>4, TypedAgain DEF Delivered, SearchEnds
    <2>4. CASE ~(i.job \in bound /\ Fits(i))
      <3>1. job' \in Rows
        BY <1>21, <2>1, <2>4, MovedRows DEF Delivered
      <3>. QED  BY <1>21, <2>2, <3>1, TypedAgain DEF Delivered, SearchEnds
    <2>. QED  BY <2>3, <2>4
  <1>22. ASSUME NEW i \in poll, DeliveredCut(i)
         PROVE  Typed'
    <2>1. i \in Search /\ i.job \in Job /\ i.rcpt \in Nat
      BY DEF Search
    <2>2. poll' \subseteq Search /\ Busy' /\ trouble' \in 0..MaxTrouble
      BY <1>22, TroubleTyped DEF DeliveredCut, SearchEnds, Typed, Busy
    <2>3. job[i.job] \in Row
      BY <1>22, <2>1 DEF DeliveredCut, Fits, Waiting, In, Exists, Rows
    <2>4. job' = [job EXCEPT ![i.job] = [Unleased(job[i.job], "completed") EXCEPT !.mail = i.rcpt]]
      BY <1>22 DEF DeliveredCut, Completed
    <2>5. [Unleased(job[i.job], "completed") EXCEPT !.mail = i.rcpt] \in Row
      BY <2>1, <2>3, CompletedRow
    <2>6. job' \in Rows
      BY <2>4, <2>5 DEF Rows
    <2>. QED  BY <1>22, <2>2, <2>6, TypedAgain DEF DeliveredCut, SearchEnds, world
  <1>23. ASSUME NEW i \in poll, Rejected(i) \/ Overdue(i) \/ NotYet(i)
         PROVE  Typed'
    <2>1. i \in Search
      OBVIOUS
    <2>2. poll' \subseteq Search /\ Busy'
      BY <1>23 DEF Rejected, Overdue, NotYet, SearchEnds, Typed, Busy
    <2>3. job' \in Rows
      BY <1>23, <2>1, MovedRows DEF Rejected, Overdue, NotYet
    <2>. QED  BY <1>23, <2>2, <2>3, TypedAgain DEF Rejected, Overdue, NotYet, SearchEnds, world
  <1>24. ASSUME NEW i \in poll, Drifted(i)
         PROVE  Typed'
    <2>1. i \in Search
      OBVIOUS
    <2>2. poll' \subseteq Search /\ Busy'
      BY <1>24 DEF Drifted, SearchEnds, Typed, Busy
    <2>3. Moved(i, "needs-attention") \in Rows /\ Queued(FALSE) \in Row
      BY <2>1, MovedRows, QueuedRow
    <2>4. job' \in Rows /\ bound' \subseteq Job
      <3>1. CASE job' = Moved(i, "needs-attention") /\ UNCHANGED bound
        BY <2>3, <3>1
      <3>2. CASE \E c \in Canary : job' = Renewed(Moved(i, "needs-attention"), c) /\ bound' = bound \cup {c}
        BY <2>3, <3>2, JobAssumption DEF JobAssumption, Renewed, Rows
      <3>. QED  BY <1>24, <3>1, <3>2 DEF Drifted
    <2>. QED  BY <1>24, <2>2, <2>4, TypedAgain DEF Drifted, SearchEnds
  <1>25. ASSUME Rename \/ ApprovalAges
         PROVE  Typed'
    <2>1. Busy' /\ trouble' \in 0..MaxTrouble
      BY <1>25, TroubleTyped DEF Rename, ApprovalAges, Typed, Busy
    <2>. QED  BY <1>25, <2>1, TypedAgain DEF Rename, ApprovalAges
  <1>26. CASE Maintain
    BY <1>26, ExpiredRows, TypedAgain DEF Maintain, world, Typed, Busy
  <1>27. CASE PollBegins
    <2>1. poll' \subseteq Search
      BY <1>27, RowFields DEF PollBegins, Waiting, In, Exists, Rows, Search
    <2>. QED  BY <1>27, <2>1, ExpiredRows, TypedAgain DEF PollBegins, world, Typed, Busy
  <1>28. CASE Tick
    <2>1. job' \in Rows
      <3>1. \A j \in Job : Exists(j) => Ticked(job[j]) \in Row
        BY TickedRow DEF Rows, Exists
      <3>2. job' = [j \in Job |-> IF Exists(j) THEN Ticked(job[j]) ELSE job[j]]
        BY <1>28 DEF Tick, Ticked
      <3>. QED  BY <3>1, <3>2 DEF Rows
    <2>2. worker' \in [Worker -> WorkerState] /\ Busy'
      <3>1. worker' = [w \in Worker |-> Older(worker[w], Armed(w))]
        BY <1>28 DEF Tick, Older
      <3>2. ASSUME NEW w \in Worker
            PROVE  /\ Older(worker[w], Armed(w)) \in WorkerState
                   /\ Older(worker[w], Armed(w)).phase = worker[w].phase
                   /\ Older(worker[w], Armed(w)).job = worker[w].job
        <4>1. worker[w] \in WorkerState /\ Armed(w) \in BOOLEAN
          BY DEF Armed
        <4>2. worker[w].age < Limit /\ (Armed(w) => worker[w].watch > 0)
          BY <1>28 DEF Tick
        <4>. QED  BY <4>1, <4>2, OlderState
      <3>. QED  BY <3>1, <3>2 DEF Typed, Busy
    <2>3. screen' \in [Worker -> SUBSET Command]
      <3>1. ASSUME NEW w \in Worker, NEW c \in screen[w]
            PROVE  [c EXCEPT !.left = @ - 1] \in Command
        <4>0. c \in Command
          OBVIOUS
        <4>1. c.left > 0 /\ c.left \in 0..Limit
          BY <1>28, <4>0 DEF Tick, Command
        <4>2. c.left - 1 \in 0..Limit
          BY <4>1, Times
        <4>. QED  BY <4>0, <4>2 DEF Command
      <3>. QED  BY <1>28, <3>1 DEF Tick
    <2>. QED  BY <1>28, <2>1, <2>2, <2>3, TypedAgain DEF Tick, world
  <1>29. CASE UNCHANGED vars
    BY <1>29, TypedAgain DEF vars, world, Typed, Busy
  <1>. QED
    BY <1>1, <1>2, <1>3, <1>4, <1>5, <1>6, <1>7, <1>8, <1>9, <1>10, <1>11, <1>12, <1>13, <1>14,
       <1>15, <1>16, <1>17, <1>18, <1>19, <1>20, <1>21, <1>22, <1>23, <1>24, <1>25, <1>26, <1>27,
       <1>28, <1>29 DEF Next

\* Whatever the numbers of exports, phones, attempts, times and troubles, every
\* variable keeps its type: in particular no row is claimed more often than it
\* may be and no time runs below its floor.
THEOREM TypeCorrect == Spec => []TypeOK
  <1>1. Typed /\ [Next]_vars => Typed'
    BY TypedStep
  <1>2. Typed => TypeOK
    BY DEF Typed
  <1>. QED  BY <1>1, <1>2, TypedInit, PTL DEF Spec

-----------------------------------------------------------------------------
(* What a step can make of a row, whatever the times *)

Underway == {"claimed", "running"}

\* It is not there yet, and queued.
Appears(j) == ~Exists(j) /\ \E b \in BOOLEAN : job'[j] = Queued(b)

\* Its lease or its mail gets older, or the lease is renewed.
Ages(o, n) == /\ n \in Row /\ n.st = o.st /\ n.rcpt = o.rcpt /\ n.sub = o.sub /\ n.mail = o.mail
              /\ n.token = o.token /\ (n.left <= o.left \/ o.left > 0)

\* It stops: it was under way, waited or was cancelled.
Halts(o, n) == /\ n \in Row /\ o.st # "completed" /\ n.st \in {"needs-attention", "failed", "cancelled"}
               /\ n.rcpt = o.rcpt /\ n.mail = o.mail /\ n.token \in {0, o.token}

\* A worker reports that it runs.
Runs(o, n) == /\ n \in Row /\ o.st \in Underway /\ o.left > 0 /\ n.st = "running"
              /\ n.rcpt = o.rcpt /\ n.sub = o.sub /\ n.mail = o.mail /\ n.token = o.token

\* An operator retries it.
Requeues(o, n) == /\ n \in Row /\ o.st \in {"failed", "needs-attention", "cancelled"} /\ n.st = "queued"
                  /\ n.rcpt = o.rcpt /\ n.mail = 0 /\ n.token \in {0, o.token}

\* A worker reports that the mail was asked for.
Submits(j) == LET o == job[j]
                  n == job'[j]
              IN  /\ Exists(j) /\ n \in Row /\ o.st \in Underway /\ o.left > 0 /\ n.st = "waiting-email"
                  /\ n.rcpt = o.rcpt /\ n.sub = o.token /\ n.mail = o.mail /\ n.token = 0
                  /\ \E m \in wire : m.job = j /\ m.token = o.token /\ m.want = "waiting-email"

\* Its mail arrives.
Arrives(j) == LET o == job[j]
                n == job'[j]
            IN  /\ Exists(j) /\ n \in Row /\ o.st = "waiting-email" /\ n.st = "completed"
                /\ n.rcpt = o.rcpt /\ n.mail = o.rcpt /\ n.token = 0 /\ <<j, o.rcpt>> \in asked

\* It is claimed, with a new address or without; it may have been queued for that.
Claims(j) == LET n == job'[j]
             IN  /\ n \in Row /\ n.st = "claimed" /\ n.token = claims[j] + 1 /\ n.left = Lease
                 /\ claims'[j] = claims[j] + 1
                 /\ \/ /\ Exists(j) /\ job[j].st \in Underway \cup {"queued", "failed"}
                       /\ \/ n.rcpt = job[j].rcpt /\ n.mail = job[j].mail
                          \/ n.rcpt = n.token /\ n.mail = 0
                    \/ ~Exists(j) /\ n.rcpt \in {0, n.token} /\ n.mail = 0

RowStep(j) ==
    \/ job'[j] = job[j] \/ Appears(j) \/ Submits(j) \/ Arrives(j) \/ Claims(j)
    \/ Exists(j) /\ (Ages(job[j], job'[j]) \/ Halts(job[j], job'[j]) \/ Runs(job[j], job'[j])
                     \/ Requeues(job[j], job'[j]))

\* Leases that ran out, and a canary that is queued, are steps of their rows.
LEMMA PreparedStep ==
    ASSUME Typed, NEW rows \in Prepared, NEW j \in Job, job'[j] = rows[j]
    PROVE  RowStep(j)
  <1>1. job \in Rows
    BY TypedState
  <1>2. CASE rows[j] = job[j]
    BY <1>2 DEF RowStep
  <1>3. CASE Ends(j, rows[j])
    <2>1. job[j] \in Row /\ job[j].st \in {"claimed", "running"} /\ Exists(j) /\ "failed" \in Status
      BY <1>1, <1>3 DEF Ends, Leased, In, Exists, Rows, Status
    <2>2. Halts(job[j], job'[j])
      BY <1>3, <2>1, UnleasedRow DEF Ends, Halts
    <2>. QED  BY <2>1, <2>2 DEF RowStep
  <1>4. CASE job[j] = NoRow /\ rows[j] = Queued(FALSE)
    BY <1>4 DEF RowStep, Appears, Exists
  <1>. QED  BY <1>1, <1>2, <1>3, <1>4, PreparedRows

\* A claim, with its address or without.
LEMMA ClaimedStep ==
    ASSUME Typed, NEW w \in Worker, NEW j \in Job, NEW rows \in Prepared, Taken(rows, w, j),
           NEW n \in {LeasedTo(rows[j], j, w), Rotated(LeasedTo(rows[j], j, w))},
           job' = [rows EXCEPT ![j] = n]
    PROVE  /\ \A k \in Job : RowStep(k)
           /\ Claims(j) /\ job'[j] = n /\ \A k \in Job \ {j} : job'[k] = rows[k]
           /\ n.owner = w /\ n.wait = rows[j].wait
  <1>. DEFINE l == LeasedTo(rows[j], j, w)
  <1>1. job \in Rows /\ rows \in Rows /\ claims[j] \in Nat
    BY TypedState, PreparedRows
  <1>2. /\ rows[j] \in Row /\ rows[j].attempts < MaxAttempts
        /\ rows[j].st \in {"queued", "failed", "claimed", "running"}
    BY <1>1, RunnableRow DEF Taken
  <1>3. /\ l \in Row /\ l.st = "claimed" /\ l.token = claims[j] + 1 /\ l.left = Lease /\ l.owner = w
        /\ l.rcpt = rows[j].rcpt /\ l.mail = rows[j].mail /\ l.wait = rows[j].wait
    BY <1>1, <1>2, LeasedToRow
  <1>. HIDE DEF l
  <1>4. /\ n \in Row /\ n.st = "claimed" /\ n.token = claims[j] + 1 /\ n.left = Lease /\ n.owner = w
        /\ n.wait = rows[j].wait
        /\ \/ n.rcpt = rows[j].rcpt /\ n.mail = rows[j].mail
           \/ n.rcpt = n.token /\ n.mail = 0
    <2>1. CASE n = l
      BY <2>1, <1>3
    <2>2. CASE n = Rotated(l)
      BY <2>2, <1>3, RotatedRow
    <2>. QED  BY <2>1, <2>2 DEF l
  <1>5. /\ job'[j] = n /\ \A k \in Job \ {j} : job'[k] = rows[k]
    BY <1>1 DEF Rows
  <1>6. \/ Exists(j) /\ job[j].st \in Underway \cup {"queued", "failed"}
           /\ rows[j].rcpt = job[j].rcpt /\ rows[j].mail = job[j].mail
        \/ ~Exists(j) /\ rows[j].rcpt = 0 /\ rows[j].mail = 0
    <2>1. CASE rows[j] = job[j]
      BY <2>1, <1>2, NullAssumption DEF NullAssumption, Exists, Underway
    <2>2. CASE Ends(j, rows[j])
      <3>1. job[j] \in Row /\ job[j].st \in {"claimed", "running"} /\ Exists(j) /\ "failed" \in Status
        BY <1>1, <2>2 DEF Ends, Leased, In, Exists, Rows, Status
      <3>. QED  BY <2>2, <3>1, UnleasedRow DEF Ends, Underway
    <2>3. CASE job[j] = NoRow /\ rows[j] = Queued(FALSE)
      BY <2>3, QueuedRow DEF Exists
    <2>. QED  BY <1>1, <2>1, <2>2, <2>3, PreparedRows
  <1>7. claims'[j] = claims[j] + 1
    BY TakenTyped
  <1>8. Claims(j)
    BY <1>4, <1>5, <1>6, <1>7 DEF Claims
  <1>9. \A k \in Job : RowStep(k)
    BY <1>5, <1>8, PreparedStep DEF RowStep
  <1>. QED  BY <1>4, <1>5, <1>8, <1>9

LEMMA MovedStep ==
    ASSUME Typed, NEW i \in Search, NEW st \in {"needs-attention", "failed"},
           NEW j \in Job, job'[j] = Moved(i, st)[j]
    PROVE  RowStep(j)
  <1>1. CASE job'[j] = job[j]
    BY <1>1 DEF RowStep
  <1>2. CASE Waiting(j) /\ job'[j].st = st /\ Dropped(job[j], job'[j])
    BY <1>2 DEF RowStep, Waiting, In, Exists, Halts, Dropped
  <1>. QED  BY <1>1, <1>2, MovedRows, TypedState

LEMMA CompletedStep ==
    ASSUME Typed, NEW i \in Search, Fits(i), <<i.job, i.rcpt>> \in asked,
           job' = Completed(i), NEW j \in Job
    PROVE  RowStep(j)
  <1>. DEFINE n == [Unleased(job[i.job], "completed") EXCEPT !.mail = i.rcpt]
  <1>1. /\ i.job \in Job /\ i.rcpt \in Nat /\ job[i.job] \in Row
        /\ job[i.job].st = "waiting-email" /\ job[i.job].rcpt = i.rcpt /\ Exists(i.job)
    BY TypedState DEF Search, Fits, Waiting, In, Exists, Rows, SameAttempt
  <1>2. job' = [job EXCEPT ![i.job] = n]
    BY DEF Completed
  <1>3. n \in Row /\ n.st = "completed" /\ n.mail = i.rcpt /\ n.rcpt = job[i.job].rcpt /\ n.token = 0
    BY <1>1, CompletedRow
  <1>. HIDE DEF n
  <1>4. j = i.job => Arrives(j)
    BY <1>1, <1>2, <1>3, TypedState DEF Arrives, Rows
  <1>5. j # i.job => job'[j] = job[j]
    BY <1>2, TypedState DEF Rows
  <1>. QED  BY <1>4, <1>5 DEF RowStep

\* Workers report nothing else.
Outcomes == \A m \in wire : m.want \in {"running", "waiting-email", "needs-attention", "failed"}

\* An operator's step changes one row.
LEMMA OneRow ==
    ASSUME Typed, NEW j \in Job, NEW n, job' = [job EXCEPT ![j] = n],
           Ages(job[j], n) \/ Halts(job[j], n) \/ Runs(job[j], n) \/ Requeues(job[j], n), Exists(j)
    PROVE  \A k \in Job : RowStep(k)
  BY TypedState DEF RowStep, Rows

LEMMA RowSteps ==
    ASSUME Typed, Outcomes, [Next]_vars, NEW k \in Job
    PROVE  RowStep(k)
  <1>. USE TypedState
  <1>1. ASSUME NEW j \in Job, Enqueue(j)
        PROVE  RowStep(k)
    BY <1>1 DEF Enqueue, RowStep, Appears, Exists, Rows
  <1>2. ASSUME NEW c \in Job, RequestCanary(c)
        PROVE  RowStep(k)
    <2>1. CASE k = c
      BY <1>2, <2>1 DEF RequestCanary, RowStep, Appears, Exists
    <2>2. CASE k # c /\ k \in bound \ Canary /\ (Leased(k) \/ Waiting(k))
      <3>1. job[k] \in Row /\ job[k].st # "completed" /\ Exists(k) /\ "needs-attention" \in Status
        BY <2>2 DEF Leased, Waiting, In, Exists, Rows, Status
      <3>2. job'[k] = [job[k] EXCEPT !.st = "needs-attention"]
        BY <1>2, <2>2 DEF RequestCanary
      <3>3. Halts(job[k], job'[k])
        BY <3>1, <3>2, RestatedRow DEF Halts
      <3>. QED  BY <3>1, <3>3 DEF RowStep
    <2>3. CASE k # c /\ ~(k \in bound \ Canary /\ (Leased(k) \/ Waiting(k)))
      BY <1>2, <2>3 DEF RequestCanary, RowStep
    <2>. QED  BY <2>1, <2>2, <2>3
  <1>3. ASSUME NEW j \in Job, Retry(j)
        PROVE  RowStep(k)
    <2>1. job[j] \in Row /\ Exists(j) /\ job[j].st \in {"failed", "needs-attention", "cancelled"}
      BY <1>3 DEF Retry, In, Exists, Rows
    <2>2. Requeues(job[j], Retried(job[j]))
      BY <2>1, RetriedRow DEF Requeues
    <2>. QED  BY <1>3, <2>1, <2>2, OneRow DEF Retry
  <1>4. ASSUME NEW j \in Job, Cancel(j)
        PROVE  RowStep(k)
    <2>1. job[j] \in Row /\ Exists(j) /\ job[j].st # "completed" /\ "cancelled" \in Status
      BY <1>4 DEF Cancel, In, Exists, Rows, Status
    <2>2. Halts(job[j], [job[j] EXCEPT !.st = "cancelled"])
      BY <2>1, RestatedRow DEF Halts
    <2>3. job' = [job EXCEPT ![j] = [job[j] EXCEPT !.st = "cancelled"]]
      BY <1>4 DEF Cancel
    <2>. QED  BY <2>1, <2>2, <2>3, OneRow
  <1>5. ASSUME NEW j \in Job, MailDeadline(j)
        PROVE  RowStep(k)
    <2>1. job[j] \in Row /\ Exists(j)
      BY <1>5 DEF MailDeadline, Waiting, In, Exists, Rows
    <2>2. Ages(job[j], [job[j] EXCEPT !.late = TRUE])
      BY <2>1, LateRow, RowFields, Times DEF Ages
    <2>3. job' = [job EXCEPT ![j] = [job[j] EXCEPT !.late = TRUE]]
      BY <1>5 DEF MailDeadline
    <2>. QED  BY <2>1, <2>2, <2>3, OneRow
  <1>6. ASSUME NEW w \in Worker, NEW j \in Job, Claim(w, j) \/ ClaimCut(w, j)
        PROVE  RowStep(k)
    <2>1. PICK rows \in Prepared :
            /\ Taken(rows, w, j)
            /\ \E n \in {LeasedTo(rows[j], j, w), Rotated(LeasedTo(rows[j], j, w))} : job' = [rows EXCEPT ![j] = n]
      BY <1>6 DEF Claim, ClaimCut
    <2>. QED  BY <2>1, ClaimedStep
  <1>7. ASSUME NEW w \in Worker, NEW j \in Job, Park(w, j)
        PROVE  RowStep(k)
    <2>1. PICK rows \in Prepared :
            /\ Taken(rows, w, j) /\ j \notin bound'
            /\ job' = [rows EXCEPT ![j] = Unleased(LeasedTo(rows[j], j, w), "needs-attention")]
      BY <1>7 DEF Park
    <2>2. CASE k # j
      <3>1. job'[k] = rows[k]
        BY <2>1, <2>2, PreparedRows DEF Rows
      <3>. QED  BY <3>1, PreparedStep
    <2>3. CASE k = j
      <3>. DEFINE l == LeasedTo(rows[j], j, w)
                  n == Unleased(l, "needs-attention")
      <3>1. /\ rows[j] \in Row /\ rows[j].attempts < MaxAttempts /\ claims[j] \in Nat
            /\ rows[j].st \in {"queued", "failed", "claimed", "running"} /\ "needs-attention" \in Status
        BY <2>1, RunnableRow DEF Taken, Status
      <3>2. l \in Row /\ l.rcpt = rows[j].rcpt /\ l.mail = rows[j].mail
        BY <3>1, LeasedToRow
      <3>. HIDE DEF l
      <3>3. n \in Row /\ n.st = "needs-attention" /\ n.token = 0 /\ n.rcpt = rows[j].rcpt /\ n.mail = rows[j].mail
        BY <3>1, <3>2, UnleasedRow
      <3>4. job'[j] = n
        BY <2>1, PreparedRows DEF Rows, l
      <3>. HIDE DEF n
      <3>5. /\ Exists(j) /\ job[j].st # "completed"
            /\ rows[j].rcpt = job[j].rcpt /\ rows[j].mail = job[j].mail
        <4>1. CASE rows[j] = job[j]
          BY <3>1, <4>1, NullAssumption DEF NullAssumption, Exists
        <4>2. CASE Ends(j, rows[j])
          <5>1. job[j] \in Row /\ job[j].st \in {"claimed", "running"} /\ Exists(j) /\ "failed" \in Status
            BY <4>2 DEF Ends, Leased, In, Exists, Rows, Status
          <5>. QED  BY <4>2, <5>1, UnleasedRow DEF Ends
        <4>3. CASE j \in Canary /\ job[j] = NoRow /\ rows[j] = Queued(FALSE)
          <5>1. rows[j] # NoRow
            BY <3>1, NullAssumption DEF NullAssumption
          <5>. QED  BY <2>1, <4>3, <5>1 DEF Taken, Exists
        <4>. QED  BY <4>1, <4>2, <4>3, PreparedRows
      <3>6. Halts(job[j], job'[j])
        BY <3>3, <3>4, <3>5 DEF Halts
      <3>. QED  BY <2>3, <3>5, <3>6 DEF RowStep
    <2>. QED  BY <2>2, <2>3
  <1>8. ASSUME NEW w \in Worker, FindsNothing(w)
        PROVE  RowStep(k)
    BY <1>8, PreparedStep DEF FindsNothing
  <1>9. ASSUME NEW w \in Worker, Heartbeat(w)
        PROVE  RowStep(k)
    <2>. DEFINE j == worker[w].job
    <2>1. /\ j \in Job /\ job[j] \in Row /\ Exists(j) /\ job[j].left > 0
          /\ job[j].st \in {"claimed", "running"} /\ Lease \in -Grace..Lease /\ "needs-attention" \in Status
      BY <1>9, Times DEF Heartbeat, Beating, LeaseStands, Leased, In, Exists, Typed, Busy, Rows, Status
    <2>2. CASE j \in bound
      <3>1. job' = [job EXCEPT ![j] = [job[j] EXCEPT !.left = Lease]]
        BY <1>9, <2>2 DEF Heartbeat
      <3>2. Ages(job[j], [job[j] EXCEPT !.left = Lease])
        BY <2>1, TimedRow DEF Ages
      <3>. QED  BY <2>1, <3>1, <3>2, OneRow
    <2>3. CASE j \notin bound
      <3>1. job' = [job EXCEPT ![j] = Unleased(job[j], "needs-attention")]
        BY <1>9, <2>3 DEF Heartbeat
      <3>2. Halts(job[j], Unleased(job[j], "needs-attention"))
        BY <2>1, UnleasedRow DEF Halts
      <3>. QED  BY <2>1, <3>1, <3>2, OneRow
    <2>. QED  BY <2>2, <2>3
  <1>10. ASSUME NEW m \in wire, NEW answered \in BOOLEAN, Receive(m, answered)
         PROVE  RowStep(k)
    <2>. DEFINE j == m.job
                o == job[j]
                n == Reported(m)
    <2>1. CASE ~Accepts(m)
      BY <1>10, <2>1 DEF Receive, RowStep
    <2>2. CASE Accepts(m)
      <3>1. m \in Letter /\ j \in Job /\ Leased(j) /\ o \in Row /\ Exists(j) /\ o.st \in Underway /\ o.left > 0
            /\ o.token = m.token
        BY <2>2 DEF Letter, Accepts, LeaseStands, Leased, In, Exists, Rows, Underway
      <3>2. job' = [job EXCEPT ![j] = n]
        BY <1>10, <2>2 DEF Receive
      <3>3. CASE j \in bound /\ m.want = "running"
        <4>1. Runs(o, n)
          BY <3>1, <3>3, ReportedRow DEF Runs, Kept
        <4>. QED  BY <3>1, <3>2, <4>1, OneRow
      <3>4. CASE j \in bound /\ m.want = "waiting-email"
        <4>1. Dropped(o, n) /\ n.st = "waiting-email" /\ n.sub = m.token
          BY <3>1, <3>4, ReportedRow
        <4>2. job'[j] = n /\ (k # j => job'[k] = job[k])
          BY <3>1, <3>2 DEF Rows
        <4>. HIDE DEF n
        <4>3. Submits(j)
          BY <3>1, <3>4, <4>1, <4>2 DEF Submits, Dropped
        <4>. QED  BY <4>2, <4>3 DEF RowStep
      <3>5. CASE j \notin bound \/ m.want \in {"needs-attention", "failed"}
        <4>1. Dropped(o, n) /\ n.st \in {"needs-attention", "failed"}
          BY <3>1, <3>5, ReportedRow
        <4>2. Halts(o, n)
          BY <3>1, <4>1 DEF Halts, Dropped, Underway
        <4>. QED  BY <3>1, <3>2, <4>2, OneRow
      <3>. QED  BY <3>3, <3>4, <3>5 DEF Outcomes
    <2>. QED  BY <2>1, <2>2
  <1>11. ASSUME NEW i \in poll, Delivered(i) \/ DeliveredCut(i)
         PROVE  RowStep(k)
    <2>1. i \in Search
      OBVIOUS
    <2>2. \/ Fits(i) /\ <<i.job, i.rcpt>> \in asked /\ job' = Completed(i)
          \/ job' = Moved(i, "needs-attention")
      BY <1>11 DEF Delivered, DeliveredCut
    <2>. QED  BY <2>1, <2>2, CompletedStep, MovedStep
  <1>12. ASSUME NEW i \in poll, Rejected(i) \/ Overdue(i) \/ NotYet(i)
         PROVE  RowStep(k)
    <2>1. i \in Search
      OBVIOUS
    <2>2. job' = Moved(i, "needs-attention") \/ job' = Moved(i, "failed") \/ job' = job
      BY <1>12 DEF Rejected, Overdue, NotYet
    <2>3. job' = job => RowStep(k)
      BY DEF RowStep
    <2>. QED  BY <2>1, <2>2, <2>3, MovedStep
  <1>13. ASSUME NEW i \in poll, Drifted(i)
         PROVE  RowStep(k)
    <2>1. i \in Search
      OBVIOUS
    <2>2. CASE job' = Moved(i, "needs-attention")
      BY <2>1, <2>2, MovedStep
    <2>3. CASE \E c \in Canary : ~Exists(c) /\ job' = Renewed(Moved(i, "needs-attention"), c)
      <3>1. PICK c \in Canary : ~Exists(c) /\ job' = Renewed(Moved(i, "needs-attention"), c)
        BY <2>3
      <3>2. Moved(i, "needs-attention") \in Rows
        BY <2>1, MovedRows
      <3>3. job' = [Moved(i, "needs-attention") EXCEPT ![c] = Queued(FALSE)]
        BY <3>1 DEF Renewed
      <3>4. k = c => Appears(k)
        BY <3>1, <3>2, <3>3 DEF Appears, Rows
      <3>5. k # c => job'[k] = Moved(i, "needs-attention")[k]
        BY <3>2, <3>3 DEF Rows
      <3>. QED  BY <2>1, <3>4, <3>5, MovedStep DEF RowStep
    <2>. QED  BY <1>13, <2>2, <2>3 DEF Drifted
  <1>14. CASE Maintain \/ PollBegins
    BY <1>14, ExpiredPrepared, PreparedStep DEF Maintain, PollBegins
  <1>15. CASE Tick
    <2>1. CASE Exists(k)
      <3>1. job'[k] = Ticked(job[k]) /\ job[k] \in Row
        BY <1>15, <2>1 DEF Tick, Ticked, Exists, Rows
      <3>2. Ages(job[k], job'[k])
        BY <3>1, TickedRow, RowFields, Times DEF Ages, Less
      <3>. QED  BY <2>1, <3>2 DEF RowStep
    <2>2. CASE ~Exists(k)
      BY <1>15, <2>2 DEF Tick, RowStep
    <2>. QED  BY <2>1, <2>2
  <1>16. CASE job' = job
    BY <1>16 DEF RowStep
  <1>17. ASSUME NEW w \in Worker,
                \/ ClaimArrives(w) \/ ClaimLost(w) \/ Drive(w) \/ GiveUp(w) \/ Abandon(w) \/ HeartbeatRefused(w)
                \/ \E lost \in BOOLEAN : HeartbeatArrives(w, lost)
                \/ \E c \in screen[w], submits \in BOOLEAN : CommandEnds(w, c, submits)
                \/ \E st \in Status : Report(w, st)
         PROVE  RowStep(k)
    BY <1>16, <1>17 DEF ClaimArrives, ClaimLost, Drive, GiveUp, Abandon, HeartbeatRefused, HeartbeatArrives,
                        CommandEnds, Report
  <1>18. CASE Rename \/ ApprovalAges \/ UNCHANGED vars
    BY <1>16, <1>18 DEF Rename, ApprovalAges, vars
  <1>. QED
    BY <1>1, <1>2, <1>3, <1>4, <1>5, <1>6, <1>7, <1>8, <1>9, <1>10, <1>11, <1>12, <1>13, <1>14,
       <1>15, <1>17, <1>18 DEF Next

-----------------------------------------------------------------------------
(* What a step can make of workers, phones and letters *)

AtJob(w) == worker[w].phase # "idle"

\* A worker stays at its attempt, leaves it, or begins the next attempt of a job.
WorkerStep(w) ==
    \/ ~AtJob(w)'
    \/ AtJob(w) /\ worker'[w].job = worker[w].job /\ worker'[w].token = worker[w].token
    \/ \E j \in Job : /\ worker'[w].job = j /\ worker'[w].token = claims[j] + 1 /\ Claims(j)
                      /\ job'[j].rcpt = claims[j] + 1

\* Commands are of the attempt of the worker.
ScreenStep(w) == \A c \in screen'[w] :
    \/ \E d \in screen[w] : d.job = c.job /\ d.token = c.token
    \/ AtJob(w) /\ c.job = worker[w].job /\ c.token = worker[w].token

\* So are letters, and only a submission that was made is reported.
LetterStep(m) ==
    \/ m \in wire
    \/ /\ m.owner \in Worker /\ AtJob(m.owner)
       /\ m.job = worker[m.owner].job /\ m.token = worker[m.owner].token
       /\ m.want \in {"running", "waiting-email", "needs-attention", "failed"}
       /\ m.want = "waiting-email" => <<m.job, m.token>> \in asked

\* A step of worker w that leaves the others alone.
LEMMA OneWorker ==
    ASSUME Typed, NEW w \in Worker, NEW s, worker' = [worker EXCEPT ![w] = s],
           s.phase = "idle" \/ (AtJob(w) /\ s.job = worker[w].job /\ s.token = worker[w].token)
    PROVE  \A v \in Worker : WorkerStep(v)
  BY TypedState DEF WorkerStep, AtJob

LEMMA CallSteps ==
    ASSUME Typed, NEW w \in Worker, NEW watch \in 0..Lease, AtJob(w),
           NEW want \in {"running", "waiting-email", "needs-attention", "failed"},
           want = "waiting-email" => <<worker[w].job, worker[w].token>> \in asked,
           Call(w, want, watch)
    PROVE  /\ \A v \in Worker : WorkerStep(v)
           /\ \A m \in wire' : LetterStep(m)
  <1>1. worker[w] \in WorkerState /\ want \in Status
    BY TypedState DEF Status
  <1>2. /\ Caller(worker[w], want, watch).job = worker[w].job
        /\ Caller(worker[w], want, watch).token = worker[w].token
    BY <1>1, CallerState
  <1>3. worker' = [worker EXCEPT ![w] = Caller(worker[w], want, watch)]
    BY <1>1, CallTyped DEF AtJob
  <1>4. \A v \in Worker : WorkerStep(v)
    BY <1>2, <1>3, OneWorker
  <1>5. wire' = wire \cup {[owner |-> w, job |-> worker[w].job, token |-> worker[w].token, want |-> want]}
    BY DEF Call, Message
  <1>6. \A m \in wire' : LetterStep(m)
    BY <1>5 DEF LetterStep
  <1>. QED  BY <1>4, <1>6

\* A claim that is answered.
LEMMA AddressedClaim ==
    ASSUME Typed, NEW w \in Worker, NEW j \in Job, NEW rows \in Prepared, Taken(rows, w, j),
           job' = [rows EXCEPT ![j] = Rotated(LeasedTo(rows[j], j, w))]
    PROVE  Claims(j) /\ job'[j] = Rotated(LeasedTo(rows[j], j, w))
  <1>1. PICK n \in {LeasedTo(rows[j], j, w), Rotated(LeasedTo(rows[j], j, w))} :
          n = Rotated(LeasedTo(rows[j], j, w))
    OBVIOUS
  <1>2. job' = [rows EXCEPT ![j] = n]
    BY <1>1
  <1>3. Claims(j)
    BY <1>2, ClaimedStep
  <1>4. job'[j] = n
    BY <1>2, TypedState, PreparedRows DEF Rows
  <1>. QED  BY <1>1, <1>3, <1>4

LEMMA OtherSteps ==
    ASSUME Typed, [Next]_vars
    PROVE  /\ \A w \in Worker : WorkerStep(w) /\ ScreenStep(w)
           /\ \A m \in wire' : LetterStep(m)
           /\ \A j \in Job : claims'[j] >= claims[j]
           /\ asked \subseteq asked'
  <1>. USE TypedState
  <1>. DEFINE Goal == /\ \A w \in Worker : WorkerStep(w) /\ ScreenStep(w)
                      /\ \A m \in wire' : LetterStep(m)
                      /\ \A j \in Job : claims'[j] >= claims[j]
                      /\ asked \subseteq asked'
  <1>0. ASSUME NEW v \in Worker, worker' = worker
        PROVE  WorkerStep(v)
    BY <1>0 DEF WorkerStep, AtJob
  <1>1. ASSUME NEW v \in Worker, screen' = screen
        PROVE  ScreenStep(v)
    BY <1>1 DEF ScreenStep
  <1>2. ASSUME wire' = wire, NEW m \in wire'
        PROVE  LetterStep(m)
    BY <1>2 DEF LetterStep
  <1>3. ASSUME claims' = claims, NEW j \in Job
        PROVE  claims'[j] >= claims[j]
    BY <1>3
  <1>4. ASSUME NEW w \in Worker, NEW j \in Job, Claim(w, j) \/ ClaimCut(w, j) \/ Park(w, j)
        PROVE  Goal
    <2>1. PICK rows \in Prepared : Taken(rows, w, j)
      BY <1>4 DEF Claim, ClaimCut, Park
    <2>2. screen' = screen /\ wire' = wire /\ asked' = asked
      BY <2>1 DEF Taken
    <2>3. \A k \in Job : claims'[k] >= claims[k]
      <3>1. claims' = [claims EXCEPT ![j] = claims[j] + 1]
        BY <2>1 DEF Taken
      <3>. QED  BY <3>1
    <2>4. ASSUME Claim(w, j)
          PROVE  \A v \in Worker : WorkerStep(v)
      <3>1. PICK r2 \in Prepared :
              /\ Taken(r2, w, j) /\ job' = [r2 EXCEPT ![j] = Rotated(LeasedTo(r2[j], j, w))]
              /\ worker' = [worker EXCEPT ![w] = Claimant(j, claims'[j])]
        BY <2>4 DEF Claim, Claimant
      <3>2. Claims(j) /\ job'[j] = Rotated(LeasedTo(r2[j], j, w)) /\ LeasedTo(r2[j], j, w) \in Row
        <4>1. LeasedTo(r2[j], j, w) \in Row
          BY <3>1, TakenTyped
        <4>2. Claims(j) /\ job'[j] = Rotated(LeasedTo(r2[j], j, w))
          BY <3>1, AddressedClaim
        <4>. QED  BY <4>1, <4>2
      <3>3. job'[j].rcpt = LeasedTo(r2[j], j, w).token /\ job'[j].token = LeasedTo(r2[j], j, w).token
        BY <3>2, RotatedRow
      <3>4. job'[j].token = claims[j] + 1 /\ claims'[j] = claims[j] + 1 /\ claims[j] + 1 \in Nat
        BY <3>2 DEF Claims
      <3>5. Claimant(j, claims'[j]).job = j /\ Claimant(j, claims'[j]).token = claims[j] + 1
        BY <3>4, ClaimantState
      <3>6. WorkerStep(w)
        BY <3>1, <3>2, <3>3, <3>4, <3>5 DEF WorkerStep
      <3>7. \A v \in Worker \ {w} : WorkerStep(v)
        BY <3>1 DEF WorkerStep, AtJob
      <3>. QED  BY <3>6, <3>7
    <2>5. ClaimCut(w, j) \/ Park(w, j) => worker' = worker
      BY DEF ClaimCut, Park
    <2>. QED  BY <1>0, <1>1, <1>2, <1>4, <2>2, <2>3, <2>4, <2>5
  <1>5. ASSUME NEW w \in Worker, ClaimArrives(w)
        PROVE  Goal
    <2>1. Lease - Margin \in 0..Lease /\ AtJob(w) /\ Call(w, "running", Lease - Margin)
      BY <1>5, Times DEF ClaimArrives, AtJob
    <2>2. (\A v \in Worker : WorkerStep(v)) /\ (\A m \in wire' : LetterStep(m))
      BY <2>1, CallSteps
    <2>. QED  BY <1>1, <1>3, <1>5, <2>2 DEF ClaimArrives
  <1>6. ASSUME NEW w \in Worker, ClaimLost(w) \/ Abandon(w) \/ HeartbeatRefused(w)
        PROVE  Goal
    <2>1. worker' = [worker EXCEPT ![w] = Idle]
      BY <1>6 DEF ClaimLost, Abandon, HeartbeatRefused
    <2>2. \A v \in Worker : WorkerStep(v)
      BY <2>1, IdleState, OneWorker
    <2>. QED  BY <1>1, <1>2, <1>3, <1>6, <2>2 DEF ClaimLost, Abandon, HeartbeatRefused
  <1>7. ASSUME NEW w \in Worker, Drive(w)
        PROVE  Goal
    <2>1. \A v \in Worker : ScreenStep(v)
      BY <1>7 DEF Drive, ScreenStep, AtJob
    <2>. QED  BY <1>0, <1>2, <1>3, <1>7, <2>1 DEF Drive
  <1>8. ASSUME NEW w \in Worker, GiveUp(w)
        PROVE  Goal
    <2>1. worker[w] \in WorkerState /\ worker[w].watch \in 0..Lease /\ AtJob(w)
      BY <1>8, StateFields DEF GiveUp, AtJob
    <2>2. CASE Call(w, "failed", worker[w].watch)
      <3>1. (\A v \in Worker : WorkerStep(v)) /\ (\A m \in wire' : LetterStep(m))
        BY <2>1, <2>2, CallSteps
      <3>. QED  BY <1>1, <1>3, <1>8, <3>1 DEF GiveUp
    <2>3. CASE worker' = [worker EXCEPT ![w] = Idle] /\ UNCHANGED wire
      <3>1. \A v \in Worker : WorkerStep(v)
        BY <2>3, IdleState, OneWorker
      <3>. QED  BY <1>1, <1>2, <1>3, <1>8, <2>3, <3>1 DEF GiveUp
    <2>. QED  BY <1>8, <2>2, <2>3 DEF GiveUp
  <1>9. ASSUME NEW w \in Worker, Heartbeat(w)
        PROVE  Goal
    <2>1. worker[w] \in WorkerState /\ AtJob(w)
      BY <1>9 DEF Heartbeat, Beating, AtJob
    <2>2. \/ worker' = [worker EXCEPT ![w] = [worker[w] EXCEPT !.age = 0]]
          \/ worker' = [worker EXCEPT ![w] = Idle]
      BY <1>9 DEF Heartbeat
    <2>3. \A v \in Worker : WorkerStep(v)
      BY <2>1, <2>2, HeardState, IdleState, OneWorker
    <2>. QED  BY <1>1, <1>2, <1>3, <1>9, <2>3 DEF Heartbeat
  <1>10. ASSUME NEW w \in Worker, NEW lost \in BOOLEAN, HeartbeatArrives(w, lost)
         PROVE  Goal
    <2>1. worker[w] \in WorkerState /\ AtJob(w)
      BY <1>10 DEF HeartbeatArrives, Beating, AtJob
    <2>2. worker' = [worker EXCEPT ![w] = Beaten(worker[w], lost)]
      BY <1>10 DEF HeartbeatArrives, Beaten
    <2>3. \A v \in Worker : WorkerStep(v)
      BY <2>1, <2>2, BeatenState, OneWorker
    <2>. QED  BY <1>1, <1>2, <1>3, <1>10, <2>3 DEF HeartbeatArrives
  <1>11. ASSUME NEW w \in Worker, NEW c \in screen[w], NEW submits \in BOOLEAN, CommandEnds(w, c, submits)
         PROVE  Goal
    <2>1. \A v \in Worker : ScreenStep(v)
      BY <1>11 DEF CommandEnds, ScreenStep
    <2>2. asked \subseteq asked'
      BY <1>11 DEF CommandEnds
    <2>. QED  BY <1>0, <1>2, <1>3, <1>11, <2>1, <2>2 DEF CommandEnds
  <1>12. ASSUME NEW w \in Worker, NEW st \in Status, Report(w, st)
         PROVE  Goal
    <2>1. worker[w] \in WorkerState /\ worker[w].watch \in 0..Lease /\ AtJob(w)
      BY <1>12, StateFields DEF Report, AtJob
    <2>2. /\ st \in {"running", "waiting-email", "needs-attention", "failed"}
          /\ st = "waiting-email" => <<worker[w].job, worker[w].token>> \in asked
          /\ Call(w, st, worker[w].watch)
      BY <1>12 DEF Report
    <2>3. (\A v \in Worker : WorkerStep(v)) /\ (\A m \in wire' : LetterStep(m))
      BY <2>1, <2>2, CallSteps
    <2>. QED  BY <1>1, <1>3, <1>12, <2>3 DEF Report
  <1>13. ASSUME NEW m \in wire, NEW answered \in BOOLEAN, Receive(m, answered)
         PROVE  Goal
    <2>. DEFINE w == m.owner
    <2>1. w \in Worker
      BY DEF Letter
    <2>2. \A v \in Worker : WorkerStep(v)
      <3>1. CASE worker' = [worker EXCEPT ![w] = Idle]
        BY <2>1, <3>1, IdleState, OneWorker
      <3>2. CASE worker[w].phase = "calling" /\ worker' = [worker EXCEPT ![w] = Driver(worker[w])]
        <4>1. worker[w] \in WorkerState /\ AtJob(w)
          BY <2>1, <3>2 DEF AtJob
        <4>. QED  BY <2>1, <3>2, <4>1, DriverState, OneWorker
      <3>. QED  BY <1>0, <1>13, <3>1, <3>2 DEF Receive, Driver
    <2>3. \A l \in wire' : LetterStep(l)
      BY <1>13 DEF Receive, LetterStep
    <2>. QED  BY <1>1, <1>3, <1>13, <2>2, <2>3 DEF Receive
  <1>14. CASE Tick
    <2>1. \A w \in Worker : WorkerStep(w)
      <3>1. worker' = [w \in Worker |-> Older(worker[w], Armed(w))]
        BY <1>14 DEF Tick, Older
      <3>2. ASSUME NEW w \in Worker
            PROVE  /\ Older(worker[w], Armed(w)).phase = worker[w].phase
                   /\ Older(worker[w], Armed(w)).job = worker[w].job
                   /\ Older(worker[w], Armed(w)).token = worker[w].token
        <4>1. worker[w] \in WorkerState /\ Armed(w) \in BOOLEAN
          BY DEF Armed
        <4>2. worker[w].age < Limit /\ (Armed(w) => worker[w].watch > 0)
          BY <1>14 DEF Tick
        <4>. QED  BY <4>1, <4>2, OlderState
      <3>. QED  BY <3>1, <3>2 DEF WorkerStep, AtJob
    <2>2. ASSUME NEW w \in Worker
          PROVE  ScreenStep(w)
      <3>1. ASSUME NEW c \in screen'[w]
            PROVE  \E d \in screen[w] : d.job = c.job /\ d.token = c.token
        <4>1. PICK d \in screen[w] : c = [d EXCEPT !.left = @ - 1]
          BY <1>14 DEF Tick
        <4>2. d \in Command
          OBVIOUS
        <4>3. c.job = d.job /\ c.token = d.token
          BY <4>1, <4>2 DEF Command
        <4>. QED  BY <4>3
      <3>. QED  BY <3>1 DEF ScreenStep
    <2>. QED  BY <1>2, <1>3, <1>14, <2>1, <2>2 DEF Tick
  <1>15. ASSUME worker' = worker, screen' = screen, wire' = wire, claims' = claims, asked' = asked
         PROVE  Goal
    BY <1>0, <1>1, <1>2, <1>3, <1>15
  <1>16. ASSUME NEW j \in Job, Enqueue(j) \/ RequestCanary(j) \/ Retry(j) \/ Cancel(j) \/ MailDeadline(j)
         PROVE  Goal
    BY <1>15, <1>16 DEF Enqueue, RequestCanary, Retry, Cancel, MailDeadline
  <1>17. ASSUME NEW i \in poll, Delivered(i) \/ DeliveredCut(i) \/ Rejected(i) \/ Drifted(i) \/ Overdue(i) \/ NotYet(i)
         PROVE  Goal
    BY <1>15, <1>17 DEF Delivered, DeliveredCut, Rejected, Drifted, Overdue, NotYet, SearchEnds
  <1>18. ASSUME NEW w \in Worker, FindsNothing(w)
         PROVE  Goal
    BY <1>15, <1>18 DEF FindsNothing
  <1>19. CASE Rename \/ ApprovalAges \/ Maintain \/ PollBegins \/ UNCHANGED vars
    BY <1>15, <1>19 DEF Rename, ApprovalAges, Maintain, PollBegins, vars
  <1>. QED
    BY <1>4, <1>5, <1>6, <1>7, <1>8, <1>9, <1>10, <1>11, <1>12, <1>13, <1>14, <1>16, <1>17, <1>18,
       <1>19 DEF Next

-----------------------------------------------------------------------------
(* Claims number their attempts, and an attempt has its own mail *)

\* No row, worker, command or letter is of a claim that was not made.
Numbered ==
    /\ \A j \in Job : Exists(j) => job[j].rcpt <= claims[j] /\ job[j].token <= claims[j]
    /\ \A w \in Worker : AtJob(w) => 1 <= worker[w].token /\ worker[w].token <= claims[worker[w].job]
    /\ \A w \in Worker : \A c \in screen[w] : 1 <= c.token /\ c.token <= claims[c.job]
    /\ \A m \in wire : 1 <= m.token /\ m.token <= claims[m.job]

\* While the lease of claim t stands, the address is the one made for it.
Addressed(j, t) == Exists(j) /\ job[j].token = t => job[j].rcpt = t

\* The mail of a row.
RowMail(j) == Exists(j) =>
    /\ job[j].st # "completed" => job[j].mail = 0
    /\ job[j].st = "waiting-email" => job[j].rcpt = job[j].sub /\ <<j, job[j].rcpt>> \in asked
    /\ job[j].st = "completed" => job[j].mail = job[j].rcpt /\ <<j, job[j].mail>> \in asked

Mailed ==
    /\ \A w \in Worker : AtJob(w) => Addressed(worker[w].job, worker[w].token)
    /\ \A m \in wire : /\ Addressed(m.job, m.token)
                       /\ m.want = "waiting-email" => <<m.job, m.token>> \in asked
    /\ \A j \in Job : RowMail(j)

MInv == Typed /\ Outcomes /\ Numbered /\ Mailed

LEMMA MInit == Init => MInv
  <1>. SUFFICES ASSUME Init PROVE MInv
    OBVIOUS
  <1>1. Typed
    BY TypedInit
  <1>2. \A w \in Worker : ~AtJob(w)
    BY IdleState DEF Init, AtJob
  <1>3. \A j \in Job : ~Exists(j)
    BY DEF Init, Exists
  <1>. QED  BY <1>1, <1>2, <1>3 DEF MInv, Outcomes, Numbered, Mailed, RowMail, Init

\* The numbers of a row.
LEMMA RowNumbers ==
    ASSUME MInv, NEW j \in Job, RowStep(j), claims'[j] >= claims[j], claims' \in [Job -> Nat], job' \in Rows,
           Exists(j)'
    PROVE  job'[j].rcpt <= claims'[j] /\ job'[j].token <= claims'[j]
  <1>1. claims[j] \in Nat /\ claims'[j] \in Nat /\ job \in Rows
    BY TypedState DEF MInv
  <1>2. Exists(j) => /\ job[j].rcpt \in Nat /\ job[j].token \in Nat
                     /\ job[j].rcpt <= claims[j] /\ job[j].token <= claims[j]
    BY <1>1, RowFields DEF MInv, Numbered, Exists, Rows
  <1>3. job'[j].rcpt \in Nat /\ job'[j].token \in Nat
    BY RowFields DEF Exists, Rows
  <1>4. CASE job'[j] = job[j]
    BY <1>1, <1>2, <1>3, <1>4 DEF Exists
  <1>5. CASE Appears(j)
    BY <1>1, <1>5, QueuedRow DEF Appears
  <1>6. CASE Submits(j)
    BY <1>1, <1>2, <1>3, <1>6 DEF Submits
  <1>7. CASE Arrives(j)
    BY <1>1, <1>2, <1>3, <1>7 DEF Arrives
  <1>8. CASE Claims(j)
    BY <1>1, <1>2, <1>3, <1>8 DEF Claims
  <1>9. CASE Exists(j) /\ (Ages(job[j], job'[j]) \/ Halts(job[j], job'[j]) \/ Runs(job[j], job'[j])
                     \/ Requeues(job[j], job'[j]))
    BY <1>1, <1>2, <1>3, <1>9 DEF Ages, Halts, Runs, Requeues
  <1>. QED  BY <1>4, <1>5, <1>6, <1>7, <1>8, <1>9 DEF RowStep

\* No step gives an attempt that was made another address.
LEMMA AddressKept ==
    ASSUME MInv, NEW j \in Job, RowStep(j), NEW t \in Nat, 1 <= t, t <= claims[j], Addressed(j, t)
    PROVE  Addressed(j, t)'
  <1>1. claims[j] \in Nat /\ job \in Rows
    BY TypedState DEF MInv
  <1>2. SUFFICES ASSUME Exists(j)', job'[j].token = t
                 PROVE  job'[j].rcpt = t
    BY DEF Addressed
  <1>3. CASE job'[j] = job[j]
    BY <1>2, <1>3 DEF Addressed, Exists
  <1>4. CASE Appears(j) \/ Submits(j) \/ Arrives(j)
    BY <1>2, <1>4, QueuedRow DEF Appears, Submits, Arrives
  <1>5. CASE Claims(j)
    BY <1>1, <1>2, <1>5 DEF Claims
  <1>6. CASE Exists(j) /\ (Ages(job[j], job'[j]) \/ Halts(job[j], job'[j]) \/ Runs(job[j], job'[j])
                     \/ Requeues(job[j], job'[j]))
    BY <1>1, <1>2, <1>6 DEF Ages, Halts, Runs, Requeues, Addressed
  <1>. QED  BY <1>3, <1>4, <1>5, <1>6 DEF RowStep

LEMMA RowMailStep ==
    ASSUME MInv, NEW j \in Job, RowStep(j), asked \subseteq asked'
    PROVE  RowMail(j)'
  <1>1. RowMail(j)
    BY DEF MInv, Mailed
  <1>2. SUFFICES ASSUME Exists(j)'
                 PROVE  /\ job'[j].st # "completed" => job'[j].mail = 0
                        /\ job'[j].st = "waiting-email" => job'[j].rcpt = job'[j].sub /\ <<j, job'[j].rcpt>> \in asked'
                        /\ job'[j].st = "completed" => job'[j].mail = job'[j].rcpt /\ <<j, job'[j].mail>> \in asked'
    BY DEF RowMail
  <1>3. CASE job'[j] = job[j]
    BY <1>1, <1>2, <1>3 DEF RowMail, Exists
  <1>4. CASE Appears(j)
    BY <1>4, QueuedRow DEF Appears
  <1>5. CASE Submits(j)
    <2>1. PICK m \in wire : m.job = j /\ m.token = job[j].token /\ m.want = "waiting-email"
      BY <1>5 DEF Submits
    <2>2. <<j, job[j].token>> \in asked /\ job[j].rcpt = job[j].token
      BY <1>5, <2>1 DEF MInv, Mailed, Addressed, Submits
    <2>. QED  BY <1>1, <1>5, <2>2 DEF Submits, RowMail, Underway
  <1>6. CASE Arrives(j)
    BY <1>1, <1>6 DEF Arrives, RowMail
  <1>7. CASE Claims(j)
    BY <1>1, <1>7 DEF Claims, RowMail, Underway
  <1>8. CASE Exists(j) /\ Ages(job[j], job'[j])
    BY <1>1, <1>8 DEF Ages, RowMail
  <1>9. CASE Exists(j) /\ (Halts(job[j], job'[j]) \/ Runs(job[j], job'[j]) \/ Requeues(job[j], job'[j]))
    BY <1>1, <1>9 DEF Halts, Runs, Requeues, RowMail, Underway
  <1>. QED  BY <1>3, <1>4, <1>5, <1>6, <1>7, <1>8, <1>9 DEF RowStep

LEMMA MStep ==
    ASSUME MInv, [Next]_vars
    PROVE  MInv'
  <1>1. Typed /\ Typed' /\ Outcomes
    BY TypedStep DEF MInv
  <1>2. \A j \in Job : RowStep(j)
    BY <1>1, RowSteps
  <1>3. /\ \A w \in Worker : WorkerStep(w) /\ ScreenStep(w)
        /\ \A m \in wire' : LetterStep(m)
        /\ \A j \in Job : claims'[j] >= claims[j]
        /\ asked \subseteq asked'
    BY <1>1, OtherSteps
  <1>4. /\ job \in Rows /\ job' \in Rows /\ claims \in [Job -> Nat] /\ claims' \in [Job -> Nat]
        /\ worker \in [Worker -> WorkerState] /\ wire \subseteq Letter /\ wire' \subseteq Letter
        /\ screen \in [Worker -> SUBSET Command] /\ screen' \in [Worker -> SUBSET Command]
        /\ worker' \in [Worker -> WorkerState]
    BY <1>1, TypedState, TypedNext
  <1>5. \A w \in Worker : AtJob(w) => worker[w].job \in Job /\ worker[w].token \in Nat
    BY <1>1, <1>4, StateFields DEF Typed, Busy, AtJob
  <1>6. Outcomes'
    BY <1>1, <1>3 DEF Outcomes, LetterStep
  <1>7. \A j \in Job : Exists(j)' => job'[j].rcpt <= claims'[j] /\ job'[j].token <= claims'[j]
    BY <1>2, <1>3, <1>4, RowNumbers
  <1>8. ASSUME NEW w \in Worker, AtJob(w)'
        PROVE  /\ 1 <= worker'[w].token /\ worker'[w].token <= claims'[worker'[w].job]
               /\ Addressed(worker[w].job, worker[w].token)'
    <2>1. CASE AtJob(w) /\ worker'[w].job = worker[w].job /\ worker'[w].token = worker[w].token
      <3>. DEFINE j == worker[w].job
                  t == worker[w].token
      <3>1. j \in Job /\ t \in Nat /\ 1 <= t /\ t <= claims[j] /\ Addressed(j, t)
        BY <1>5, <2>1 DEF MInv, Numbered, Mailed
      <3>2. claims[j] \in Nat /\ claims'[j] \in Nat /\ claims'[j] >= claims[j]
        BY <1>3, <1>4, <3>1
      <3>3. job'[j] # NoRow /\ job'[j].token = t => job'[j].rcpt = t
        BY <1>2, <3>1, AddressKept DEF Addressed, Exists
      <3>. QED  BY <2>1, <3>1, <3>2, <3>3 DEF Addressed, Exists
    <2>2. CASE \E j \in Job : /\ worker'[w].job = j /\ worker'[w].token = claims[j] + 1 /\ Claims(j)
                              /\ job'[j].rcpt = claims[j] + 1
      <3>1. PICK j \in Job : /\ worker'[w].job = j /\ worker'[w].token = claims[j] + 1 /\ Claims(j)
                             /\ job'[j].rcpt = claims[j] + 1
        BY <2>2
      <3>2. claims[j] \in Nat /\ claims'[j] = claims[j] + 1
        BY <1>4, <3>1 DEF Claims
      <3>. QED  BY <3>1, <3>2 DEF Addressed
    <2>. QED  BY <1>3, <1>8, <2>1, <2>2 DEF WorkerStep
  <1>9. ASSUME NEW w \in Worker, NEW c \in screen'[w]
        PROVE  1 <= c.token /\ c.token <= claims'[c.job]
    <2>1. c.job \in Job /\ c.token \in Nat
      BY <1>4 DEF Command
    <2>2. 1 <= c.token /\ c.token <= claims[c.job]
      BY <1>3 DEF ScreenStep, MInv, Numbered
    <2>3. claims[c.job] \in Nat /\ claims'[c.job] \in Nat /\ claims'[c.job] >= claims[c.job]
      BY <1>3, <1>4, <2>1
    <2>. QED  BY <2>1, <2>2, <2>3
  <1>10. ASSUME NEW m \in wire'
         PROVE  /\ 1 <= m.token /\ m.token <= claims'[m.job]
                /\ Addressed(m.job, m.token)'
                /\ m.want = "waiting-email" => <<m.job, m.token>> \in asked'
    <2>1. m.job \in Job /\ m.token \in Nat
      BY <1>4 DEF Letter
    <2>2. /\ 1 <= m.token /\ m.token <= claims[m.job] /\ Addressed(m.job, m.token)
          /\ m.want = "waiting-email" => <<m.job, m.token>> \in asked
      BY <1>3 DEF LetterStep, MInv, Numbered, Mailed
    <2>3. claims[m.job] \in Nat /\ claims'[m.job] \in Nat /\ claims'[m.job] >= claims[m.job]
      BY <1>3, <1>4, <2>1
    <2>4. Addressed(m.job, m.token)'
      BY <1>2, <2>1, <2>2, AddressKept
    <2>. QED  BY <1>3, <2>1, <2>2, <2>3, <2>4
  <1>11. \A j \in Job : RowMail(j)'
    BY <1>2, <1>3, RowMailStep
  <1>12. Numbered'
    BY <1>7, <1>8, <1>9, <1>10 DEF Numbered
  <1>13. Mailed'
    BY <1>8, <1>10, <1>11 DEF Mailed
  <1>. QED  BY <1>1, <1>6, <1>12, <1>13 DEF MInv

LEMMA MAlways == Spec => []MInv
  BY MInit, MStep, PTL DEF Spec

\* A job waits for, and is done by, the mail that its present attempt asked
\* for (transitionTapoHistoryExportJob, completeTapoHistoryExportJobWithSamples).
THEOREM OwnMailCorrect == Spec => []OwnMail
  <1>1. MInv => OwnMail
    BY DEF MInv, Mailed, RowMail, OwnMail, Waiting, In, Exists
  <1>. QED  BY <1>1, MAlways, PTL

-----------------------------------------------------------------------------
(* The queue implements the requests *)

\* What the requests see of a job.
Round(j)  == IF Exists(j) THEN job[j].rcpt ELSE 0
Source(j) == IF Exists(j) THEN job[j].mail ELSE 0

\* A step of a row is a step of its request.
RequestStep(j) ==
    \/ Stage(j)' = Stage(j) /\ Round(j)' = Round(j) /\ Source(j)' = Source(j)
    \/ /\ Stage(j) # "done" /\ Stage(j)' = "open"
       /\ Round(j)' >= Round(j) /\ Source(j)' = Source(j)
    \/ /\ Stage(j) = "open" /\ Stage(j)' = "waiting" /\ <<j, Round(j)>> \in asked
       /\ Round(j)' = Round(j) /\ Source(j)' = Source(j)
    \/ /\ Stage(j) \in {"open", "waiting", "stopped"} /\ Stage(j)' = "stopped"
       /\ Round(j)' = Round(j) /\ Source(j)' = Source(j)
    \/ /\ Stage(j) = "waiting" /\ Stage(j)' = "done"
       /\ Round(j)' = Round(j) /\ Source(j)' = Round(j)

\* The stage of a row.
LEMMA Stages ==
    ASSUME job \in Rows, NEW j \in Job
    PROVE  /\ ~Exists(j) => Stage(j) = "none"
           /\ Exists(j) =>
                /\ job[j].st \in Status
                /\ job[j].st \in {"queued", "claimed", "running", "failed"} => Stage(j) = "open"
                /\ job[j].st = "waiting-email" => Stage(j) = "waiting"
                /\ job[j].st = "completed" => Stage(j) = "done"
                /\ job[j].st \in {"needs-attention", "cancelled"} => Stage(j) = "stopped"
  <1>1. Exists(j) => job[j].st \in Status
    BY RowFields DEF Exists, Rows
  <1>. QED  BY <1>1 DEF Stage, In, Waiting, Exists

LEMMA StagesNext ==
    ASSUME job' \in Rows, NEW j \in Job
    PROVE  /\ Exists(j)' =>
                /\ job'[j].st \in {"queued", "claimed", "running", "failed"} => Stage(j)' = "open"
                /\ job'[j].st = "waiting-email" => Stage(j)' = "waiting"
                /\ job'[j].st = "completed" => Stage(j)' = "done"
                /\ job'[j].st \in {"needs-attention", "cancelled"} => Stage(j)' = "stopped"
  BY DEF Stage, In, Waiting, Exists

LEMMA RowIsRequestStep ==
    ASSUME MInv, NEW j \in Job, RowStep(j), job' \in Rows
    PROVE  RequestStep(j)
  <1>. DEFINE o == job[j]
              n == job'[j]
  <1>1. job \in Rows /\ claims[j] \in Nat
    BY TypedState DEF MInv
  <1>2. RowMail(j) /\ (Exists(j) => o.rcpt <= claims[j] /\ o.rcpt \in Nat)
    BY <1>1, RowFields DEF MInv, Mailed, Numbered, Exists, Rows
  <1>3. CASE n = o
    BY <1>3 DEF RequestStep, Stage, Round, Source, Exists, In, Waiting
  <1>4. CASE Appears(j)
    <2>1. n \in Row /\ n.st = "queued" /\ n.rcpt = 0 /\ n.mail = 0 /\ Exists(j)'
      BY <1>4, QueuedRow, NullAssumption DEF Appears, Exists, NullAssumption
    <2>2. Stage(j) = "none" /\ Stage(j)' = "open"
      BY <1>1, <1>4, <2>1, Stages, StagesNext DEF Appears
    <2>3. Round(j) = 0 /\ Round(j)' = 0 /\ Source(j) = 0 /\ Source(j)' = 0
      BY <1>4, <2>1 DEF Round, Source, Appears
    <2>. QED  BY <2>2, <2>3 DEF RequestStep
  <1>5. ASSUME n \in Row
        PROVE  Exists(j)' /\ Round(j)' = n.rcpt /\ Source(j)' = n.mail
    BY <1>5, NullAssumption DEF Exists, NullAssumption, Round, Source
  <1>6. ASSUME Exists(j)
        PROVE  Round(j) = o.rcpt /\ Source(j) = o.mail
    BY <1>6 DEF Round, Source
  <1>7. CASE Submits(j)
    <2>1. PICK m \in wire : m.job = j /\ m.token = o.token /\ m.want = "waiting-email"
      BY <1>7 DEF Submits
    <2>2. <<j, o.token>> \in asked /\ o.rcpt = o.token
      BY <1>7, <2>1 DEF MInv, Mailed, Addressed, Submits
    <2>3. Stage(j) = "open" /\ Stage(j)' = "waiting"
      BY <1>1, <1>5, <1>7, Stages, StagesNext DEF Submits, Underway
    <2>. QED  BY <1>5, <1>6, <1>7, <2>2, <2>3 DEF Submits, RequestStep
  <1>8. CASE Arrives(j)
    <2>1. Stage(j) = "waiting" /\ Stage(j)' = "done"
      BY <1>1, <1>5, <1>8, Stages, StagesNext DEF Arrives
    <2>. QED  BY <1>5, <1>6, <1>8, <2>1 DEF Arrives, RequestStep
  <1>9. CASE Claims(j)
    <2>1. n \in Row /\ Stage(j)' = "open"
      BY <1>5, <1>9, StagesNext DEF Claims
    <2>2. CASE Exists(j)
      <3>1. Stage(j) = "open" /\ o.mail = 0
        BY <1>1, <1>2, <1>9, <2>2, Stages DEF Claims, Underway, RowMail
      <3>2. n.rcpt >= o.rcpt /\ n.mail = o.mail
        BY <1>1, <1>2, <1>9, <2>2, <3>1 DEF Claims
      <3>. QED  BY <1>5, <1>6, <2>1, <2>2, <3>1, <3>2 DEF RequestStep
    <2>3. CASE ~Exists(j)
      <3>1. Stage(j) = "none" /\ Round(j) = 0 /\ Source(j) = 0
        BY <1>1, <2>3, Stages DEF Round, Source
      <3>2. n.rcpt >= 0 /\ n.mail = 0
        BY <1>1, <1>9, <2>3 DEF Claims
      <3>. QED  BY <1>5, <2>1, <3>1, <3>2 DEF RequestStep
    <2>. QED  BY <2>2, <2>3
  <1>10. CASE Exists(j) /\ Ages(o, n)
    <2>1. Stage(j)' = Stage(j)
      BY <1>1, <1>5, <1>10, Stages, StagesNext DEF Ages, Status
    <2>. QED  BY <1>5, <1>6, <1>10, <2>1 DEF Ages, RequestStep
  <1>11. CASE Exists(j) /\ Halts(o, n)
    <2>1. Stage(j) \in {"open", "waiting", "stopped"}
      BY <1>1, <1>11, Stages DEF Halts, Status
    <2>2. Stage(j)' \in {"open", "stopped"}
      BY <1>5, <1>11, StagesNext DEF Halts
    <2>3. n.rcpt = o.rcpt /\ n.rcpt >= o.rcpt /\ n.mail = o.mail /\ n \in Row
      BY <1>2, <1>11 DEF Halts
    <2>. QED  BY <1>5, <1>6, <1>11, <2>1, <2>2, <2>3 DEF RequestStep
  <1>12. CASE Exists(j) /\ Runs(o, n)
    <2>1. Stage(j) = "open" /\ Stage(j)' = "open"
      BY <1>1, <1>5, <1>12, Stages, StagesNext DEF Runs, Underway
    <2>. QED  BY <1>5, <1>6, <1>12, <2>1 DEF Runs, RequestStep
  <1>13. CASE Exists(j) /\ Requeues(o, n)
    <2>1. Stage(j) \in {"open", "stopped"} /\ Stage(j)' = "open"
      BY <1>1, <1>5, <1>13, Stages, StagesNext DEF Requeues
    <2>2. n.rcpt >= o.rcpt /\ n.mail = o.mail /\ n \in Row
      BY <1>2, <1>13 DEF Requeues, RowMail
    <2>. QED  BY <1>5, <1>6, <1>13, <2>1, <2>2 DEF RequestStep
  <1>. QED
    BY <1>3, <1>4, <1>7, <1>8, <1>9, <1>10, <1>11, <1>12, <1>13 DEF RowStep

LEMMA StepImplements ==
    ASSUME MInv, [Next]_vars
    PROVE  Requests!Next
  <1>1. Typed /\ Typed' /\ Outcomes
    BY TypedStep DEF MInv
  <1>2. asked \subseteq asked' /\ job \in Rows /\ job' \in Rows
    BY <1>1, OtherSteps, TypedState, TypedNext
  <1>3. ASSUME NEW j \in Job
        PROVE  /\ RequestStep(j)
               /\ Stage(j) \in {"none", "open", "waiting", "stopped", "done"}
    <2>1. RowStep(j)
      BY <1>1, RowSteps
    <2>. QED  BY <1>2, <2>1, RowIsRequestStep DEF Stage
  <1>4. ASSUME NEW j \in Job
        PROVE  Requests!Keep(j) \/ Requests!Opens(j) \/ Requests!Waits(j) \/ Requests!Stops(j) \/ Requests!Finishes(j)
    <2>1. CASE Stage(j)' = Stage(j) /\ Round(j)' = Round(j) /\ Source(j)' = Source(j)
      BY <2>1 DEF Requests!Keep, Round, Source
    <2>2. CASE /\ Stage(j) # "done" /\ Stage(j)' = "open"
               /\ Round(j)' >= Round(j) /\ Source(j)' = Source(j)
      BY <1>3, <2>2 DEF Requests!Opens, Round, Source
    <2>3. CASE /\ Stage(j) = "open" /\ Stage(j)' = "waiting" /\ <<j, Round(j)>> \in asked
               /\ Round(j)' = Round(j) /\ Source(j)' = Source(j)
      BY <2>3 DEF Requests!Waits, Round, Source
    <2>4. CASE /\ Stage(j) \in {"open", "waiting", "stopped"} /\ Stage(j)' = "stopped"
               /\ Round(j)' = Round(j) /\ Source(j)' = Source(j)
      BY <2>4 DEF Requests!Stops, Round, Source
    <2>5. CASE /\ Stage(j) = "waiting" /\ Stage(j)' = "done"
               /\ Round(j)' = Round(j) /\ Source(j)' = Round(j)
      BY <2>5 DEF Requests!Finishes, Round, Source
    <2>. QED  BY <1>3, <2>1, <2>2, <2>3, <2>4, <2>5 DEF RequestStep
  <1>. QED  BY <1>2, <1>4 DEF Requests!Next

\* The queue, its leases and the mailbox poll implement the requests: a request
\* waits only for mail its present round asked for, whatever is lost or late,
\* and once its mail finished it, it stays finished.
THEOREM RequestsImplemented == Spec => ImplementsRequests
  <1>1. Init => Requests!Init
    BY DEF Init, Requests!Init, Stage, Exists
  <1>. QED  BY <1>1, StepImplements, MAlways, PTL DEF Spec, ImplementsRequests, Requests!Spec

-----------------------------------------------------------------------------
(* The limit on outstanding exports *)

\* Only a claim makes an export outstanding.
LEMMA NewlyOutstanding ==
    ASSUME Typed, Typed', NEW j \in Job, RowStep(j), j \in Outstanding', ~Claims(j)
    PROVE  j \in Outstanding
  <1>1. job \in Rows /\ job' \in Rows /\ Grace \in Nat
    BY TypedState, TypedNext, Times
  <1>2. /\ Exists(j)' /\ job'[j].st \in {"claimed", "running", "waiting-email"}
        /\ job'[j].st \in {"claimed", "running"} => job'[j].left > -Grace
    BY DEF Outstanding, Waiting, Leased, Held, In, Exists
  <1>3. job'[j] \in Row /\ job'[j].left \in Int
    BY <1>1, <1>2, RowFields DEF Exists, Rows
  <1>4. Exists(j) => job[j] \in Row /\ job[j].left \in Int
    BY <1>1, RowFields DEF Exists, Rows
  <1>5. CASE job'[j] = job[j]
    BY <1>2, <1>5 DEF Outstanding, Waiting, Leased, Held, In, Exists
  <1>6. CASE Appears(j)
    BY <1>2, <1>6, QueuedRow DEF Appears
  <1>7. CASE Submits(j)
    BY <1>1, <1>4, <1>7 DEF Submits, Underway, Outstanding, Leased, Held, In
  <1>8. CASE Arrives(j)
    BY <1>2, <1>8 DEF Arrives
  <1>9. CASE Exists(j) /\ Ages(job[j], job'[j])
    BY <1>1, <1>2, <1>3, <1>4, <1>9 DEF Ages, Outstanding, Waiting, Leased, Held, In
  <1>10. CASE Exists(j) /\ (Halts(job[j], job'[j]) \/ Requeues(job[j], job'[j]))
    BY <1>2, <1>10 DEF Halts, Requeues
  <1>11. CASE Exists(j) /\ Runs(job[j], job'[j])
    BY <1>1, <1>4, <1>11 DEF Runs, Underway, Outstanding, Leased, Held, In
  <1>. QED  BY <1>5, <1>6, <1>7, <1>8, <1>9, <1>10, <1>11 DEF RowStep

\* A step claims one job at most, and only below the limit.
LEMMA ClaimAdmits ==
    ASSUME Typed, [Next]_vars, NEW j \in Job, Claims(j)
    PROVE  Cardinality(Outstanding) < MaxPending /\ \A k \in Job \ {j} : ~Claims(k)
  <1>1. claims \in [Job -> Nat] /\ job \in Rows
    BY TypedState
  <1>2. claims'[j] # claims[j]
    BY <1>1 DEF Claims
  <1>3. PICK w \in Worker, i \in Job : Claim(w, i) \/ ClaimCut(w, i) \/ Park(w, i)
    <2>1. claims' # claims
      BY <1>2
    <2>. QED
      BY <2>1 DEF Next, vars, Enqueue, RequestCanary, Retry, Cancel, MailDeadline, ClaimArrives, ClaimLost, Call,
                  FindsNothing, Drive, GiveUp, Abandon, Heartbeat, HeartbeatRefused, HeartbeatArrives, CommandEnds,
                  Report, Receive, Delivered, DeliveredCut, Rejected, Drifted, Overdue, NotYet, SearchEnds, Rename,
                  ApprovalAges, Maintain, PollBegins, Tick
  <1>4. PICK rows \in Prepared : Taken(rows, w, i)
    BY <1>3 DEF Claim, ClaimCut, Park
  <1>5. Cardinality(Outstanding) < MaxPending /\ claims' = [claims EXCEPT ![i] = claims[i] + 1]
    BY <1>4 DEF Taken, Admits
  <1>6. \A k \in Job : k # i => claims'[k] = claims[k]
    BY <1>1, <1>5
  <1>7. \A k \in Job : Claims(k) => k = i
    BY <1>1, <1>6 DEF Claims
  <1>. QED  BY <1>5, <1>7

LEMMA PInit == Init => PendingBounded
  <1>. SUFFICES ASSUME Init PROVE PendingBounded
    OBVIOUS
  <1>1. Outstanding = {}
    BY DEF Init, Outstanding, Waiting, Leased, In, Exists
  <1>. QED  BY <1>1, FS_EmptySet, CountAssumption DEF PendingBounded, CountAssumption

LEMMA PStep ==
    ASSUME MInv, PendingBounded, [Next]_vars
    PROVE  PendingBounded'
  <1>1. Typed /\ Typed' /\ Outcomes
    BY TypedStep DEF MInv
  <1>2. \A j \in Job : RowStep(j)
    BY <1>1, RowSteps
  <1>3. IsFiniteSet(Outstanding) /\ IsFiniteSet(Outstanding') /\ Outstanding' \subseteq Job
    BY FS_Subset, JobAssumption DEF JobAssumption, Outstanding
  <1>4. Cardinality(Outstanding) \in Nat /\ Cardinality(Outstanding') \in Nat /\ MaxPending \in Nat
    BY <1>3, FS_CardinalityType, CountAssumption DEF CountAssumption
  <1>5. CASE \A j \in Job : ~Claims(j)
    <2>1. Outstanding' \subseteq Outstanding
      BY <1>1, <1>2, <1>3, <1>5, NewlyOutstanding
    <2>2. Cardinality(Outstanding') <= Cardinality(Outstanding)
      BY <1>3, <2>1, FS_Subset
    <2>. QED  BY <1>4, <2>2 DEF PendingBounded
  <1>6. CASE \E j \in Job : Claims(j)
    <2>1. PICK j \in Job : Claims(j)
      BY <1>6
    <2>2. Cardinality(Outstanding) < MaxPending /\ \A k \in Job \ {j} : ~Claims(k)
      BY <1>1, <2>1, ClaimAdmits
    <2>3. Outstanding' \subseteq Outstanding \cup {j}
      BY <1>1, <1>2, <1>3, <2>2, NewlyOutstanding
    <2>4. /\ IsFiniteSet(Outstanding \cup {j})
          /\ Cardinality(Outstanding \cup {j}) = IF j \in Outstanding THEN Cardinality(Outstanding)
                                                 ELSE Cardinality(Outstanding) + 1
      BY <1>3, FS_AddElement
    <2>5. Cardinality(Outstanding') <= Cardinality(Outstanding \cup {j})
      BY <2>3, <2>4, FS_Subset
    <2>. QED  BY <1>4, <2>2, <2>4, <2>5 DEF PendingBounded
  <1>. QED  BY <1>5, <1>6

\* No more exports than the operator allows are under way or wait for mail,
\* however many workers claim, lose answers or crash (claimNextTapoHistoryExportJob
\* counts and leases in one transaction).
THEOREM PendingCorrect == Spec => []PendingBounded
  BY PInit, PStep, MAlways, PTL DEF Spec

-----------------------------------------------------------------------------
(* The fence: a phone is not driven for two attempts at once *)

\* The row is under claim t by w, and lasts longer than n with its grace.
Fences(w, j, t, n) ==
    Exists(j) /\ job[j].owner = w /\ job[j].token = t /\ job[j].left + Grace > n

Free(j, t) == <<j, t>> \in unfenced

\* The worker drives, or will when its claim or its first report is answered.
MayDrive(w) ==
    \/ worker[w].phase \in {"claiming", "driving"}
    \/ worker[w].phase = "calling" /\ worker[w].want = "running"

\* The attempt has a command on the phone, or may still send one.
Engaged(w, j, t) ==
    \/ \E c \in screen[w] : c.job = j /\ c.token = t
    \/ MayDrive(w) /\ worker[w].job = j /\ worker[w].token = t

\* Every command ends before the row stops other claims.
Covered(w) == \A c \in screen[w] : Free(c.job, c.token) \/ Fences(w, c.job, c.token, c.left)

\* The lease outlives the watchdog of its worker by the margin, less the time
\* an answer took, and that of a renewal by the time its answer takes.
Leases(w) == MayDrive(w) =>
    \/ Free(worker[w].job, worker[w].token)
    \/ LET r == job[worker[w].job] IN
       /\ Exists(worker[w].job) /\ r.owner = w /\ r.token = worker[w].token
       /\ worker[w].phase = "claiming" => worker[w].age >= 0
       /\ worker[w].phase # "claiming" => r.left >= worker[w].watch + Margin - Limit
       /\ worker[w].age >= 0 => r.left >= Lease - worker[w].age

\* A worker has no command of its own on the phone before it drives, or when
\* it reports.
Clear(w) == worker[w].phase \in {"claiming", "calling"} => Own(w) = {}

\* A report that ends the lease is made when the attempt is over.
LetterOK(m) == m.want # "running" => ~Engaged(m.owner, m.job, m.token)

\* A phone has one lease.
OneLease == \A j, k \in Job :
    Held(j) /\ Held(k) /\ job[j].owner = job[k].owner /\ job[j].owner \in Worker => j = k

\* A row that may be claimed waits until its lease is over with its grace; a
\* job that waits for mail has no lease.
RowTimes(j) == Exists(j) =>
    /\ job[j].st \in {"queued", "failed"} => job[j].wait >= job[j].left + Grace
    /\ job[j].st = "waiting-email" => job[j].left = -Grace

FInv ==
    /\ MInv
    /\ \A w \in Worker : Covered(w) /\ Leases(w) /\ Clear(w)
    /\ \A m \in wire : LetterOK(m)
    /\ \A j \in Job : RowTimes(j)
    /\ OneLease

\* The fence is what keeps attempts apart.
LEMMA FenceDrains ==
    ASSUME FInv
    PROVE  TargetDrained
  <1>1. SUFFICES ASSUME NEW w \in Worker, NEW c \in screen[w], NEW d \in screen[w],
                        ~Free(c.job, c.token), ~Free(d.job, d.token)
                 PROVE  <<c.job, c.token>> = <<d.job, d.token>>
    BY DEF TargetDrained, Free
  <1>2. c \in Command /\ d \in Command /\ job \in Rows
    BY TypedState DEF FInv, MInv
  <1>3. c.job \in Job /\ d.job \in Job /\ c.left \in Nat /\ d.left \in Nat /\ Grace \in Nat
    BY <1>2, Times DEF Command
  <1>4. Fences(w, c.job, c.token, c.left) /\ Fences(w, d.job, d.token, d.left)
    BY <1>1 DEF FInv, Covered
  <1>5. job[c.job].left \in Int /\ job[d.job].left \in Int
    BY <1>2, <1>3, <1>4, RowFields DEF Fences, Exists, Rows
  <1>6. Held(c.job) /\ Held(d.job)
    BY <1>3, <1>4, <1>5 DEF Fences, Held
  <1>7. c.job = d.job
    BY <1>3, <1>4, <1>6 DEF FInv, OneLease, Fences
  <1>. QED  BY <1>4, <1>7 DEF Fences

LEMMA FInit == Init => FInv
  <1>. SUFFICES ASSUME Init PROVE FInv
    OBVIOUS
  <1>1. MInv
    BY MInit
  <1>2. \A j \in Job : ~Exists(j)
    BY DEF Init, Exists
  <1>3. \A w \in Worker : worker[w].phase = "idle" /\ screen[w] = {}
    BY IdleState DEF Init
  <1>4. wire = {}
    BY DEF Init
  <1>5. \A w \in Worker : Covered(w) /\ Leases(w) /\ Clear(w)
    BY <1>3 DEF Covered, Leases, Clear, MayDrive
  <1>. QED  BY <1>1, <1>2, <1>4, <1>5 DEF FInv, RowTimes, OneLease, Held

-----------------------------------------------------------------------------
(* Rows that keep the fence *)

\* A lease that still stops other claims stays, or its claim is unfenced.
KeepsLease(j) == Held(j) =>
    \/ /\ job'[j] # NoRow /\ job'[j].owner = job[j].owner /\ job'[j].token = job[j].token
       /\ job'[j].left >= job[j].left
    \/ <<j, job[j].token>> \in unfenced'

\* And no lease is new.
QuietRow(j) ==
    /\ KeepsLease(j) /\ RowTimes(j)'
    /\ Held(j)' => Held(j) /\ job'[j].owner = job[j].owner

\* The times of a row are numbers.
LEMMA RowInts ==
    ASSUME Typed, NEW j \in Job, Exists(j)
    PROVE  /\ job[j] \in Row /\ job[j].left \in Int /\ job[j].wait \in Nat /\ job[j].left >= -Grace
           /\ job[j].left <= Lease /\ Grace \in Nat /\ Lease \in Nat
  BY TypedState, RowFields, Times DEF Rows, Exists

LEMMA SameQuiet ==
    ASSUME FInv, NEW j \in Job, job'[j] = job[j]
    PROVE  QuietRow(j)
  <1>1. RowTimes(j)
    BY DEF FInv
  <1>2. Exists(j) => job[j].left \in Int
    BY RowInts DEF FInv, MInv
  <1>. QED  BY <1>1, <1>2 DEF QuietRow, KeepsLease, RowTimes, Held, Exists

\* A row without a lease, old or new.
LEMMA DroppedQuiet ==
    ASSUME Typed, NEW j \in Job, job'[j] \in Row, job'[j].left = -Grace,
           Held(j) => <<j, job[j].token>> \in unfenced'
    PROVE  QuietRow(j)
  <1>1. job'[j].wait \in Nat /\ Grace \in Nat
    BY RowFields, Times
  <1>2. ~Held(j)'
    BY <1>1 DEF Held
  <1>3. RowTimes(j)'
    BY <1>1 DEF RowTimes
  <1>. QED  BY <1>2, <1>3 DEF QuietRow, KeepsLease

\* The same lease, for a row that can be claimed no sooner.
LEMMA KeptQuiet ==
    ASSUME FInv, NEW j \in Job, Exists(j), Kept(job[j], job'[j]),
           \/ job'[j].st = job[j].st
           \/ job'[j].st \notin {"queued", "failed", "waiting-email"}
    PROVE  QuietRow(j)
  <1>1. RowTimes(j) /\ job[j].left \in Int
    BY RowInts DEF FInv, MInv
  <1>2. Exists(j)'
    BY NullAssumption DEF Kept, NullAssumption, Exists
  <1>3. RowTimes(j)'
    BY <1>1 DEF RowTimes, Kept
  <1>. QED  BY <1>1, <1>2, <1>3 DEF QuietRow, KeepsLease, Held, Kept, Exists

LEMMA PreparedQuiet ==
    ASSUME FInv, NEW rows \in Prepared, NEW j \in Job, job'[j] = rows[j]
    PROVE  QuietRow(j)
  <1>1. Typed /\ job \in Rows
    BY TypedState DEF FInv, MInv
  <1>2. CASE rows[j] = job[j]
    BY <1>2, SameQuiet
  <1>3. CASE Ends(j, rows[j])
    <2>1. job[j] \in Row /\ ~Held(j) /\ "failed" \in Status
      BY <1>1, <1>3 DEF Ends, Leased, In, Exists, Rows, Status
    <2>2. job'[j] \in Row /\ job'[j].left = -Grace
      BY <1>3, <2>1, UnleasedRow DEF Ends
    <2>. QED  BY <1>1, <2>1, <2>2, DroppedQuiet
  <1>4. CASE job[j] = NoRow /\ rows[j] = Queued(FALSE)
    <2>1. ~Held(j) /\ job'[j] \in Row /\ job'[j].left = -Grace
      BY <1>4, QueuedRow DEF Held, Exists
    <2>. QED  BY <1>1, <2>1, DroppedQuiet
  <1>. QED  BY <1>1, <1>2, <1>3, <1>4, PreparedRows

LEMMA MovedQuiet ==
    ASSUME FInv, NEW i \in Search, NEW st \in {"needs-attention", "failed"},
           NEW j \in Job, job'[j] = Moved(i, st)[j]
    PROVE  QuietRow(j)
  <1>1. Typed /\ job \in Rows
    BY TypedState DEF FInv, MInv
  <1>2. CASE job'[j] = job[j]
    BY <1>2, SameQuiet
  <1>3. CASE Waiting(j) /\ Dropped(job[j], job'[j])
    <2>1. Exists(j) /\ job[j].left = -Grace /\ Grace \in Nat
      BY <1>3, Times DEF Waiting, In, FInv, RowTimes
    <2>2. ~Held(j) /\ job'[j] \in Row /\ job'[j].left = -Grace
      BY <1>3, <2>1 DEF Held, Dropped
    <2>. QED  BY <1>1, <2>2, DroppedQuiet
  <1>. QED  BY <1>1, <1>2, <1>3, MovedRows

LEMMA CompletedQuiet ==
    ASSUME FInv, NEW i \in Search, Fits(i), job' = Completed(i), NEW j \in Job
    PROVE  QuietRow(j)
  <1>. DEFINE n == [Unleased(job[i.job], "completed") EXCEPT !.mail = i.rcpt]
  <1>1. Typed /\ job \in Rows
    BY TypedState DEF FInv, MInv
  <1>2. /\ i.job \in Job /\ i.rcpt \in Nat /\ job[i.job] \in Row
        /\ job[i.job].left = -Grace /\ Grace \in Nat
    BY <1>1, Times DEF Search, Fits, Waiting, In, Exists, Rows, FInv, RowTimes
  <1>3. job' = [job EXCEPT ![i.job] = n]
    BY DEF Completed
  <1>4. n \in Row /\ n.left = -Grace
    BY <1>2, CompletedRow
  <1>. HIDE DEF n
  <1>5. CASE j = i.job
    <2>1. ~Held(j) /\ job'[j] = n
      BY <1>1, <1>2, <1>3, <1>5 DEF Held, Rows
    <2>. QED  BY <1>1, <1>4, <2>1, DroppedQuiet
  <1>6. CASE j # i.job
    <2>1. job'[j] = job[j]
      BY <1>1, <1>3, <1>6 DEF Rows
    <2>. QED  BY <2>1, SameQuiet
  <1>. QED  BY <1>5, <1>6

\* A step changes the row of one job and keeps the others.
LEMMA OneQuiet ==
    ASSUME FInv, NEW j \in Job, NEW n, job' = [job EXCEPT ![j] = n],
           job'[j] = n => QuietRow(j)
    PROVE  \A k \in Job : QuietRow(k)
  <1>1. job \in Rows
    BY TypedState DEF FInv, MInv
  <1>2. job'[j] = n /\ \A k \in Job : k # j => job'[k] = job[k]
    BY <1>1 DEF Rows
  <1>. QED  BY <1>2, SameQuiet

-----------------------------------------------------------------------------
(* Workers and letters that keep the fence *)

\* No lease of w that matters to its phone is dropped.
Spares(w) == \A j \in Job :
    KeepsLease(j) \/ ~(Exists(j) /\ job[j].owner = w /\ Engaged(w, j, job[j].token))

LEMMA QuietSpares ==
    ASSUME \A j \in Job : QuietRow(j)
    PROVE  \A w \in Worker : Spares(w)
  BY DEF QuietRow, Spares

LEMMA CoveredKept ==
    ASSUME FInv, Typed', NEW w \in Worker, Spares(w), unfenced \subseteq unfenced', screen'[w] \subseteq screen[w]
    PROVE  Covered(w)'
  <1>1. SUFFICES ASSUME NEW c \in screen'[w]
                 PROVE  Free(c.job, c.token)' \/ Fences(w, c.job, c.token, c.left)'
    BY DEF Covered
  <1>2. c \in screen[w] /\ c \in Command /\ c.job \in Job /\ c.left \in Nat
    BY TypedState DEF FInv, MInv, Command
  <1>3. CASE Free(c.job, c.token)
    BY <1>3 DEF Free
  <1>4. CASE Fences(w, c.job, c.token, c.left)
    <2>. DEFINE j == c.job
    <2>1. Exists(j) /\ job[j].owner = w /\ job[j].token = c.token /\ job[j].left + Grace > c.left
      BY <1>4 DEF Fences
    <2>2. job[j].left \in Int /\ Grace \in Nat
      BY <1>2, <2>1, RowInts DEF FInv, MInv
    <2>3. Held(j) /\ Engaged(w, j, job[j].token)
      BY <1>2, <2>1, <2>2 DEF Held, Engaged
    <2>4. KeepsLease(j)
      BY <1>2, <2>1, <2>3 DEF Spares
    <2>5. CASE <<j, job[j].token>> \in unfenced'
      BY <2>1, <2>5 DEF Free
    <2>6. CASE /\ job'[j] # NoRow /\ job'[j].owner = job[j].owner /\ job'[j].token = job[j].token
               /\ job'[j].left >= job[j].left
      <3>1. job'[j].left \in Int
        BY <1>2, <2>6, TypedNext, RowFields DEF Rows, Exists
      <3>. QED  BY <1>2, <2>1, <2>2, <2>6, <3>1 DEF Fences, Exists
    <2>. QED  BY <2>3, <2>4, <2>5, <2>6 DEF KeepsLease
  <1>. QED  BY <1>1, <1>2, <1>3, <1>4 DEF FInv, Covered

\* The lease of a worker that may drive, after a step that spares it.
LEMMA LeaseStays ==
    ASSUME FInv, Typed', NEW w \in Worker, Spares(w), unfenced \subseteq unfenced', MayDrive(w)
    PROVE  LET j == worker[w].job
               t == worker[w].token
           IN  \/ <<j, t>> \in unfenced'
               \/ /\ job'[j] # NoRow /\ job'[j].owner = w /\ job'[j].token = t
                  /\ Exists(j) /\ job[j].owner = w /\ job[j].token = t
                  /\ job[j].left \in Int /\ job'[j].left \in Int /\ job'[j].left >= job[j].left
                  /\ worker[w].phase = "claiming" => worker[w].age >= 0
                  /\ worker[w].phase # "claiming" => job[j].left >= worker[w].watch + Margin - Limit
                  /\ worker[w].age >= 0 => job[j].left >= Lease - worker[w].age
  <1>. DEFINE j == worker[w].job
              t == worker[w].token
  <1>1. worker[w] \in WorkerState /\ j \in Job
    BY TypedState DEF FInv, MInv, MayDrive, Typed, Busy
  <1>2. worker[w].watch \in Nat /\ worker[w].age \in Int /\ worker[w].age <= Limit
    BY <1>1, StateFields, Times
  <1>3. CASE Free(j, t)
    BY <1>3 DEF Free
  <1>4. CASE ~Free(j, t)
    <2>1. /\ Exists(j) /\ job[j].owner = w /\ job[j].token = t
          /\ worker[w].phase = "claiming" => worker[w].age >= 0
          /\ worker[w].phase # "claiming" => job[j].left >= worker[w].watch + Margin - Limit
          /\ worker[w].age >= 0 => job[j].left >= Lease - worker[w].age
      BY <1>4 DEF FInv, Leases
    <2>2. job[j].left \in Int
      BY <1>1, <2>1, RowInts DEF FInv, MInv
    <2>3. job[j].left > 0
      BY <1>2, <2>1, <2>2, Times
    <2>4. Held(j) /\ Engaged(w, j, job[j].token)
      BY <2>1, <2>2, <2>3, Times DEF Held, Engaged
    <2>5. KeepsLease(j)
      BY <1>1, <2>1, <2>4 DEF Spares
    <2>6. CASE <<j, job[j].token>> \in unfenced'
      BY <2>1, <2>6
    <2>7. CASE /\ job'[j] # NoRow /\ job'[j].owner = job[j].owner /\ job'[j].token = job[j].token
               /\ job'[j].left >= job[j].left
      <3>1. job'[j].left \in Int
        BY <1>1, <2>7, TypedNext, RowFields DEF Rows
      <3>. QED  BY <2>1, <2>2, <2>7, <3>1
    <2>. QED  BY <2>4, <2>5, <2>6, <2>7 DEF KeepsLease
  <1>. QED  BY <1>3, <1>4

\* A worker that does nothing keeps its lease.
LEMMA LeasesKept ==
    ASSUME FInv, Typed', NEW w \in Worker, Spares(w), unfenced \subseteq unfenced', worker'[w] = worker[w]
    PROVE  Leases(w)'
  <1>1. SUFFICES ASSUME MayDrive(w)'
                 PROVE  \/ Free(worker[w].job, worker[w].token)'
                        \/ LET r == job'[worker[w].job] IN
                           /\ Exists(worker[w].job)' /\ r.owner = w /\ r.token = worker[w].token
                           /\ worker[w].phase = "claiming" => worker[w].age >= 0
                           /\ worker[w].phase # "claiming" => r.left >= worker[w].watch + Margin - Limit
                           /\ worker[w].age >= 0 => r.left >= Lease - worker[w].age
    BY DEF Leases, Exists, Free
  <1>2. MayDrive(w)
    BY <1>1 DEF MayDrive
  <1>3. worker[w] \in WorkerState
    BY TypedState DEF FInv, MInv
  <1>4. worker[w].watch \in Nat /\ worker[w].age \in Int
    BY <1>3, StateFields, Times
  <1>. QED  BY <1>2, <1>4, LeaseStays, Times DEF Free, Exists

\* A worker and a phone that nothing happens to.
LEMMA BystanderKept ==
    ASSUME FInv, Typed', NEW w \in Worker, Spares(w), unfenced \subseteq unfenced',
           worker'[w] = worker[w], screen'[w] = screen[w]
    PROVE  /\ Covered(w)' /\ Leases(w)' /\ Clear(w)'
           /\ \A j, t : Engaged(w, j, t)' => Engaged(w, j, t)
  <1>1. Clear(w)'
    BY DEF FInv, Clear, Own
  <1>2. \A j, t : Engaged(w, j, t)' => Engaged(w, j, t)
    BY DEF Engaged, MayDrive
  <1>. QED  BY <1>1, <1>2, CoveredKept, LeasesKept

\* A letter under way stays in order when no attempt is begun.
LEMMA LettersKept ==
    ASSUME FInv, wire' \subseteq wire,
           \A w \in Worker : \A j, t : Engaged(w, j, t)' => Engaged(w, j, t)
    PROVE  \A m \in wire' : LetterOK(m)'
  <1>1. \A m \in wire : m.owner \in Worker
    BY TypedState DEF FInv, MInv, Letter
  <1>. QED  BY <1>1 DEF FInv, LetterOK

\* Leases that were there before.
LEMMA QuietLeases ==
    ASSUME FInv, \A j \in Job : QuietRow(j)
    PROVE  OneLease' /\ \A j \in Job : RowTimes(j)'
  BY DEF QuietRow, OneLease, FInv

\* A step of the service or of an operator.
LEMMA ServiceStep ==
    ASSUME FInv, MInv', \A j \in Job : QuietRow(j), unfenced \subseteq unfenced',
           worker' = worker, screen' = screen, wire' \subseteq wire
    PROVE  FInv'
  <1>1. Typed'
    BY DEF MInv
  <1>2. \A w \in Worker : /\ Covered(w)' /\ Leases(w)' /\ Clear(w)'
                          /\ \A j, t : Engaged(w, j, t)' => Engaged(w, j, t)
    BY <1>1, QuietSpares, BystanderKept
  <1>3. \A m \in wire' : LetterOK(m)'
    BY <1>2, LettersKept
  <1>4. OneLease' /\ \A j \in Job : RowTimes(j)'
    BY QuietLeases
  <1>. QED  BY <1>2, <1>3, <1>4 DEF FInv

\* A step of worker w or about it: the others are spared.
LEMMA ActorStep ==
    ASSUME FInv, MInv', OneLease', \A j \in Job : RowTimes(j)', unfenced \subseteq unfenced',
           NEW w \in Worker, \A v \in Worker : Spares(v),
           \A v \in Worker : v # w => worker'[v] = worker[v] /\ screen'[v] = screen[v],
           Covered(w)', Leases(w)', Clear(w)', \A j, t : Engaged(w, j, t)' => Engaged(w, j, t),
           \A m \in wire' : m \in wire \/ LetterOK(m)'
    PROVE  FInv'
  <1>1. Typed'
    BY DEF MInv
  <1>2. \A v \in Worker : /\ Covered(v)' /\ Leases(v)' /\ Clear(v)'
                          /\ \A j, t : Engaged(v, j, t)' => Engaged(v, j, t)
    <2>1. ASSUME NEW v \in Worker, v # w
          PROVE  /\ Covered(v)' /\ Leases(v)' /\ Clear(v)'
                 /\ \A j, t : Engaged(v, j, t)' => Engaged(v, j, t)
      BY <1>1, <2>1, BystanderKept
    <2>. QED  BY <2>1
  <1>3. \A m \in wire : m.owner \in Worker
    BY TypedState DEF FInv, MInv, Letter
  <1>4. \A m \in wire' : LetterOK(m)'
    <2>1. ASSUME NEW m \in wire
          PROVE  LetterOK(m)'
      BY <1>2, <1>3 DEF FInv, LetterOK
    <2>. QED  BY <2>1
  <1>. QED  BY <1>2, <1>4 DEF FInv

\* When no row changes, every worker is spared.
LEMMA SameRows ==
    ASSUME FInv, job' = job
    PROVE  /\ \A j \in Job : QuietRow(j)
           /\ \A w \in Worker : Spares(w)
           /\ OneLease' /\ \A j \in Job : RowTimes(j)'
  <1>1. \A j \in Job : QuietRow(j)
    BY SameQuiet
  <1>. QED  BY <1>1, QuietSpares, QuietLeases

\* A worker that leaves its job.
LEMMA LeavingStep ==
    ASSUME FInv, MInv', OneLease', \A j \in Job : RowTimes(j)', unfenced \subseteq unfenced',
           NEW w \in Worker, \A v \in Worker : Spares(v),
           worker' = [worker EXCEPT ![w] = Idle], screen' = screen, wire' \subseteq wire
    PROVE  FInv'
  <1>1. Typed' /\ worker'[w] = Idle /\ \A v \in Worker : v # w => worker'[v] = worker[v]
    BY TypedState DEF FInv, MInv
  <1>2. worker'[w].phase = "idle"
    BY <1>1, IdleState
  <1>3. Covered(w)'
    BY <1>1, CoveredKept
  <1>4. Leases(w)' /\ Clear(w)' /\ \A j, t : Engaged(w, j, t)' => Engaged(w, j, t)
    BY <1>2 DEF Leases, Clear, Engaged, MayDrive
  <1>. QED  BY <1>1, <1>3, <1>4, ActorStep

\* A worker that reports the end of its attempt.
LEMMA EndingStep ==
    ASSUME FInv, MInv', OneLease', \A j \in Job : RowTimes(j)', unfenced \subseteq unfenced',
           NEW w \in Worker, \A v \in Worker : Spares(v), Own(w) = {}, AtJob(w),
           NEW want \in Status \ {"running"}, Call(w, want, worker[w].watch), screen' = screen
    PROVE  FInv'
  <1>. DEFINE j == worker[w].job
              t == worker[w].token
  <1>1. Typed /\ Typed' /\ worker[w] \in WorkerState /\ worker[w].watch \in 0..Lease
    BY TypedState, StateFields DEF FInv, MInv
  <1>2. /\ worker' = [worker EXCEPT ![w] = Caller(worker[w], want, worker[w].watch)]
        /\ wire' = wire \cup {Message(w, want)}
    BY <1>1, CallTyped DEF AtJob, Call
  <1>3. /\ worker'[w].phase = "calling" /\ worker'[w].want = want
        /\ worker'[w].job = worker[w].job /\ worker'[w].token = worker[w].token
        /\ \A v \in Worker : v # w => worker'[v] = worker[v]
    BY <1>1, <1>2, TypedState, CallerState
  <1>4. Covered(w)'
    BY <1>1, CoveredKept
  <1>5. ~MayDrive(w)'
    BY <1>3 DEF MayDrive
  <1>6. Leases(w)' /\ Clear(w)' /\ \A i, s : Engaged(w, i, s)' => Engaged(w, i, s)
    BY <1>3, <1>5 DEF Leases, Clear, Engaged, Own
  <1>7. LetterOK(Message(w, want))'
    <2>1. /\ Message(w, want).owner = w /\ Message(w, want).job = j /\ Message(w, want).token = t
      BY DEF Message
    <2>2. \A c \in screen'[w] : ~(c.job = j /\ c.token = t)
      BY DEF Own
    <2>. QED  BY <1>5, <2>1, <2>2, <1>3 DEF LetterOK, Engaged, Message
  <1>8. \A m \in wire' : m \in wire \/ LetterOK(m)'
    <2>1. PICK l : l = Message(w, want)
      OBVIOUS
    <2>2. LetterOK(l)'
      BY <1>7, <1>3, <2>1 DEF LetterOK, Message
    <2>. QED  BY <1>2, <2>1, <2>2
  <1>. QED  BY <1>3, <1>4, <1>6, <1>8, ActorStep

-----------------------------------------------------------------------------
(* A new lease *)

\* A claim takes a row without a lease, for a phone without a lease.
LEMMA ClaimFence ==
    ASSUME FInv, NEW w \in Worker, NEW j \in Job, NEW rows \in Prepared, Taken(rows, w, j),
           NEW n \in {LeasedTo(rows[j], j, w), Rotated(LeasedTo(rows[j], j, w))},
           job' = [rows EXCEPT ![j] = n], MInv'
    PROVE  /\ \A v \in Worker : Spares(v)
           /\ OneLease' /\ \A k \in Job : RowTimes(k)'
           /\ job'[j] # NoRow /\ job'[j].owner = w /\ job'[j].token = claims[j] + 1 /\ job'[j].left = Lease
  <1>1. Typed /\ Typed' /\ job \in Rows /\ job' \in Rows /\ Grace \in Nat
    BY TypedState, TypedNext, Times DEF FInv, MInv
  <1>2. /\ job'[j] = n /\ \A k \in Job \ {j} : job'[k] = rows[k]
    BY <1>1, PreparedRows DEF Rows
  <1>3. Claims(j)
    BY <1>1, ClaimedStep
  <1>4. n.owner = w
    <2>1. rows[j] \in Row /\ rows[j].attempts < MaxAttempts /\ claims[j] \in Nat
      BY <1>1, RunnableRow, TypedState DEF Taken
    <2>2. LeasedTo(rows[j], j, w) \in Row /\ LeasedTo(rows[j], j, w).owner = w
      BY <2>1, LeasedToRow
    <2>. QED  BY <2>2, RotatedRow
  <1>5. job'[j] \in Row /\ job'[j] # NoRow /\ job'[j].st = "claimed"
    BY <1>3, RowIsRow DEF Claims
  <1>6. \A k \in Job : k # j => QuietRow(k)
    BY <1>2, PreparedQuiet
  <1>7. ~Held(j)
    <2>1. /\ rows[j] \in Row
          /\ \/ rows[j].st \in {"queued", "failed"} /\ rows[j].wait = 0
             \/ rows[j].st \in {"claimed", "running"} /\ rows[j].left <= -Grace
      BY <1>1, RunnableRow DEF Taken
    <2>2. CASE rows[j] = job[j] /\ Exists(j)
      <3>1. RowTimes(j) /\ job[j].left \in Int
        BY <1>1, <2>2, RowInts DEF FInv
      <3>. QED  BY <1>1, <2>1, <2>2, <3>1 DEF RowTimes, Held
    <2>3. CASE Ends(j, rows[j])
      BY <2>3 DEF Ends
    <2>4. CASE ~Exists(j)
      BY <2>4 DEF Held
    <2>. QED  BY <1>1, <2>2, <2>3, <2>4, PreparedRows DEF Exists
  <1>8. \A v \in Worker : Spares(v)
    BY <1>6, <1>7 DEF Spares, QuietRow, KeepsLease
  <1>9. \A k \in Job : RowTimes(k)'
    BY <1>5, <1>6 DEF QuietRow, RowTimes
  <1>10. ASSUME NEW k \in Job, k # j, Held(k)'
         PROVE  job'[k].owner # w
    <2>1. rows[k] = job'[k] /\ rows[k] # NoRow /\ rows[k].left > -Grace
      BY <1>2, <1>10 DEF Held, Exists
    <2>2. rows[k] \in Row /\ rows[k].left \in Int
      BY <1>1, <2>1, RowFields, PreparedRows DEF Rows
    <2>3. rows[k].owner = w => rows[k].left <= -Grace
      BY <2>1 DEF Taken, Admits
    <2>. QED  BY <1>1, <2>1, <2>2, <2>3
  <1>11. ASSUME NEW a \in Job, NEW b \in Job, Held(a)', Held(b)', job'[a].owner = job'[b].owner,
                job'[a].owner \in Worker
         PROVE  a = b
    <2>1. CASE a # j /\ b # j
      <3>1. Held(a) /\ Held(b) /\ job[a].owner = job[b].owner /\ job[a].owner \in Worker
        BY <1>6, <1>11, <2>1 DEF QuietRow
      <3>. QED  BY <3>1 DEF FInv, OneLease
    <2>2. CASE a = j \/ b = j
      BY <1>2, <1>4, <1>10, <1>11, <2>2
    <2>. QED  BY <2>1, <2>2
  <1>12. OneLease'
    BY <1>11 DEF OneLease
  <1>13. job'[j].token = claims[j] + 1 /\ job'[j].left = Lease
    BY <1>3 DEF Claims
  <1>. QED  BY <1>2, <1>4, <1>5, <1>8, <1>9, <1>12, <1>13

LEMMA ClaimFenced ==
    ASSUME FInv, MInv', NEW w \in Worker, NEW j \in Job, Claim(w, j)
    PROVE  FInv'
  <1>1. PICK rows \in Prepared :
          /\ Taken(rows, w, j) /\ j \in bound'
          /\ job' = [rows EXCEPT ![j] = Rotated(LeasedTo(rows[j], j, w))]
          /\ worker' = [worker EXCEPT ![w] = Claimant(j, claims'[j])]
    BY DEF Claim, Claimant
  <1>2. PICK n \in {LeasedTo(rows[j], j, w), Rotated(LeasedTo(rows[j], j, w))} : job' = [rows EXCEPT ![j] = n]
    BY <1>1
  <1>3. /\ \A v \in Worker : Spares(v)
        /\ OneLease' /\ \A k \in Job : RowTimes(k)'
        /\ job'[j] # NoRow /\ job'[j].owner = w /\ job'[j].token = claims[j] + 1 /\ job'[j].left = Lease
    BY <1>1, <1>2, ClaimFence
  <1>4. /\ Typed /\ Typed' /\ claims \in [Job -> Nat] /\ claims'[j] = claims[j] + 1
        /\ screen \in [Worker -> SUBSET Command] /\ wire \subseteq Letter
        /\ screen' = screen /\ wire' = wire /\ unfenced' = unfenced
    BY <1>1, TypedState, TakenTyped DEF FInv, MInv, Taken
  <1>5. /\ worker'[w].phase = "claiming" /\ worker'[w].job = j
        /\ worker'[w].token = claims[j] + 1 /\ worker'[w].age = 0
        /\ \A v \in Worker : v # w => worker'[v] = worker[v]
    <2>. DEFINE s == Claimant(j, claims'[j])
    <2>1. s.phase = "claiming" /\ s.job = j /\ s.token = claims'[j] /\ s.age = 0
      BY <1>4, ClaimantState
    <2>2. worker' = [worker EXCEPT ![w] = s]
      BY <1>1
    <2>. HIDE DEF s
    <2>. QED  BY <1>4, <2>1, <2>2, TypedState
  <1>6. Covered(w)'
    BY <1>3, <1>4, CoveredKept
  <1>7. Leases(w)'
    BY <1>3, <1>5, Times DEF Leases, Exists
  <1>8. \A c \in screen[w] : ~(c.job = j /\ c.token = claims[j] + 1)
    <2>1. ASSUME NEW c \in screen[w], c.job = j
          PROVE  c.token # claims[j] + 1
      <3>1. c.token <= claims[c.job] /\ c.token \in Nat /\ claims[j] \in Nat
        BY <1>4 DEF FInv, MInv, Numbered, Command
      <3>. QED  BY <2>1, <3>1
    <2>. QED  BY <2>1
  <1>9. Clear(w)'
    BY <1>4, <1>5, <1>8 DEF Clear, Own
  <1>10. ASSUME NEW v \in Worker, v # w
         PROVE  /\ Covered(v)' /\ Leases(v)' /\ Clear(v)'
                /\ \A i, t : Engaged(v, i, t)' => Engaged(v, i, t)
    BY <1>3, <1>4, <1>5, <1>10, BystanderKept
  <1>11. ASSUME NEW m \in wire
         PROVE  LetterOK(m)'
    <2>1. m.owner \in Worker /\ m.job \in Job /\ m.token \in Nat
      BY <1>4 DEF Letter
    <2>2. LetterOK(m) /\ m.token <= claims[m.job] /\ claims[j] \in Nat
      BY <1>4 DEF FInv, MInv, Numbered
    <2>3. CASE m.owner # w
      BY <1>10, <2>1, <2>2, <2>3 DEF LetterOK
    <2>4. CASE m.owner = w
      <3>1. ~(worker'[w].job = m.job /\ worker'[w].token = m.token)
        BY <1>5, <2>1, <2>2
      <3>2. (\E c \in screen'[w] : c.job = m.job /\ c.token = m.token) => Engaged(m.owner, m.job, m.token)
        BY <1>4, <2>4 DEF Engaged
      <3>. QED  BY <2>2, <2>4, <3>1, <3>2 DEF LetterOK, Engaged
    <2>. QED  BY <2>3, <2>4
  <1>12. \A v \in Worker : Covered(v)' /\ Leases(v)' /\ Clear(v)'
    BY <1>6, <1>7, <1>9, <1>10
  <1>. QED  BY <1>3, <1>4, <1>11, <1>12 DEF FInv

LEMMA ClaimCutFenced ==
    ASSUME FInv, MInv', NEW w \in Worker, NEW j \in Job, ClaimCut(w, j)
    PROVE  FInv'
  <1>1. PICK rows \in Prepared :
          /\ Taken(rows, w, j) /\ job' = [rows EXCEPT ![j] = LeasedTo(rows[j], j, w)]
          /\ worker' = worker
    BY DEF ClaimCut
  <1>2. PICK n \in {LeasedTo(rows[j], j, w), Rotated(LeasedTo(rows[j], j, w))} : job' = [rows EXCEPT ![j] = n]
    BY <1>1
  <1>3. /\ \A v \in Worker : Spares(v)
        /\ OneLease' /\ \A k \in Job : RowTimes(k)'
    BY <1>1, <1>2, ClaimFence
  <1>4. Typed' /\ screen' = screen /\ wire' = wire /\ unfenced' = unfenced
    BY <1>1 DEF MInv, Taken
  <1>5. \A v \in Worker : /\ Covered(v)' /\ Leases(v)' /\ Clear(v)'
                          /\ \A i, t : Engaged(v, i, t)' => Engaged(v, i, t)
    BY <1>1, <1>3, <1>4, BystanderKept
  <1>6. \A m \in wire' : LetterOK(m)'
    BY <1>4, <1>5, LettersKept
  <1>. QED  BY <1>3, <1>5, <1>6 DEF FInv

-----------------------------------------------------------------------------
(* Renewals, reports and time *)

LEMMA HeartbeatFenced ==
    ASSUME FInv, MInv', NEW w \in Worker, Heartbeat(w)
    PROVE  FInv'
  <1>1. PICK j : j = worker[w].job
    OBVIOUS
  <1>2. PICK t : t = worker[w].token
    OBVIOUS
  <1>3. /\ Typed /\ Typed' /\ worker[w] \in WorkerState /\ j \in Job /\ Exists(j)
        /\ job[j].st \in {"claimed", "running"} /\ job[j].owner = w /\ job[j].token = t /\ job[j].left > 0
    BY <1>1, <1>2, TypedState
       DEF FInv, MInv, Heartbeat, Beating, LeaseStands, Leased, In, Typed, Busy
  <1>4. job \in Rows /\ job[j] \in Row /\ job[j].left \in Int /\ Lease \in -Grace..Lease
    BY <1>3, TypedState, RowInts, Times
  <1>5. screen' = screen /\ wire' = wire
    BY DEF Heartbeat
  <1>6. CASE j \in bound
    <2>1. /\ job' = [job EXCEPT ![j] = [job[j] EXCEPT !.left = Lease]]
          /\ worker' = [worker EXCEPT ![w] = [worker[w] EXCEPT !.age = 0]] /\ unfenced' = unfenced
      BY <1>1, <1>6 DEF Heartbeat
    <2>2. /\ job'[j] \in Row /\ job'[j].left = Lease /\ job'[j].st = job[j].st
          /\ job'[j].owner = job[j].owner /\ job'[j].token = job[j].token
      <3>1. job'[j] = [job[j] EXCEPT !.left = Lease]
        BY <1>3, <1>4, <2>1 DEF Rows
      <3>. QED  BY <1>4, <3>1, TimedRow
    <2>3. QuietRow(j)
      <3>1. job'[j] # NoRow /\ job[j].left <= Lease /\ Held(j)
        BY <1>3, <1>4, <2>2, RowIsRow, RowInts, Times DEF Held
      <3>. QED  BY <1>3, <2>2, <3>1 DEF QuietRow, KeepsLease, RowTimes
    <2>4. \A k \in Job : QuietRow(k)
      <3>1. ASSUME NEW k \in Job, k # j
            PROVE  job'[k] = job[k]
        BY <1>4, <2>1, <3>1 DEF Rows
      <3>. QED  BY <2>3, <3>1, SameQuiet
    <2>5. (\A v \in Worker : Spares(v)) /\ OneLease' /\ \A k \in Job : RowTimes(k)'
      BY <2>4, QuietSpares, QuietLeases
    <2>6. /\ worker'[w].phase = worker[w].phase /\ worker'[w].job = j /\ worker'[w].token = t
          /\ worker'[w].want = worker[w].want /\ worker'[w].watch = worker[w].watch /\ worker'[w].age = 0
          /\ \A v \in Worker : v # w => worker'[v] = worker[v]
      BY <1>1, <1>2, <1>3, <2>1, TypedState, HeardState
    <2>7. worker[w].watch \in Nat
      BY <1>3, StateFields, Times
    <2>8. Leases(w)'
      <3>1. SUFFICES ASSUME MayDrive(w)'
                     PROVE  \/ <<j, t>> \in unfenced'
                            \/ /\ job'[j] # NoRow /\ job'[j].owner = w /\ job'[j].token = t
                               /\ worker[w].phase # "claiming" /\ job'[j].left >= worker[w].watch + Margin - Limit
                               /\ job'[j].left >= Lease
        BY <2>6, Times DEF Leases, Free, Exists
      <3>2. MayDrive(w) /\ worker[w].phase # "claiming"
        BY <2>6, <3>1 DEF MayDrive, Heartbeat, Beating
      <3>. QED  BY <1>1, <1>2, <1>3, <1>4, <2>2, <2>5, <2>7, <3>2, <2>1, LeaseStays, Times
    <2>9. Clear(w)' /\ \A i, s : Engaged(w, i, s)' => Engaged(w, i, s)
      BY <1>1, <1>2, <1>5, <2>6 DEF FInv, Clear, Own, Engaged, MayDrive
    <2>10. Covered(w)'
      BY <1>3, <1>5, <2>1, <2>5, CoveredKept
    <2>. QED  BY <1>5, <2>1, <2>5, <2>6, <2>8, <2>9, <2>10, ActorStep
  <1>7. CASE j \notin bound
    <2>1. /\ job' = [job EXCEPT ![j] = Unleased(job[j], "needs-attention")]
          /\ worker' = [worker EXCEPT ![w] = Idle] /\ unfenced' = unfenced \cup {<<j, t>>}
      BY <1>1, <1>2, <1>7 DEF Heartbeat
    <2>2. "needs-attention" \in Status
      BY DEF Status
    <2>3. job'[j] \in Row /\ job'[j].left = -Grace
      BY <1>3, <1>4, <2>1, <2>2, UnleasedRow DEF Rows
    <2>4. QuietRow(j)
      BY <1>3, <2>1, <2>3, DroppedQuiet
    <2>5. \A k \in Job : QuietRow(k)
      <3>1. ASSUME NEW k \in Job, k # j
            PROVE  job'[k] = job[k]
        BY <1>4, <2>1, <3>1 DEF Rows
      <3>. QED  BY <2>4, <3>1, SameQuiet
    <2>6. (\A v \in Worker : Spares(v)) /\ OneLease' /\ \A k \in Job : RowTimes(k)'
      BY <2>5, QuietSpares, QuietLeases
    <2>. QED  BY <1>5, <2>1, <2>6, LeavingStep
  <1>. QED  BY <1>6, <1>7

\* What a report does to the leases.
LEMMA ReportedFence ==
    ASSUME FInv, MInv', NEW m \in wire, NEW answered \in BOOLEAN, Receive(m, answered)
    PROVE  (\A v \in Worker : Spares(v)) /\ OneLease' /\ \A k \in Job : RowTimes(k)'
  <1>1. /\ Typed /\ Typed' /\ job \in Rows /\ m \in Letter /\ m.job \in Job /\ m.owner \in Worker
    BY TypedState DEF FInv, MInv, Letter
  <1>2. CASE ~Accepts(m)
    <2>1. job' = job
      BY <1>2 DEF Receive
    <2>. QED  BY <2>1, SameRows
  <1>3. CASE Accepts(m)
    <2>. DEFINE o == job[m.job]
                n == Reported(m)
    <2>1. /\ Leased(m.job) /\ Exists(m.job) /\ o \in Row /\ o.owner = m.owner /\ o.token = m.token
      BY <1>1, <1>3 DEF Accepts, LeaseStands, Leased, In, Exists, Rows
    <2>2. job' = [job EXCEPT ![m.job] = n]
      BY <1>3 DEF Receive
    <2>. HIDE DEF n
    <2>3. job'[m.job] = n /\ \A k \in Job : k # m.job => job'[k] = job[k]
      BY <1>1, <2>2 DEF Rows
    <2>4. \A k \in Job : k # m.job => QuietRow(k)
      BY <2>3, SameQuiet
    <2>5. CASE m.job \in bound /\ m.want = "running"
      <3>1. Kept(o, n) /\ n.st = "running"
        BY <1>1, <2>1, <2>5, ReportedRow DEF n
      <3>2. QuietRow(m.job)
        BY <1>1, <2>1, <2>3, <3>1, KeptQuiet
      <3>3. \A k \in Job : QuietRow(k)
        BY <2>4, <3>2
      <3>. QED  BY <3>3, QuietSpares, QuietLeases
    <2>6. CASE m.job \notin bound /\ m.want = "running"
      <3>1. Dropped(o, n) /\ <<m.job, m.token>> \in unfenced'
        BY <1>1, <1>3, <2>1, <2>6, ReportedRow DEF n, Receive
      <3>2. QuietRow(m.job)
        BY <1>1, <2>1, <2>3, <3>1, DroppedQuiet DEF Dropped
      <3>3. \A k \in Job : QuietRow(k)
        BY <2>4, <3>2
      <3>. QED  BY <3>3, QuietSpares, QuietLeases
    <2>7. CASE m.want # "running"
      <3>1. Dropped(o, n)
        BY <1>1, <2>1, <2>7, ReportedRow DEF n
      <3>2. n.left = -Grace /\ n.wait \in Nat /\ Grace \in Nat
        BY <3>1, RowFields, Times DEF Dropped
      <3>3. ~Held(m.job)' /\ RowTimes(m.job)'
        BY <2>3, <3>2 DEF Held, RowTimes
      <3>4. ~Engaged(m.owner, m.job, o.token)
        BY <2>1, <2>7 DEF FInv, LetterOK
      <3>5. \A v \in Worker : Spares(v)
        BY <2>1, <2>4, <3>4 DEF Spares, QuietRow
      <3>6. \A k \in Job : RowTimes(k)'
        BY <2>4, <3>3 DEF QuietRow
      <3>7. OneLease'
        <4>1. SUFFICES ASSUME NEW a \in Job, NEW b \in Job, Held(a)', Held(b)', job'[a].owner = job'[b].owner,
                              job'[a].owner \in Worker
                       PROVE  a = b
          BY DEF OneLease
        <4>2. a # m.job /\ b # m.job
          BY <3>3, <4>1
        <4>3. Held(a) /\ Held(b) /\ job[a].owner = job[b].owner /\ job[a].owner \in Worker
          BY <2>4, <4>1, <4>2 DEF QuietRow
        <4>. QED  BY <4>3 DEF FInv, OneLease
      <3>. QED  BY <3>5, <3>6, <3>7
    <2>. QED  BY <2>5, <2>6, <2>7
  <1>. QED  BY <1>2, <1>3

LEMMA ReceiveFenced ==
    ASSUME FInv, MInv', NEW m \in wire, NEW answered \in BOOLEAN, Receive(m, answered)
    PROVE  FInv'
  <1>1. Typed /\ Typed' /\ m.owner \in Worker
    BY TypedState DEF FInv, MInv, Letter
  <1>2. PICK w \in Worker : w = m.owner
    BY <1>1
  <1>3. (\A v \in Worker : Spares(v)) /\ OneLease' /\ \A k \in Job : RowTimes(k)'
    BY ReportedFence
  <1>4. screen' = screen /\ wire' \subseteq wire /\ unfenced \subseteq unfenced'
    BY DEF Receive
  <1>5. CASE worker' = worker
    <2>1. /\ Covered(w)' /\ Leases(w)' /\ Clear(w)' /\ \A j, t : Engaged(w, j, t)' => Engaged(w, j, t)
      BY <1>1, <1>3, <1>4, <1>5, BystanderKept
    <2>. QED  BY <1>3, <1>4, <1>5, <2>1, ActorStep
  <1>6. CASE worker' = [worker EXCEPT ![w] = Idle]
    BY <1>3, <1>4, <1>6, LeavingStep
  <1>7. CASE /\ worker[w].phase = "calling" /\ worker[w].want = "running"
             /\ worker' = [worker EXCEPT ![w] = Driver(worker[w])]
    <2>1. worker[w] \in WorkerState /\ worker[w].watch \in Nat /\ worker[w].age \in Int
      BY <1>1, TypedState, StateFields, Times
    <2>2. /\ worker'[w].phase = "driving" /\ worker'[w].job = worker[w].job
          /\ worker'[w].token = worker[w].token /\ worker'[w].watch = worker[w].watch
          /\ worker'[w].age = worker[w].age
          /\ \A v \in Worker : v # w => worker'[v] = worker[v]
      BY <1>1, <1>7, <2>1, TypedState, DriverState
    <2>3. MayDrive(w) /\ worker[w].phase # "claiming"
      BY <1>7 DEF MayDrive
    <2>4. Leases(w)'
      <3>1. PICK j, t : j = worker[w].job /\ t = worker[w].token
        OBVIOUS
      <3>2. SUFFICES \/ <<j, t>> \in unfenced'
                     \/ /\ job'[j] # NoRow /\ job'[j].owner = w /\ job'[j].token = t
                        /\ job'[j].left >= worker[w].watch + Margin - Limit
                        /\ worker[w].age >= 0 => job'[j].left >= Lease - worker[w].age
        BY <2>2, <3>1 DEF Leases, Free, Exists
      <3>. QED  BY <1>1, <1>3, <1>4, <2>1, <2>3, <3>1, LeaseStays, Times
    <2>5. Clear(w)' /\ \A i, s : Engaged(w, i, s)' => Engaged(w, i, s)
      BY <1>4, <2>2, <2>3 DEF Clear, Engaged
    <2>6. Covered(w)'
      BY <1>1, <1>3, <1>4, CoveredKept
    <2>. QED  BY <1>3, <1>4, <2>2, <2>4, <2>5, <2>6, ActorStep
  <1>. QED
    <2>1. CASE ~(/\ worker[w].phase = "calling" /\ Message(w, worker[w].want) = m)
      BY <1>2, <1>5, <2>1 DEF Receive
    <2>2. CASE worker[w].phase = "calling" /\ Message(w, worker[w].want) = m
      <3>1. worker[w].want = m.want
        BY <2>2 DEF Message
      <3>. QED  BY <1>2, <1>5, <1>6, <1>7, <2>2, <3>1 DEF Receive, Driver
    <2>. QED  BY <2>1, <2>2

\* Time passes for leases, commands, answers and watchdogs alike.
LEMMA TickFenced ==
    ASSUME FInv, MInv', Tick
    PROVE  FInv'
  <1>1. /\ Typed /\ Typed' /\ job \in Rows /\ worker \in [Worker -> WorkerState]
        /\ screen \in [Worker -> SUBSET Command]
    BY TypedState DEF FInv, MInv
  <1>2. unfenced' = unfenced /\ wire' = wire
    BY DEF Tick
  <1>3. ASSUME NEW j \in Job, Exists(j)
        PROVE  /\ Exists(j)' /\ job'[j].st = job[j].st /\ job'[j].owner = job[j].owner
               /\ job'[j].token = job[j].token
               /\ job'[j].left = Less(job[j].left, -Grace) /\ job'[j].wait = Less(job[j].wait, 0)
               /\ job[j].left \in Int /\ job[j].wait \in Nat /\ job[j].left >= -Grace
    <2>1. job[j] \in Row /\ job'[j] = Ticked(job[j])
      BY <1>1, <1>3 DEF Tick, Ticked, Rows, Exists
    <2>2. job[j].left \in Int /\ job[j].wait \in Nat /\ job[j].left >= -Grace
      BY <1>1, <1>3, RowInts
    <2>3. job'[j] # NoRow
      BY <2>1, TickedRow, RowIsRow
    <2>. QED  BY <2>1, <2>2, <2>3, TickedRow DEF Exists
  <1>4. ASSUME NEW j \in Job, ~Exists(j)
        PROVE  ~Exists(j)'
    BY <1>4 DEF Tick, Exists
  <1>5. \A j \in Job : Held(j)' => Held(j) /\ job'[j].owner = job[j].owner
    <2>1. ASSUME NEW j \in Job, Held(j)'
          PROVE  Held(j) /\ job'[j].owner = job[j].owner
      <3>1. Exists(j)
        BY <1>4, <2>1 DEF Held
      <3>2. job'[j].left > -Grace
        BY <2>1 DEF Held
      <3>. QED  BY <1>3, <3>1, <3>2 DEF Held, Less
    <2>. QED  BY <2>1
  <1>6. OneLease'
    BY <1>5 DEF FInv, OneLease
  <1>7. \A j \in Job : RowTimes(j)'
    <2>1. ASSUME NEW j \in Job, Exists(j)
          PROVE  RowTimes(j)'
      <3>1. RowTimes(j) /\ Grace \in Nat
        BY Times DEF FInv
      <3>2. job[j].st \in {"queued", "failed"} => job'[j].wait >= job'[j].left + Grace
        BY <1>3, <2>1, <3>1 DEF RowTimes, Less
      <3>3. job[j].st = "waiting-email" => job'[j].left = -Grace
        BY <1>3, <2>1, <3>1 DEF RowTimes, Less
      <3>. QED  BY <1>3, <2>1, <3>2, <3>3 DEF RowTimes
    <2>. QED  BY <1>4, <2>1 DEF RowTimes
  <1>8. ASSUME NEW w \in Worker, NEW c \in screen'[w]
        PROVE  \E d \in screen[w] : /\ d \in Command /\ d.job = c.job /\ d.token = c.token
                                    /\ d.left \in Nat /\ d.left > 0 /\ c.left = d.left - 1
    <2>1. PICK d \in screen[w] : c = [d EXCEPT !.left = @ - 1]
      BY DEF Tick
    <2>2. d \in Command /\ d.left > 0
      BY <1>1 DEF Tick
    <2>3. c.job = d.job /\ c.token = d.token
      BY <2>1, <2>2 DEF Command
    <2>4. c.left = d.left - 1 /\ d.left \in Nat
      BY <2>1, <2>2 DEF Command
    <2>. QED  BY <2>2, <2>3, <2>4
  <1>9. ASSUME NEW w \in Worker
        PROVE  Covered(w)'
    <2>1. SUFFICES ASSUME NEW c \in screen'[w]
                   PROVE  Free(c.job, c.token)' \/ Fences(w, c.job, c.token, c.left)'
      BY DEF Covered
    <2>2. PICK d \in screen[w] : /\ d \in Command /\ d.job = c.job /\ d.token = c.token
                                 /\ d.left \in Nat /\ d.left > 0 /\ c.left = d.left - 1
      BY <1>8
    <2>3. CASE Free(d.job, d.token)
      BY <1>2, <2>2, <2>3 DEF Free
    <2>4. CASE Fences(w, d.job, d.token, d.left)
      <3>1. /\ d.job \in Job /\ Exists(d.job) /\ job[d.job].owner = w /\ job[d.job].token = d.token
            /\ job[d.job].left + Grace > d.left
        BY <2>2, <2>4 DEF Fences, Command
      <3>2. job[d.job].left \in Int /\ Grace \in Nat /\ job'[d.job].left = Less(job[d.job].left, -Grace)
        BY <1>3, <3>1, Times
      <3>3. job'[d.job].left + Grace > c.left
        BY <2>2, <3>1, <3>2 DEF Less
      <3>. QED  BY <1>3, <2>2, <3>1, <3>3 DEF Fences
    <2>. QED  BY <2>2, <2>3, <2>4 DEF FInv, Covered
  <1>10. ASSUME NEW w \in Worker
         PROVE  /\ worker'[w].phase = worker[w].phase /\ worker'[w].job = worker[w].job
                /\ worker'[w].token = worker[w].token /\ worker'[w].want = worker[w].want
                /\ worker'[w].watch = IF Armed(w) THEN worker[w].watch - 1 ELSE worker[w].watch
                /\ worker'[w].age = IF worker[w].age = -1 THEN worker[w].age ELSE worker[w].age + 1
                /\ worker[w].watch \in Nat /\ worker[w].age \in Int /\ worker[w].age < Limit
    <2>1. worker[w] \in WorkerState /\ Armed(w) \in BOOLEAN
      BY <1>1 DEF Armed
    <2>2. worker[w].age < Limit /\ (Armed(w) => worker[w].watch > 0)
      BY DEF Tick
    <2>3. worker'[w] = Older(worker[w], Armed(w))
      BY DEF Tick, Older
    <2>4. worker[w].watch \in Nat /\ worker[w].age \in Int
      BY <2>1, StateFields, Times
    <2>. QED  BY <2>1, <2>2, <2>3, <2>4, OlderState
  <1>11. ASSUME NEW w \in Worker
         PROVE  Leases(w)'
    <2>1. PICK j, t : j = worker[w].job /\ t = worker[w].token
      OBVIOUS
    <2>2. SUFFICES ASSUME MayDrive(w)'
                   PROVE  \/ <<j, t>> \in unfenced
                          \/ /\ Exists(j)' /\ job'[j].owner = w /\ job'[j].token = t
                             /\ worker[w].phase = "claiming" => worker'[w].age >= 0
                             /\ worker[w].phase # "claiming" => job'[j].left >= worker'[w].watch + Margin - Limit
                             /\ worker'[w].age >= 0 => job'[j].left >= Lease - worker'[w].age
      BY <1>2, <1>10, <2>1 DEF Leases, Free, Exists
    <2>3. MayDrive(w) /\ (worker[w].phase # "claiming" => Armed(w))
      BY <1>10, <2>2 DEF MayDrive, Armed
    <2>4. j \in Job
      BY <1>1, <2>1, <2>3 DEF Typed, Busy, MayDrive
    <2>5. CASE ~Free(j, t)
      <3>1. /\ Exists(j) /\ job[j].owner = w /\ job[j].token = t
            /\ worker[w].phase = "claiming" => worker[w].age >= 0
            /\ worker[w].phase # "claiming" => job[j].left >= worker[w].watch + Margin - Limit
            /\ worker[w].age >= 0 => job[j].left >= Lease - worker[w].age
        BY <2>1, <2>3, <2>5 DEF FInv, Leases
      <3>2. job[j].left \in Int /\ job'[j].left = Less(job[j].left, -Grace)
        BY <1>3, <2>4, <3>1
      <3>3. job[j].left > 0
        BY <1>10, <3>1, <3>2, Times
      <3>4. job'[j].left = job[j].left - 1
        BY <3>2, <3>3, Times DEF Less
      <3>5. worker[w].phase = "claiming" => worker'[w].age >= 0
        BY <1>10, <3>1
      <3>6. worker[w].phase # "claiming" => job'[j].left >= worker'[w].watch + Margin - Limit
        BY <1>10, <2>3, <3>1, <3>2, <3>4, Times
      <3>7. worker'[w].age >= 0 => job'[j].left >= Lease - worker'[w].age
        BY <1>10, <3>1, <3>2, <3>4, Times
      <3>. QED  BY <1>3, <2>4, <3>1, <3>5, <3>6, <3>7
    <2>. QED  BY <2>5 DEF Free
  <1>12. ASSUME NEW w \in Worker
         PROVE  /\ Clear(w)'
                /\ \A j, t : Engaged(w, j, t)' => Engaged(w, j, t)
    <2>1. \A j, t : Engaged(w, j, t)' => Engaged(w, j, t)
      BY <1>8, <1>10 DEF Engaged, MayDrive
    <2>2. Clear(w)'
      BY <1>8, <1>10 DEF FInv, Clear, Own
    <2>. QED  BY <2>1, <2>2
  <1>13. \A m \in wire' : LetterOK(m)'
    BY <1>2, <1>12, LettersKept
  <1>. QED  BY <1>6, <1>7, <1>9, <1>11, <1>12, <1>13 DEF FInv

-----------------------------------------------------------------------------
(* The other steps of workers *)

LEMMA ClaimArrivesFenced ==
    ASSUME FInv, MInv', NEW w \in Worker, ClaimArrives(w)
    PROVE  FInv'
  <1>. DEFINE watch == Lease - Margin
  <1>1. Typed /\ Typed' /\ worker[w] \in WorkerState /\ watch \in 0..Lease /\ "running" \in Status
    BY TypedState, Times DEF FInv, MInv, Status
  <1>2. MayDrive(w) /\ worker[w].phase = "claiming" /\ AtJob(w) /\ Call(w, "running", watch)
    BY DEF ClaimArrives, MayDrive, AtJob
  <1>3. (\A v \in Worker : Spares(v)) /\ OneLease' /\ \A k \in Job : RowTimes(k)'
    BY SameRows DEF ClaimArrives
  <1>4. unfenced' = unfenced /\ screen' = screen /\ wire' = wire \cup {Message(w, "running")}
    BY <1>2 DEF ClaimArrives, Call
  <1>5. worker' = [worker EXCEPT ![w] = Caller(worker[w], "running", watch)]
    BY <1>1, <1>2, CallTyped DEF AtJob
  <1>6. /\ worker'[w].phase = "calling" /\ worker'[w].want = "running" /\ worker'[w].job = worker[w].job
        /\ worker'[w].token = worker[w].token /\ worker'[w].watch = watch /\ worker'[w].age = -1
        /\ \A v \in Worker : v # w => worker'[v] = worker[v]
    BY <1>1, <1>5, TypedState, CallerState
  <1>7. Covered(w)'
    BY <1>1, <1>3, <1>4, CoveredKept
  <1>8. Leases(w)'
    <2>1. PICK j, t : j = worker[w].job /\ t = worker[w].token
      OBVIOUS
    <2>2. SUFFICES \/ <<j, t>> \in unfenced'
                   \/ /\ job'[j] # NoRow /\ job'[j].owner = w /\ job'[j].token = t
                      /\ job'[j].left >= watch + Margin - Limit
      BY <1>6, <2>1 DEF Leases, Free, Exists
    <2>3. worker[w].age \in Int /\ worker[w].age <= Limit
      BY <1>1, StateFields, Times
    <2>. QED  BY <1>1, <1>2, <1>3, <1>4, <2>1, <2>3, LeaseStays, Times
  <1>9. Clear(w)'
    BY <1>2, <1>4, <1>6 DEF FInv, Clear, Own
  <1>10. \A j, t : Engaged(w, j, t)' => Engaged(w, j, t)
    BY <1>2, <1>4, <1>6 DEF Engaged
  <1>11. \A m \in wire' : m \in wire \/ LetterOK(m)'
    BY <1>4 DEF LetterOK, Message
  <1>. QED  BY <1>3, <1>4, <1>6, <1>7, <1>8, <1>9, <1>10, <1>11, ActorStep

LEMMA DriveFenced ==
    ASSUME FInv, MInv', NEW w \in Worker, Drive(w)
    PROVE  FInv'
  <1>1. PICK j, t : j = worker[w].job /\ t = worker[w].token
    OBVIOUS
  <1>2. /\ Typed /\ Typed' /\ worker[w] \in WorkerState /\ worker[w].watch \in Nat /\ worker[w].age \in Int
        /\ screen \in [Worker -> SUBSET Command]
    BY TypedState, StateFields, Times DEF FInv, MInv
  <1>3. (\A v \in Worker : Spares(v)) /\ OneLease' /\ \A k \in Job : RowTimes(k)'
    BY SameRows DEF Drive
  <1>4. /\ worker' = worker /\ wire' = wire /\ unfenced' = unfenced /\ job' = job
        /\ screen' = [screen EXCEPT ![w] = screen[w] \cup {[job |-> j, token |-> t, left |-> Limit]}]
    BY <1>1 DEF Drive
  <1>5. MayDrive(w) /\ worker[w].phase = "driving"
    BY DEF Drive, MayDrive
  <1>6. /\ screen'[w] = screen[w] \cup {[job |-> j, token |-> t, left |-> Limit]}
        /\ \A v \in Worker : v # w => screen'[v] = screen[v]
    BY <1>2, <1>4
  <1>7. Free(j, t)' \/ Fences(w, j, t, Limit)'
    <2>1. CASE <<j, t>> \in unfenced'
      BY <2>1 DEF Free
    <2>2. CASE /\ job'[j] # NoRow /\ job'[j].owner = w /\ job'[j].token = t
               /\ job'[j].left \in Int /\ job'[j].left >= worker[w].watch + Margin - Limit
      <3>1. job'[j].left + Grace > Limit
        BY <1>2, <2>2, Times
      <3>. QED  BY <2>2, <3>1 DEF Fences, Exists
    <2>3. <<j, t>> \in unfenced' \/ (/\ job'[j] # NoRow /\ job'[j].owner = w /\ job'[j].token = t
               /\ job'[j].left \in Int /\ job'[j].left >= worker[w].watch + Margin - Limit)
      BY <1>1, <1>2, <1>3, <1>4, <1>5, LeaseStays
    <2>. QED  BY <2>1, <2>2, <2>3
  <1>8. Covered(w)'
    <2>1. ASSUME NEW c \in screen[w]
          PROVE  Free(c.job, c.token)' \/ Fences(w, c.job, c.token, c.left)'
      BY <1>4 DEF FInv, Covered, Free, Fences, Exists
    <2>2. ASSUME NEW c, c = [job |-> j, token |-> t, left |-> Limit]
          PROVE  Free(c.job, c.token)' \/ Fences(w, c.job, c.token, c.left)'
      <3>1. c.job = j /\ c.token = t /\ c.left = Limit
        BY <2>2
      <3>. QED  BY <1>7, <3>1, <1>4 DEF Free, Fences, Exists
    <2>. QED  BY <1>6, <2>1, <2>2 DEF Covered
  <1>9. Leases(w)'
    BY <1>2, <1>3, <1>4, LeasesKept
  <1>10. Clear(w)'
    BY <1>4, <1>5 DEF Clear
  <1>11. \A i, s : Engaged(w, i, s)' => Engaged(w, i, s)
    BY <1>1, <1>4, <1>5, <1>6 DEF Engaged, MayDrive
  <1>. QED  BY <1>3, <1>4, <1>6, <1>8, <1>9, <1>10, <1>11, ActorStep

LEMMA CommandEndsFenced ==
    ASSUME FInv, MInv', NEW w \in Worker, NEW c \in screen[w], NEW submits \in BOOLEAN,
           CommandEnds(w, c, submits)
    PROVE  FInv'
  <1>1. Typed /\ Typed' /\ screen \in [Worker -> SUBSET Command]
    BY TypedState DEF FInv, MInv
  <1>2. (\A v \in Worker : Spares(v)) /\ OneLease' /\ \A k \in Job : RowTimes(k)'
    BY SameRows DEF CommandEnds
  <1>3. /\ worker' = worker /\ wire' = wire /\ unfenced' = unfenced
        /\ screen'[w] = screen[w] \ {c} /\ \A v \in Worker : v # w => screen'[v] = screen[v]
    BY <1>1 DEF CommandEnds
  <1>4. Covered(w)'
    BY <1>1, <1>2, <1>3, CoveredKept
  <1>5. Leases(w)'
    BY <1>1, <1>2, <1>3, LeasesKept
  <1>6. Clear(w)' /\ \A j, t : Engaged(w, j, t)' => Engaged(w, j, t)
    BY <1>3 DEF FInv, Clear, Own, Engaged, MayDrive
  <1>. QED  BY <1>2, <1>3, <1>4, <1>5, <1>6, ActorStep

LEMMA HeartbeatArrivesFenced ==
    ASSUME FInv, MInv', NEW w \in Worker, NEW lost \in BOOLEAN, HeartbeatArrives(w, lost)
    PROVE  FInv'
  <1>1. PICK j, t : j = worker[w].job /\ t = worker[w].token
    OBVIOUS
  <1>2. /\ Typed /\ Typed' /\ worker[w] \in WorkerState /\ worker[w].watch \in Nat
        /\ worker[w].age \in Int /\ worker[w].age <= Limit
    BY TypedState, StateFields, Times DEF FInv, MInv
  <1>3. (\A v \in Worker : Spares(v)) /\ OneLease' /\ \A k \in Job : RowTimes(k)'
    BY SameRows DEF HeartbeatArrives
  <1>4. /\ screen' = screen /\ wire' = wire /\ unfenced' = unfenced
        /\ worker' = [worker EXCEPT ![w] = Beaten(worker[w], lost)]
    BY DEF HeartbeatArrives, Beaten
  <1>5. /\ worker'[w].phase = worker[w].phase /\ worker'[w].job = j /\ worker'[w].token = t
        /\ worker'[w].want = worker[w].want /\ worker'[w].age = -1
        /\ worker'[w].watch = IF lost THEN worker[w].watch ELSE Lease - Margin
        /\ \A v \in Worker : v # w => worker'[v] = worker[v]
    BY <1>1, <1>2, <1>4, TypedState, BeatenState
  <1>6. worker[w].phase # "claiming" /\ worker[w].age >= 0
    BY DEF HeartbeatArrives, Beating
  <1>7. Leases(w)'
    <2>1. SUFFICES ASSUME MayDrive(w)'
                   PROVE  \/ <<j, t>> \in unfenced'
                          \/ /\ job'[j] # NoRow /\ job'[j].owner = w /\ job'[j].token = t
                             /\ job'[j].left >= worker'[w].watch + Margin - Limit
      BY <1>5, <1>6 DEF Leases, Free, Exists
    <2>2. MayDrive(w)
      BY <1>5, <2>1 DEF MayDrive
    <2>3. \/ <<j, t>> \in unfenced'
          \/ /\ job'[j] # NoRow /\ job'[j].owner = w /\ job'[j].token = t
             /\ job[j].left \in Int /\ job'[j].left \in Int /\ job'[j].left >= job[j].left
             /\ job[j].left >= worker[w].watch + Margin - Limit
             /\ job[j].left >= Lease - worker[w].age
      BY <1>1, <1>2, <1>3, <1>4, <1>6, <2>2, LeaseStays
    <2>4. CASE lost
      BY <1>2, <1>5, <2>3, <2>4, Times
    <2>5. CASE ~lost
      BY <1>2, <1>5, <2>3, <2>5, Times
    <2>. QED  BY <2>4, <2>5
  <1>8. Clear(w)' /\ \A i, s : Engaged(w, i, s)' => Engaged(w, i, s)
    BY <1>1, <1>4, <1>5 DEF FInv, Clear, Own, Engaged, MayDrive
  <1>9. Covered(w)'
    BY <1>2, <1>3, <1>4, CoveredKept
  <1>. QED  BY <1>3, <1>4, <1>5, <1>7, <1>8, <1>9, ActorStep

LEMMA EndFenced ==
    ASSUME FInv, MInv', NEW w \in Worker,
           \/ GiveUp(w) \/ ClaimLost(w) \/ Abandon(w) \/ HeartbeatRefused(w)
           \/ \E st \in Status : Report(w, st)
    PROVE  FInv'
  <1>1. job' = job /\ screen' = screen /\ unfenced' = unfenced
    BY DEF GiveUp, ClaimLost, Abandon, HeartbeatRefused, Report
  <1>2. (\A v \in Worker : Spares(v)) /\ OneLease' /\ \A k \in Job : RowTimes(k)'
    BY <1>1, SameRows
  <1>3. CASE worker' = [worker EXCEPT ![w] = Idle] /\ wire' = wire
    BY <1>1, <1>2, <1>3, LeavingStep
  <1>4. CASE GiveUp(w) /\ Call(w, "failed", worker[w].watch)
    <2>1. Own(w) = {} /\ AtJob(w)
      BY <1>4 DEF GiveUp, FInv, Clear, AtJob
    <2>2. "failed" \in Status \ {"running"}
      BY DEF Status
    <2>. QED  BY <1>1, <1>2, <1>4, <2>1, <2>2, EndingStep
  <1>5. ASSUME NEW st \in Status, Report(w, st)
        PROVE  FInv'
    <2>1. Own(w) = {} /\ AtJob(w) /\ st \in Status \ {"running"} /\ Call(w, st, worker[w].watch)
      BY <1>5 DEF Report, AtJob
    <2>. QED  BY <1>1, <1>2, <2>1, EndingStep
  <1>. QED  BY <1>3, <1>4, <1>5 DEF GiveUp, ClaimLost, Abandon, HeartbeatRefused

-----------------------------------------------------------------------------
(* The steps of operators, of the service and of the mailbox poll *)

\* A job that is queued again keeps its lease when it was cancelled, and is
\* let go without the fence otherwise.
LEMMA RetryQuiet ==
    ASSUME FInv, NEW j \in Job, Retry(j), job'[j] = Retried(job[j])
    PROVE  QuietRow(j)
  <1>1. Typed /\ Exists(j) /\ job[j] \in Row /\ job[j].left \in Int
    BY RowInts DEF FInv, MInv, Retry, In
  <1>2. CASE job[j].st = "cancelled"
    <2>1. /\ job'[j] \in Row /\ job'[j].st = "queued" /\ job'[j].wait = job[j].left + Grace
          /\ job'[j].owner = job[j].owner /\ job'[j].token = job[j].token /\ job'[j].left = job[j].left
      BY <1>1, <1>2, RetriedRow
    <2>2. RowTimes(j)'
      BY <1>1, <2>1, Times DEF RowTimes
    <2>3. job'[j] # NoRow
      BY <2>1, RowIsRow
    <2>. QED  BY <1>1, <2>1, <2>2, <2>3 DEF QuietRow, KeepsLease, Held, Exists
  <1>3. CASE job[j].st # "cancelled"
    <2>1. job'[j] \in Row /\ job'[j].left = -Grace
      BY <1>1, <1>3, RetriedRow
    <2>2. Held(j) => <<j, job[j].token>> \in unfenced'
      BY <1>3 DEF Retry
    <2>. QED  BY <1>1, <2>1, <2>2, DroppedQuiet
  <1>. QED  BY <1>2, <1>3

LEMMA OperatorFenced ==
    ASSUME FInv, MInv', NEW j \in Job,
           Enqueue(j) \/ RequestCanary(j) \/ Retry(j) \/ Cancel(j) \/ MailDeadline(j)
    PROVE  FInv'
  <1>1. Typed /\ job \in Rows
    BY TypedState DEF FInv, MInv
  <1>2. worker' = worker /\ screen' = screen /\ wire' = wire /\ unfenced \subseteq unfenced'
    BY DEF Enqueue, RequestCanary, Retry, Cancel, MailDeadline
  <1>3. ASSUME Enqueue(j)
        PROVE  \A k \in Job : QuietRow(k)
    <2>1. job' = [job EXCEPT ![j] = Queued(FALSE)] /\ ~Held(j)
      BY <1>3 DEF Enqueue, Held
    <2>2. Queued(FALSE) \in Row /\ Queued(FALSE).left = -Grace
      BY QueuedRow
    <2>. QED  BY <1>1, <2>1, <2>2, OneQuiet, DroppedQuiet
  <1>4. ASSUME RequestCanary(j), NEW k \in Job
        PROVE  QuietRow(k)
    <2>1. CASE k = j
      <3>1. job'[k] = Queued(TRUE) /\ ~Held(k)
        BY <1>4, <2>1 DEF RequestCanary, Held
      <3>2. Queued(TRUE) \in Row /\ Queued(TRUE).left = -Grace
        BY QueuedRow
      <3>. QED  BY <1>1, <3>1, <3>2, DroppedQuiet
    <2>2. CASE k # j /\ k \in bound \ Canary /\ (Leased(k) \/ Waiting(k))
      <3>1. job[k] \in Row /\ Exists(k) /\ "needs-attention" \in Status
        BY <1>1, <2>2 DEF Leased, Waiting, In, Exists, Rows, Status
      <3>2. job'[k] = [job[k] EXCEPT !.st = "needs-attention"]
        BY <1>4, <2>2 DEF RequestCanary
      <3>3. Kept(job[k], job'[k]) /\ job'[k].st = "needs-attention"
        BY <3>1, <3>2, RestatedKept
      <3>. QED  BY <3>1, <3>3, KeptQuiet
    <2>3. CASE k # j /\ ~(k \in bound \ Canary /\ (Leased(k) \/ Waiting(k)))
      <3>1. job'[k] = job[k]
        BY <1>4, <2>3 DEF RequestCanary
      <3>. QED  BY <3>1, SameQuiet
    <2>. QED  BY <2>1, <2>2, <2>3
  <1>5. ASSUME Retry(j)
        PROVE  \A k \in Job : QuietRow(k)
    <2>1. job' = [job EXCEPT ![j] = Retried(job[j])]
      BY <1>5 DEF Retry
    <2>. QED  BY <1>5, <2>1, OneQuiet, RetryQuiet
  <1>6. ASSUME Cancel(j)
        PROVE  \A k \in Job : QuietRow(k)
    <2>1. Exists(j) /\ job[j] \in Row /\ "cancelled" \in Status
      BY <1>1, <1>6 DEF Cancel, Exists, Rows, Status
    <2>2. job' = [job EXCEPT ![j] = [job[j] EXCEPT !.st = "cancelled"]]
      BY <1>6 DEF Cancel
    <2>3. Kept(job[j], [job[j] EXCEPT !.st = "cancelled"]) /\ [job[j] EXCEPT !.st = "cancelled"].st = "cancelled"
      BY <2>1, RestatedKept
    <2>. QED  BY <2>1, <2>2, <2>3, OneQuiet, KeptQuiet
  <1>7. ASSUME MailDeadline(j)
        PROVE  \A k \in Job : QuietRow(k)
    <2>1. Exists(j) /\ job[j] \in Row
      BY <1>1, <1>7 DEF MailDeadline, Waiting, In, Exists, Rows
    <2>2. job' = [job EXCEPT ![j] = [job[j] EXCEPT !.late = TRUE]]
      BY <1>7 DEF MailDeadline
    <2>3. Kept(job[j], [job[j] EXCEPT !.late = TRUE]) /\ [job[j] EXCEPT !.late = TRUE].st = job[j].st
      BY <2>1, LateKept
    <2>. QED  BY <2>1, <2>2, <2>3, OneQuiet, KeptQuiet
  <1>8. \A k \in Job : QuietRow(k)
    BY <1>3, <1>4, <1>5, <1>6, <1>7
  <1>. QED  BY <1>2, <1>8, ServiceStep

\* A parked job has no lease that stands.
LEMMA ParkFenced ==
    ASSUME FInv, MInv', NEW w \in Worker, NEW j \in Job, Park(w, j)
    PROVE  FInv'
  <1>. DEFINE Row2(rows) == Unleased(LeasedTo(rows[j], j, w), "needs-attention")
  <1>1. Typed /\ job \in Rows /\ claims[j] \in Nat
    BY TypedState DEF FInv, MInv
  <1>2. PICK rows \in Prepared : Taken(rows, w, j) /\ job' = [rows EXCEPT ![j] = Row2(rows)]
    BY DEF Park
  <1>3. rows[j] \in Row /\ rows[j].attempts < MaxAttempts /\ "needs-attention" \in Status
    BY <1>1, <1>2, RunnableRow DEF Taken, Status
  <1>4. LeasedTo(rows[j], j, w) \in Row
    BY <1>1, <1>3, LeasedToRow
  <1>5. job'[j] = Row2(rows) /\ \A k \in Job : k # j => job'[k] = rows[k]
    BY <1>1, <1>2, PreparedRows DEF Rows
  <1>6. job'[j] \in Row /\ job'[j].left = -Grace
    BY <1>3, <1>4, <1>5, UnleasedRow
  <1>7. ~Held(j)
    <2>1. \/ rows[j].st \in {"queued", "failed"} /\ rows[j].wait = 0
          \/ rows[j].st \in {"claimed", "running"} /\ rows[j].left <= -Grace
      BY <1>1, <1>2, RunnableRow DEF Taken
    <2>2. CASE rows[j] = job[j] /\ Exists(j)
      <3>1. RowTimes(j) /\ job[j].left \in Int /\ Grace \in Nat
        BY <1>1, <2>2, RowInts DEF FInv
      <3>. QED  BY <2>1, <2>2, <3>1 DEF RowTimes, Held
    <2>3. CASE Ends(j, rows[j])
      BY <2>3 DEF Ends
    <2>4. CASE ~Exists(j)
      BY <2>4 DEF Held
    <2>. QED  BY <1>1, <2>2, <2>3, <2>4, PreparedRows DEF Exists
  <1>8. \A k \in Job : QuietRow(k)
    <2>1. QuietRow(j)
      BY <1>1, <1>6, <1>7, DroppedQuiet
    <2>. QED  BY <1>5, <2>1, PreparedQuiet
  <1>9. worker' = worker /\ screen' = screen /\ wire' = wire /\ unfenced' = unfenced
    BY <1>2 DEF Park, Taken
  <1>. QED  BY <1>8, <1>9, ServiceStep

\* Leases that ran out are given up, whoever asks.
LEMMA PreparedFenced ==
    ASSUME FInv, MInv', Maintain \/ PollBegins \/ \E w \in Worker : FindsNothing(w)
    PROVE  FInv'
  <1>1. job' \in Prepared
    BY ExpiredPrepared DEF Maintain, PollBegins, FindsNothing
  <1>2. \A k \in Job : QuietRow(k)
    BY <1>1, PreparedQuiet
  <1>3. worker' = worker /\ screen' = screen /\ wire' = wire /\ unfenced' = unfenced
    BY DEF Maintain, PollBegins, FindsNothing
  <1>. QED  BY <1>2, <1>3, ServiceStep

LEMMA SearchFenced ==
    ASSUME FInv, MInv', NEW i \in poll,
           Delivered(i) \/ DeliveredCut(i) \/ Rejected(i) \/ Drifted(i) \/ Overdue(i) \/ NotYet(i)
    PROVE  FInv'
  <1>1. Typed /\ i \in Search
    BY TypedState DEF FInv, MInv
  <1>2. worker' = worker /\ screen' = screen /\ wire' = wire /\ unfenced' = unfenced
    BY DEF Delivered, DeliveredCut, Rejected, Drifted, Overdue, NotYet, SearchEnds
  <1>3. CASE Fits(i) /\ job' = Completed(i)
    BY <1>1, <1>2, <1>3, CompletedQuiet, ServiceStep
  <1>4. CASE job' = Moved(i, "needs-attention") \/ job' = Moved(i, "failed")
    <2>1. \A k \in Job : QuietRow(k)
      BY <1>1, <1>4, MovedQuiet
    <2>. QED  BY <1>2, <2>1, ServiceStep
  <1>5. CASE job' = job
    BY <1>2, <1>5, SameRows, ServiceStep
  <1>6. ASSUME NEW c \in Canary, ~Exists(c), job' = Renewed(Moved(i, "needs-attention"), c)
        PROVE  FInv'
    <2>1. Moved(i, "needs-attention") \in Rows /\ c \in Job
      BY <1>1, TypedState, MovedRows, JobAssumption DEF JobAssumption
    <2>2. job' = [Moved(i, "needs-attention") EXCEPT ![c] = Queued(FALSE)]
      BY <1>6 DEF Renewed
    <2>3. job'[c] = Queued(FALSE) /\ \A k \in Job : k # c => job'[k] = Moved(i, "needs-attention")[k]
      BY <2>1, <2>2 DEF Rows
    <2>4. QuietRow(c)
      <3>1. Queued(FALSE) \in Row /\ Queued(FALSE).left = -Grace /\ ~Held(c)
        BY <1>6, QueuedRow DEF Held
      <3>. QED  BY <1>1, <2>1, <2>3, <3>1, DroppedQuiet
    <2>5. \A k \in Job : QuietRow(k)
      BY <1>1, <2>3, <2>4, MovedQuiet
    <2>. QED  BY <1>2, <2>5, ServiceStep
  <1>. QED
    BY <1>3, <1>4, <1>5, <1>6 DEF Delivered, DeliveredCut, Rejected, Drifted, Overdue, NotYet

LEMMA FStep ==
    ASSUME FInv, [Next]_vars
    PROVE  FInv'
  <1>1. MInv'
    BY MStep DEF FInv
  <1>2. ASSUME NEW j \in Job, Enqueue(j) \/ RequestCanary(j) \/ Retry(j) \/ Cancel(j) \/ MailDeadline(j)
        PROVE  FInv'
    BY <1>1, <1>2, OperatorFenced
  <1>3. ASSUME NEW j \in Job, NEW w \in Worker, Claim(w, j) \/ ClaimCut(w, j) \/ Park(w, j)
        PROVE  FInv'
    BY <1>1, <1>3, ClaimFenced, ClaimCutFenced, ParkFenced
  <1>4. ASSUME NEW w \in Worker, ClaimArrives(w) \/ Drive(w) \/ Heartbeat(w)
        PROVE  FInv'
    BY <1>1, <1>4, ClaimArrivesFenced, DriveFenced, HeartbeatFenced
  <1>5. ASSUME NEW w \in Worker, NEW lost \in BOOLEAN, HeartbeatArrives(w, lost)
        PROVE  FInv'
    BY <1>1, <1>5, HeartbeatArrivesFenced
  <1>6. ASSUME NEW w \in Worker, NEW c \in screen[w], NEW submits \in BOOLEAN, CommandEnds(w, c, submits)
        PROVE  FInv'
    BY <1>1, <1>6, CommandEndsFenced
  <1>7. ASSUME NEW w \in Worker,
               \/ GiveUp(w) \/ ClaimLost(w) \/ Abandon(w) \/ HeartbeatRefused(w)
               \/ \E st \in Status : Report(w, st)
        PROVE  FInv'
    BY <1>1, <1>7, EndFenced
  <1>8. ASSUME NEW m \in wire, NEW answered \in BOOLEAN, Receive(m, answered)
        PROVE  FInv'
    BY <1>1, <1>8, ReceiveFenced
  <1>9. ASSUME NEW i \in poll,
               Delivered(i) \/ DeliveredCut(i) \/ Rejected(i) \/ Drifted(i) \/ Overdue(i) \/ NotYet(i)
        PROVE  FInv'
    BY <1>1, <1>9, SearchFenced
  <1>10. CASE Maintain \/ PollBegins \/ \E w \in Worker : FindsNothing(w)
    BY <1>1, <1>10, PreparedFenced
  <1>11. CASE Tick
    BY <1>1, <1>11, TickFenced
  <1>12. CASE Rename \/ ApprovalAges \/ UNCHANGED vars
    <2>1. /\ job' = job /\ worker' = worker /\ screen' = screen /\ wire' = wire /\ unfenced' = unfenced
      BY <1>12 DEF Rename, ApprovalAges, vars
    <2>. QED  BY <1>1, <2>1, SameRows, ServiceStep
  <1>. QED
    BY <1>2, <1>3, <1>4, <1>5, <1>6, <1>7, <1>8, <1>9, <1>10, <1>11, <1>12 DEF Next

\* No phone is driven for two attempts at once: a command of one attempt is
\* over before another attempt sends its first, whatever is lost, late,
\* cancelled or dies, unless the lease of one was dropped while its worker
\* drove (the lease of claimTapoHistoryExportJob, the watchdog of the worker
\* and the grace before a lease is given to another).
THEOREM TargetDrainedCorrect == Spec => []TargetDrained
  <1>1. FInv => TargetDrained
    BY FenceDrains
  <1>2. FInv /\ [Next]_vars => FInv'
    BY FStep
  <1>. QED  BY <1>1, <1>2, FInit, PTL DEF Spec

\* The watchdog outruns the lease: it is armed for the lease less the margin,
\* and no answer takes longer than the margin.
LEMMA LeaseOutlivesDrive ==
    ASSUME FInv
    PROVE  DrivesUnderLease
  <1>1. SUFFICES ASSUME NEW w \in Worker, worker[w].phase = "driving",
                        ~Free(worker[w].job, worker[w].token)
                 PROVE  LET row == job[worker[w].job] IN
                        row # NoRow /\ row.owner = w /\ row.token = worker[w].token /\ row.left > 0
    BY DEF DrivesUnderLease, Free
  <1>2. /\ Exists(worker[w].job) /\ job[worker[w].job].owner = w
        /\ job[worker[w].job].token = worker[w].token
        /\ job[worker[w].job].left >= worker[w].watch + Margin - Limit
    BY <1>1 DEF FInv, Leases, MayDrive
  <1>3. worker[w].job \in Job /\ worker[w].watch \in Nat
    BY <1>1, <1>2, TypedState, Times DEF FInv, MInv, Typed, Busy, WorkerState
  <1>4. job[worker[w].job].left \in Int /\ Margin > Limit /\ Margin \in Nat /\ Limit \in Nat
    BY <1>2, <1>3, RowInts, Times DEF FInv, MInv
  <1>. QED  BY <1>2, <1>3, <1>4 DEF Exists

\* No phone is driven without a lease: while a worker drives, the queue holds
\* its lease, unexpired, however late its claim and its heartbeats were answered
\* (the watchdog of the worker is armed for the lease less its margin), unless
\* that lease was dropped while it drove.
THEOREM DrivesUnderLeaseCorrect == Spec => []DrivesUnderLease
  <1>1. FInv => DrivesUnderLease
    BY LeaseOutlivesDrive
  <1>2. FInv /\ [Next]_vars => FInv'
    BY FStep
  <1>. QED  BY <1>1, <1>2, FInit, PTL DEF Spec

-----------------------------------------------------------------------------
(* What the requests promise of a finished one *)

\* A job that is completed stays so, with the mail that completed it.
Final == \A j \in Job : In(j, {"completed"}) => In(j, {"completed"})' /\ job'[j].mail = job[j].mail

\* No late report, search, retry, cancellation or maintenance reopens a completed
\* export or credits it to another mail (TAPO_HISTORY_EXPORT_TRANSITIONS,
\* completeTapoHistoryExportJobWithSamples).
THEOREM CompletedIsFinal == Spec => [][Final]_vars
  <1>1. [Requests!Next]_(Requests!vars) => Final
    <2>. SUFFICES ASSUME [Requests!Next]_(Requests!vars), NEW j \in Job, In(j, {"completed"})
                  PROVE  In(j, {"completed"})' /\ job'[j].mail = job[j].mail
      BY DEF Final
    <2> DEFINE st == [k \in Job |-> Stage(k)]
               src == [k \in Job |-> IF Exists(k) THEN job[k].mail ELSE 0]
    <2>1. st[j] = "done" /\ src[j] = job[j].mail
      BY DEF Stage, In, Waiting
    <2>2. st'[j] = st[j] /\ src'[j] = src[j]
      <3>1. CASE UNCHANGED Requests!vars
        <4>1. st' = st /\ src' = src
          BY <3>1 DEF Requests!vars
        <4>. QED  BY <4>1
      <3>2. CASE Requests!Next
        <4>1. \/ Requests!Keep(j) \/ Requests!Opens(j) \/ Requests!Waits(j) \/ Requests!Stops(j)
              \/ Requests!Finishes(j)
          BY <3>2 DEF Requests!Next
        <4>2. CASE Requests!Keep(j)
          BY <4>2 DEF Requests!Keep
        <4>. QED  BY <2>1, <4>1, <4>2 DEF Requests!Opens, Requests!Waits, Requests!Stops, Requests!Finishes
      <3>. QED  BY <3>1, <3>2
    <2>3. Stage(j)' = "done"
      BY <2>1, <2>2
    <2>4. In(j, {"completed"})' /\ Exists(j)'
      BY <2>3 DEF Stage, In, Exists
    <2>. QED  BY <2>1, <2>2, <2>4
  <1>2. [Requests!Next]_(Requests!vars) => [Final]_vars
    BY <1>1
  <1>. QED  BY <1>2, RequestsImplemented, PTL DEF ImplementsRequests, Requests!Spec
=============================================================================
