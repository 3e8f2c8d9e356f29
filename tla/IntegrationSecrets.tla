-------------------------- MODULE IntegrationSecrets --------------------------
(***************************************************************************)
(* The integration secrets file of apps/api: the lock file with its        *)
(* recovery of abandoned locks (integration-secrets-lock.ts), plain        *)
(* updates (updateIntegrationSecrets), and the commit that changes SQLite  *)
(* and the file together, staged so that startup can finish or discard it  *)
(* after a crash (integration-secrets-coordinator.ts).                     *)
(*                                                                         *)
(* A process is its pid: a restarted process may have the pid of the one   *)
(* that died.  A call runs to its end without yielding to its own process, *)
(* so a process has one at a time; other processes act between any two of  *)
(* its file-system calls and its SQLite commit.                            *)
(***************************************************************************)
EXTENDS Naturals

CONSTANTS
    Proc,            \* pids
    LockText,        \* texts "pid:uuid" of recorded locks
    NoText,          \* the text of a lock file not yet written
    NoLock, NoStage, \* there is no such file
    Preempted,       \* TRUE: others may act while a process removes a stale lock
    Overruns,        \* TRUE: an operation may outlive the stale-lock limit
    MaxEdits,        \* bound on edits
    MaxFaults        \* bound on crashes and failed calls

\* A lock file: the process that created it, its text, whether it is past the
\* limit for its kind (60 s with an owner, 5 s without).
Lock == [by : Proc, text : LockText \cup {NoText}, old : BOOLEAN]

\* Credentials, as the edits applied to them: plain ones, and joint ones that
\* also changed database rows; rev is the databaseRevision.
Contents == [rev : Nat, plain : SUBSET Nat, joint : SUBSET Nat]

ASSUME SwitchAssumption == Preempted \in BOOLEAN /\ Overruns \in BOOLEAN
ASSUME BoundAssumption == MaxEdits \in Nat /\ MaxFaults \in Nat
ASSUME FileAssumption == NoText \notin LockText /\ NoLock \notin Lock /\ NoStage \notin Contents

VARIABLES
    lock,           \* the lock file
    file,           \* integration-secrets.json
    stage,          \* integration-secrets.json.pending
    db,             \* the recorded revision and the joint edits in SQLite
    pc, op, edit,   \* per process: next step, operation, edit it applies
    seen,           \* text of the lock a process found abandoned
    copy,           \* credentials a process read before changing them
    ok,             \* the operation will return, rather than throw
    acked,          \* edits whose operation returned
    edits, faults   \* bounds

files  == <<file, stage, db>>
local  == <<op, edit, seen, copy, ok>>
bounds == <<edits, faults>>
vars   == <<lock, files, pc, local, acked, bounds>>

Empty == [rev |-> 0, plain |-> {}, joint |-> {}]

Init ==
    /\ lock = NoLock /\ file = Empty /\ stage = NoStage /\ db = [rev |-> 0, joint |-> {}]
    /\ pc = [p \in Proc |-> "idle"]
    /\ op = [p \in Proc |-> "none"] /\ edit = [p \in Proc |-> 0]
    /\ seen = [p \in Proc |-> NoText] /\ copy = [p \in Proc |-> Empty]
    /\ ok = [p \in Proc |-> FALSE]
    /\ acked = {} /\ edits = 0 /\ faults = 0

Waiting    == {"open", "look", "compare", "unlink"}
Reclaiming == {"compare", "unlink"}
Holding    == {"record", "check", "write", "stage", "commit", "publish", "unstage", "release"}
Outside    == {"idle", "down", "boot"}

\* Unless processes may be preempted there, one that found an abandoned lock
\* compares and removes it at once.
Undisturbed(p) == Preempted \/ \A q \in Proc \ {p} : pc[q] \notin Reclaiming

Go(p, step) == Undisturbed(p) /\ pc' = [pc EXCEPT ![p] = step]

\* The call of a process ends and what it remembers is gone.
Leave(p, step) ==
    /\ Go(p, step)
    /\ op' = [op EXCEPT ![p] = "none"] /\ edit' = [edit EXCEPT ![p] = 0]
    /\ seen' = [seen EXCEPT ![p] = NoText] /\ copy' = [copy EXCEPT ![p] = Empty]
    /\ ok' = [ok EXCEPT ![p] = FALSE]

\* An exception ends the call; during startup it ends the process.
Throw(p) == Leave(p, IF op[p] = "recover" THEN "down" ELSE "idle")

-----------------------------------------------------------------------------
(* Callers *)

Call(p, kind) ==
    /\ pc[p] = "idle" /\ edits < MaxEdits
    /\ edits' = edits + 1
    /\ op' = [op EXCEPT ![p] = kind] /\ edit' = [edit EXCEPT ![p] = edits + 1]
    /\ Go(p, "open")
    /\ UNCHANGED <<lock, files, seen, copy, ok, acked, faults>>

\* Startup calls for recovery when there is a stage.
Boot(p) ==
    /\ pc[p] = "boot"
    /\ IF stage = NoStage THEN Go(p, "idle") /\ UNCHANGED op
       ELSE Go(p, "open") /\ op' = [op EXCEPT ![p] = "recover"]
    /\ UNCHANGED <<lock, files, edit, seen, copy, ok, acked, bounds>>

-----------------------------------------------------------------------------
(* withIntegrationSecretsLock *)

Alive(p) == pc[p] # "down"

\* Slip: an owner is taken for dead whenever its lock is recorded.
StaleForeign == lock.text # NoText \/ lock.old

\* Abandoned: its recorded owner is dead, or it is past its limit.
Stale == (lock.text # NoText /\ ~Alive(lock.by)) \/ lock.old

Open(p) ==
    /\ pc[p] = "open"
    /\ IF lock = NoLock
       THEN lock' = [by |-> p, text |-> NoText, old |-> FALSE] /\ Go(p, "record")
       ELSE Go(p, "look") /\ UNCHANGED lock
    /\ UNCHANGED <<files, local, acked, bounds>>

\* The text goes to the file that was created, even if it is no longer the
\* lock; its uuid makes it new to everyone.
Record(p) ==
    /\ pc[p] = "record"
    /\ IF lock # NoLock /\ lock.by = p /\ lock.text = NoText
       THEN \E text \in LockText : /\ \A q \in Proc : seen[q] # text
                                   /\ lock' = [by |-> p, text |-> text, old |-> FALSE]
       ELSE UNCHANGED lock
    /\ Go(p, "check")
    /\ UNCHANGED <<files, local, acked, bounds>>

\* Wait and try again, unless the lock is abandoned.
Look(p) ==
    /\ pc[p] = "look"
    /\ IF lock # NoLock /\ Stale
       THEN Go(p, "compare") /\ seen' = [seen EXCEPT ![p] = lock.text]
       ELSE Go(p, "open") /\ UNCHANGED seen
    /\ UNCHANGED <<lock, files, op, edit, copy, ok, acked, bounds>>

\* Slip: a waiter that cleans up behind itself when it gives up.
GiveUpAndUnlink(p) ==
    /\ pc[p] = "look" /\ lock # NoLock /\ ~Stale
    /\ lock' = NoLock
    /\ Throw(p)
    /\ UNCHANGED <<files, acked, bounds>>

\* The deadline passed and the lock is not abandoned.
GiveUp(p) ==
    /\ pc[p] = "look" /\ lock # NoLock /\ ~Stale
    /\ Throw(p)
    /\ UNCHANGED <<lock, files, acked, bounds>>

Compare(p) ==
    /\ pc[p] = "compare"
    /\ IF lock # NoLock /\ lock.text = seen[p]
       THEN Go(p, "unlink") /\ UNCHANGED seen
       ELSE Go(p, "open") /\ seen' = [seen EXCEPT ![p] = NoText]
    /\ UNCHANGED <<lock, files, op, edit, copy, ok, acked, bounds>>

Unlink(p) ==
    /\ pc[p] = "unlink"
    /\ lock' = NoLock
    /\ Go(p, "open") /\ seen' = [seen EXCEPT ![p] = NoText]
    /\ UNCHANGED <<files, op, edit, copy, ok, acked, bounds>>

\* Slip: a return in the finally block, which swallows the exception.
ReleaseAlwaysReturns(p) ==
    /\ pc[p] = "release"
    /\ lock' = NoLock
    /\ acked' = acked \cup {edit[p]}
    /\ Leave(p, "idle")
    /\ UNCHANGED <<files, bounds>>

\* The finally block removes whatever lock there is.
Release(p) ==
    /\ pc[p] = "release"
    /\ lock' = NoLock
    /\ acked' = IF ok[p] /\ edit[p] # 0 THEN acked \cup {edit[p]} ELSE acked
    /\ IF ok[p] THEN Leave(p, "idle") ELSE Throw(p)
    /\ UNCHANGED <<files, bounds>>

-----------------------------------------------------------------------------
(* Operations, inside the lock *)

\* Slip: a writer that overlooks a committed stage.
CheckNothing(p) ==
    /\ pc[p] = "check" /\ op[p] # "recover"
    /\ Go(p, IF op[p] = "update" THEN "write" ELSE "stage")
    /\ copy' = [copy EXCEPT ![p] = file]
    /\ UNCHANGED <<lock, files, op, edit, seen, ok, acked, bounds>>

\* Nothing may be changed while a stage awaits startup.
Check(p) ==
    /\ pc[p] = "check" /\ op[p] # "recover"
    /\ IF stage # NoStage
       THEN Go(p, "release") /\ UNCHANGED copy
       ELSE /\ Go(p, IF op[p] = "update" THEN "write" ELSE "stage")
            /\ copy' = [copy EXCEPT ![p] = file]
    /\ UNCHANGED <<lock, files, op, edit, seen, ok, acked, bounds>>

\* Slip: startup that publishes every stage it finds.
RecoverBlindly(p) ==
    /\ pc[p] = "check" /\ op[p] = "recover"
    /\ IF stage # NoStage
       THEN Go(p, "publish") /\ UNCHANGED <<stage, ok>>
       ELSE Go(p, "release") /\ stage' = NoStage /\ ok' = [ok EXCEPT ![p] = TRUE]
    /\ UNCHANGED <<lock, file, db, op, edit, seen, copy, acked, bounds>>

\* Slip: startup that leaves a stage that was rolled back where it is.
RecoverLeavesStage(p) ==
    /\ pc[p] = "check" /\ op[p] = "recover"
    /\ IF stage # NoStage /\ stage.rev = db.rev
       THEN Go(p, "publish") /\ UNCHANGED ok
       ELSE Go(p, "release") /\ ok' = [ok EXCEPT ![p] = TRUE]
    /\ UNCHANGED <<lock, files, op, edit, seen, copy, acked, bounds>>

\* A stage whose revision SQLite does not hold was rolled back.
Recover(p) ==
    /\ pc[p] = "check" /\ op[p] = "recover"
    /\ IF stage # NoStage /\ stage.rev = db.rev
       THEN Go(p, "publish") /\ UNCHANGED <<stage, ok>>
       ELSE Go(p, "release") /\ stage' = NoStage /\ ok' = [ok EXCEPT ![p] = TRUE]
    /\ UNCHANGED <<lock, file, db, op, edit, seen, copy, acked, bounds>>

\* The file changes by a rename.
Write(p) ==
    /\ pc[p] = "write"
    /\ file' = [copy[p] EXCEPT !.plain = @ \cup {edit[p]}]
    /\ Go(p, "release") /\ ok' = [ok EXCEPT ![p] = TRUE]
    /\ UNCHANGED <<lock, stage, db, op, edit, seen, copy, acked, bounds>>

\* BEGIN IMMEDIATE excludes other transactions; the stage is written inside.
Stage(p) ==
    /\ pc[p] = "stage" /\ \A q \in Proc : pc[q] # "commit"
    /\ stage' = [rev |-> edit[p], plain |-> copy[p].plain, joint |-> copy[p].joint \cup {edit[p]}]
    /\ Go(p, "commit")
    /\ UNCHANGED <<lock, file, db, local, acked, bounds>>

Commit(p) ==
    /\ pc[p] = "commit"
    /\ db' = [rev |-> edit[p], joint |-> db.joint \cup {edit[p]}]
    /\ Go(p, "publish") /\ ok' = [ok EXCEPT ![p] = TRUE]
    /\ UNCHANGED <<lock, file, stage, op, edit, seen, copy, acked, bounds>>

\* publishPending: write the file, then remove the stage.  A stage that is not
\* there reads as empty credentials, and cannot be removed.
Publish(p) ==
    /\ pc[p] = "publish"
    /\ file' = IF stage = NoStage THEN Empty ELSE stage
    /\ Go(p, "unstage")
    /\ UNCHANGED <<lock, stage, db, local, acked, bounds>>

Unstage(p) ==
    /\ pc[p] = "unstage"
    /\ stage' = NoStage
    /\ ok' = [ok EXCEPT ![p] = ok[p] \/ stage # NoStage]
    /\ Go(p, "release")
    /\ UNCHANGED <<lock, file, db, op, edit, seen, copy, acked, bounds>>

-----------------------------------------------------------------------------
(* Failed calls, crashes, the clock *)

CountFault == faults < MaxFaults /\ faults' = faults + 1 /\ UNCHANGED edits

\* A call on the lock file fails; one that could not record its owner removes
\* the file it created.
LockFails(p) ==
    /\ pc[p] \in Waiting \cup {"record"} /\ CountFault
    /\ IF pc[p] = "record" THEN lock' = NoLock ELSE UNCHANGED lock
    /\ Throw(p)
    /\ UNCHANGED <<files, acked>>

\* Reading, writing, staging or committing fails; a transaction that rolls back
\* takes its stage along, if that can be removed.
OperationFails(p) ==
    /\ pc[p] \in {"check", "write", "stage", "commit"} /\ CountFault
    /\ IF pc[p] = "commit" THEN stage' \in {NoStage, stage} ELSE UNCHANGED stage
    /\ Go(p, "release")
    /\ UNCHANGED <<lock, file, db, local, acked>>

\* Slip: a failed publication takes the stage along, committed or not.
PublishFailsAndUnstages(p) ==
    /\ pc[p] \in {"publish", "unstage"} /\ CountFault
    /\ stage' = NoStage
    /\ Go(p, "release")
    /\ UNCHANGED <<lock, file, db, local, acked>>

\* Publication fails: a commit returns all the same, recovery throws.
PublishFails(p) ==
    /\ pc[p] \in {"publish", "unstage"} /\ CountFault
    /\ Go(p, "release")
    /\ UNCHANGED <<lock, files, local, acked>>

Crash(p) ==
    /\ Alive(p) /\ CountFault
    /\ Leave(p, "down")
    /\ UNCHANGED <<lock, files, acked>>

Restart(p) ==
    /\ pc[p] = "down"
    /\ Go(p, "boot")
    /\ UNCHANGED <<lock, files, local, acked, bounds>>

\* The lock file becomes older than its limit.
Age ==
    /\ lock # NoLock /\ ~lock.old
    /\ Overruns \/ pc[lock.by] \notin Holding
    /\ lock' = [lock EXCEPT !.old = TRUE]
    /\ UNCHANGED <<files, pc, local, acked, bounds>>

-----------------------------------------------------------------------------
(* Specification *)

Locking(p)   == Open(p) \/ Record(p) \/ Look(p) \/ Compare(p) \/ Unlink(p) \/ Release(p)
Operating(p) == \/ Check(p) \/ Recover(p) \/ Write(p) \/ Stage(p) \/ Commit(p)
                \/ Publish(p) \/ Unstage(p)
Failing(p)   == LockFails(p) \/ OperationFails(p) \/ PublishFails(p) \/ Crash(p)
Running(p)   == Boot(p) \/ Restart(p) \/ Locking(p) \/ Operating(p)

Next == \/ \E p \in Proc, kind \in {"update", "commit"} : Call(p, kind)
        \/ \E p \in Proc : Running(p) \/ GiveUp(p) \/ Failing(p)
        \/ Age

Spec == Init /\ [][Next]_vars

\* A call that has started runs on, a dead process is started again, and time
\* passes.
FairSpec == Spec /\ WF_vars(Age)
                 /\ \A p \in Proc : WF_vars(Running(p))

-----------------------------------------------------------------------------
(* Properties *)

\* Types; the edits that were acknowledged are edits that were called for.
TypeOK ==
    /\ lock \in Lock \cup {NoLock}
    /\ file \in Contents /\ stage \in Contents \cup {NoStage}
    /\ db \in [rev : Nat, joint : SUBSET Nat]
    /\ pc \in [Proc -> Outside \cup Waiting \cup Holding]
    /\ op \in [Proc -> {"none", "update", "commit", "recover"}]
    /\ edit \in [Proc -> 0 .. edits]
    /\ seen \in [Proc -> LockText \cup {NoText}]
    /\ copy \in [Proc -> Contents]
    /\ ok \in [Proc -> BOOLEAN]
    /\ acked \subseteq 1 .. edits
    /\ edits \in 0 .. MaxEdits /\ faults \in 0 .. MaxFaults

\* Mutual exclusion: no two processes are between the creation of the lock and
\* its release, whatever processes died with it before.
AtMostOneHolder ==
    \A p, q \in Proc : pc[p] \in Holding /\ pc[q] \in Holding => p = q

\* A lock whose owner is at work and within its limit is removed by nobody else:
\* a waiter times out behind it and leaves it in place.
LiveLockStands ==
    [][\A p \in Proc :
         /\ lock # NoLock /\ lock.by = p /\ pc[p] \in Holding /\ ~lock.old
         /\ lock' = NoLock
         => pc'[p] \notin Holding]_vars

\* The credentials a reader ends up with: startup will publish a stage whose
\* revision SQLite recorded, and discard any other.
view == IF stage # NoStage /\ stage.rev = db.rev THEN stage ELSE file

\* No edit whose operation returned is ever lost, neither to another writer nor
\* to a crash.
NoEditLost == acked \subseteq view.plain \cup view.joint

Store == INSTANCE CredentialStore WITH Edit <- 1 .. MaxEdits, credentials <- view, rows <- db

\* File, stage and SQLite are together one store in which credentials and rows
\* change in one step: CredentialStore.
ImplementsStore == Store!Spec

\* A stage that startup finds is in the end published or discarded, across
\* crashes during recovery, failed calls and locks left by dead processes, so
\* that the API accepts changes to its credentials again.
StageSettles == (stage # NoStage /\ \E p \in Proc : pc[p] = "boot") ~> stage = NoStage
-----------------------------------------------------------------------------
(* The inductive invariant *)

\* Where the lock can be trusted: an operation ends within the limit of its lock,
\* and others act while a stale lock is removed only where none can be stale.
Guarded == ~Overruns /\ (Preempted => MaxFaults = 0)

\* A holder's lock is its own, and within its limit.
HolderOwnsLock ==
    \A p \in Proc : pc[p] \in Holding => lock # NoLock /\ lock.by = p /\ ~lock.old

\* Nobody is at work while a lock is being reclaimed.
ReclaimsAbandoned ==
    \A p \in Proc : pc[p] \in Reclaiming => ~Preempted /\ \A q \in Proc : pc[q] \notin Holding

\* Without crashes every lock has a holder.
NoOrphan == Preempted /\ lock # NoLock => pc[lock.by] \in Holding

LockInvariant == HolderOwnsLock /\ ReclaimsAbandoned /\ NoOrphan

\* File or stage agree with SQLite, which knows the last revision's edit.
StoresAgree == /\ view.rev = db.rev /\ view.joint = db.joint
               /\ db.rev \in db.joint \cup {0}

applied == view.plain \cup view.joint

\* Each edit is one call's.
EditsDistinct ==
    /\ applied \subseteq 1 .. edits
    /\ \A p, q \in Proc : edit[p] # 0 /\ p # q => edit[p] # edit[q]

\* Until a call changes anything its edit is nowhere; once the call is to return
\* the edit is applied.
CallsSound ==
    \A p \in Proc :
      /\ edit[p] = 0 <=> op[p] \in {"none", "recover"}
      /\ op[p] = "none" <=> pc[p] \in Outside
      /\ pc[p] \notin {"publish", "unstage", "release"} => ~ok[p] /\ edit[p] \notin applied
      /\ pc[p] = "write" => op[p] = "update"
      /\ pc[p] \in {"stage", "commit"} => op[p] = "commit"
      /\ ok[p] \/ pc[p] \in {"publish", "unstage"} => edit[p] \in applied \cup {0}

\* What a holder read is what there is, and what it staged is that and its edit.
StageSound ==
    \A p \in Proc :
      /\ pc[p] \in {"write", "stage"} => stage = NoStage /\ copy[p] = file
      /\ pc[p] = "commit" => stage = [rev   |-> edit[p],
                                      plain |-> file.plain,
                                      joint |-> file.joint \cup {edit[p]}]
      /\ pc[p] \in {"publish", "unstage"} => stage # NoStage /\ stage.rev = db.rev
      /\ pc[p] = "unstage" => file = stage

\* What mutual exclusion alone keeps, however the lock came by it.
DataInvariant == StoresAgree /\ EditsDistinct /\ CallsSound /\ StageSound /\ NoEditLost

\* A lock has at most the one holder that owns it, and on that footing the
\* stores agree and no acknowledged edit is lost.
SecretsInvariant == LockInvariant /\ DataInvariant
=============================================================================
