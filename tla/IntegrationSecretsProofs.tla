----------------------- MODULE IntegrationSecretsProofs -----------------------
(***************************************************************************)
(* Proofs about IntegrationSecrets: type correctness, then the inductive   *)
(* invariant in two halves, the lock and the data it protects, and what    *)
(* follows from it: mutual exclusion, that a live lock stands, that no     *)
(* acknowledged edit is lost, and that file, stage and database implement  *)
(* the single store of CredentialStore.                                    *)
(***************************************************************************)
EXTENDS IntegrationSecrets, TLAPS

USE SwitchAssumption, BoundAssumption, FileAssumption
USE DEF SwitchAssumption, BoundAssumption, FileAssumption

-----------------------------------------------------------------------------
(* Types *)

LEMMA TypeStep ==
    ASSUME TypeOK, [Next]_vars
    PROVE  TypeOK'
<1> USE DEF TypeOK, files, local, bounds, Go, Leave, Throw, CountFault,
        Outside, Waiting, Holding, Contents, Lock, Empty
<1>1. ASSUME NEW p \in Proc, NEW kind \in {"update", "commit"}, Call(p, kind)
      PROVE  TypeOK'
  BY <1>1 DEF Call
<1>2. ASSUME NEW p \in Proc, Boot(p) \/ Restart(p) \/ GiveUp(p)
      PROVE  TypeOK'
  <2>1. CASE Boot(p)
    BY <2>1 DEF Boot
  <2>2. CASE Restart(p)
    BY <2>2 DEF Restart
  <2>3. CASE GiveUp(p)
    BY <2>3 DEF GiveUp
  <2> QED BY <1>2, <2>1, <2>2, <2>3
<1>3. ASSUME NEW p \in Proc, Locking(p)
      PROVE  TypeOK'
  <2>1. CASE Open(p)
    <3>1. [by |-> p, text |-> NoText, old |-> FALSE] \in Lock
      OBVIOUS
    <3> QED BY <2>1, <3>1 DEF Open
  <2>2. CASE Record(p)
    <3>1. \A text \in LockText : [by |-> p, text |-> text, old |-> FALSE] \in Lock
      OBVIOUS
    <3>2. lock' = lock \/ \E text \in LockText : lock' = [by |-> p, text |-> text, old |-> FALSE]
      BY <2>2, Zenon DEF Record
    <3>3. ASSUME NEW text \in LockText, lock' = [by |-> p, text |-> text, old |-> FALSE]
          PROVE  lock' \in Lock
      BY <3>1, <3>3
    <3>4. lock' \in Lock \cup {NoLock}
      BY <3>2, <3>3
    <3> QED BY <2>2, <3>4 DEF Record
  <2>3. CASE Look(p)
    BY <2>3 DEF Look
  <2>4. CASE Compare(p)
    BY <2>4 DEF Compare
  <2>5. CASE Unlink(p)
    BY <2>5 DEF Unlink
  <2>6. CASE Release(p)
    <3>1. acked' = acked \/ (edit[p] # 0 /\ acked' = acked \cup {edit[p]})
      BY <2>6 DEF Release
    <3>2. edit[p] # 0 => edit[p] \in 1 .. edits
      OBVIOUS
    <3>3. acked' \subseteq 1 .. edits /\ lock' = NoLock
      BY <2>6, <3>1, <3>2 DEF Release
    <3>4. \E step \in {"idle", "down"} : Leave(p, step)
      BY <2>6 DEF Release
    <3> QED BY <2>6, <3>3, <3>4 DEF Release
  <2> QED BY <1>3, <2>1, <2>2, <2>3, <2>4, <2>5, <2>6 DEF Locking
<1>4. ASSUME NEW p \in Proc, Operating(p)
      PROVE  TypeOK'
  <2>1. CASE Check(p)
    <3>1. copy' \in [Proc -> Contents]
      BY <2>1 DEF Check
    <3>2. \E step \in {"release", "write", "stage"} : Go(p, step)
      BY <2>1 DEF Check
    <3> QED BY <2>1, <3>1, <3>2 DEF Check
  <2>2. CASE Recover(p)
    BY <2>2 DEF Recover
  <2>3. CASE Write(p)
    BY <2>3 DEF Write
  <2>4. CASE Stage(p)
    BY <2>4 DEF Stage
  <2>5. CASE Commit(p)
    BY <2>5 DEF Commit
  <2>6. CASE Publish(p)
    BY <2>6 DEF Publish
  <2>7. CASE Unstage(p)
    BY <2>7 DEF Unstage
  <2> QED BY <1>4, <2>1, <2>2, <2>3, <2>4, <2>5, <2>6, <2>7 DEF Operating
<1>5. ASSUME NEW p \in Proc, Failing(p)
      PROVE  TypeOK'
  <2>1. CASE LockFails(p)
    BY <2>1 DEF LockFails
  <2>2. CASE OperationFails(p)
    BY <2>2 DEF OperationFails
  <2>3. CASE PublishFails(p)
    BY <2>3 DEF PublishFails
  <2>4. CASE Crash(p)
    BY <2>4 DEF Crash
  <2> QED BY <1>5, <2>1, <2>2, <2>3, <2>4 DEF Failing
<1>6. CASE Age
  BY <1>6 DEF Age
<1>7. CASE UNCHANGED vars
  BY <1>7 DEF vars
<1> QED
  BY <1>1, <1>2, <1>3, <1>4, <1>5, <1>6, <1>7 DEF Next, Running

\* Every reachable state is well typed, and the edits acknowledged are edits that
\* were asked for, for any processes and bounds and with every kind of fault.
THEOREM TypeCorrect == Spec => []TypeOK
<1>1. Init => TypeOK
  BY DEF Init, TypeOK, Contents, Empty, Outside
<1>2. TypeOK /\ [Next]_vars => TypeOK'
  BY TypeStep
<1> QED BY <1>1, <1>2, PTL DEF Spec

-----------------------------------------------------------------------------
(* The lock *)

LEMMA LockStep ==
    ASSUME Guarded, TypeOK, LockInvariant, [Next]_vars
    PROVE  LockInvariant'
<1> USE DEF TypeOK, LockInvariant, HolderOwnsLock, ReclaimsAbandoned, NoOrphan,
        Guarded, Go, Leave, Throw, CountFault, Outside, Waiting, Holding, Reclaiming, Lock
<1>1. ASSUME NEW p \in Proc, NEW kind \in {"update", "commit"}, Call(p, kind)
      PROVE  LockInvariant'
  BY <1>1 DEF Call, Undisturbed
<1>2. ASSUME NEW p \in Proc, Boot(p) \/ Restart(p) \/ GiveUp(p)
      PROVE  LockInvariant'
  BY <1>2 DEF Boot, Restart, GiveUp, Undisturbed
<1>3. ASSUME NEW p \in Proc, Locking(p)
      PROVE  LockInvariant'
  <2>1. CASE Open(p)
    <3>1. CASE lock = NoLock
      <4>1. lock' = [by |-> p, text |-> NoText, old |-> FALSE] /\ Go(p, "record")
        BY <2>1, <3>1 DEF Open
      <4>2. lock' \in Lock /\ lock'.by = p /\ lock'.old = FALSE
        BY <4>1
      <4>3. lock' # NoLock /\ ~lock'.old
        BY <4>2
      <4>4. \A q \in Proc : pc[q] \notin Holding
        BY <3>1
      <4> QED BY <1>3, <4>1, <4>2, <4>3, <4>4 DEF Undisturbed
    <3>2. CASE lock # NoLock
      BY <1>3, <2>1, <3>2 DEF Open, Undisturbed
    <3> QED BY <3>1, <3>2
  <2>2. CASE Record(p)
    <3>1. lock # NoLock /\ lock.by = p /\ ~lock.old
      BY <2>2 DEF Record
    <3>2. lock' = lock \/ \E text \in LockText : lock' = [by |-> p, text |-> text, old |-> FALSE]
      BY <2>2, Zenon DEF Record
    <3>3. ASSUME NEW text \in LockText, lock' = [by |-> p, text |-> text, old |-> FALSE]
          PROVE  lock' # NoLock /\ lock'.by = p /\ ~lock'.old
      <4>1. lock' \in Lock /\ lock'.by = p /\ lock'.old = FALSE
        BY <3>3
      <4> QED BY <4>1
    <3>4. lock' # NoLock /\ lock'.by = p /\ ~lock'.old
      BY <3>1, <3>2, <3>3
    <3>5. pc[p] = "record" /\ Go(p, "check")
      BY <2>2 DEF Record
    <3> QED BY <1>3, <3>4, <3>5 DEF Undisturbed
  <2>3. CASE Look(p)
    BY <1>3, <2>3 DEF Look, Undisturbed, Stale, Alive
  <2>4. CASE Compare(p)
    BY <1>3, <2>4 DEF Compare, Undisturbed
  <2>5. CASE Unlink(p)
    BY <1>3, <2>5 DEF Unlink, Undisturbed
  <2>6. CASE Release(p)
    BY <1>3, <2>6 DEF Release, Undisturbed
  <2> QED BY <1>3, <2>1, <2>2, <2>3, <2>4, <2>5, <2>6 DEF Locking
<1>4. ASSUME NEW p \in Proc, Operating(p)
      PROVE  LockInvariant'
  <2>1. /\ UNCHANGED lock /\ pc[p] \in Holding
        /\ \E step \in Holding : Go(p, step)
    BY <1>4 DEF Operating, Check, Recover, Write, Stage, Commit, Publish, Unstage
  <2> QED BY <1>4, <2>1 DEF Undisturbed
<1>5. ASSUME NEW p \in Proc, Failing(p)
      PROVE  LockInvariant'
  <2>1. CASE LockFails(p)
    BY <1>5, <2>1 DEF LockFails, Undisturbed
  <2>2. CASE OperationFails(p)
    BY <1>5, <2>2 DEF OperationFails, Undisturbed
  <2>3. CASE PublishFails(p)
    BY <1>5, <2>3 DEF PublishFails, Undisturbed
  <2>4. CASE Crash(p)
    BY <1>5, <2>4 DEF Crash, Undisturbed
  <2> QED BY <1>5, <2>1, <2>2, <2>3, <2>4 DEF Failing
<1>6. CASE Age
  BY <1>6 DEF Age
<1>7. CASE UNCHANGED vars
  BY <1>7 DEF vars
<1> QED
  BY <1>1, <1>2, <1>3, <1>4, <1>5, <1>6, <1>7 DEF Next, Running

\* Guarded: a lock is reclaimed only when its owner cannot be at work.
THEOREM LockCorrect ==
    ASSUME Guarded
    PROVE  Spec => []LockInvariant
<1>1. Init => LockInvariant
  BY DEF Init, LockInvariant, HolderOwnsLock, ReclaimsAbandoned, NoOrphan, Holding, Reclaiming
<1>2. TypeOK /\ LockInvariant /\ [Next]_vars => LockInvariant'
  BY LockStep
<1> QED BY <1>1, <1>2, TypeCorrect, PTL DEF Spec

LEMMA OneHolder ==
    ASSUME HolderOwnsLock
    PROVE  AtMostOneHolder
BY DEF HolderOwnsLock, AtMostOneHolder

\* Mutual exclusion, for any number of processes and faults: at most one process
\* is between the creation of the lock and its release.
THEOREM MutualExclusion ==
    ASSUME Guarded
    PROVE  Spec => []AtMostOneHolder
<1>1. LockInvariant => AtMostOneHolder
  BY OneHolder DEF LockInvariant
<1> QED BY <1>1, LockCorrect, PTL

LEMMA LiveLockStep ==
    ASSUME TypeOK, LockInvariant, Next, NEW p \in Proc, pc[p] \in Holding, lock' = NoLock
    PROVE  pc'[p] \notin Holding
<1> USE DEF TypeOK, Go, Leave, Throw, Outside, Waiting, Holding, Reclaiming
<1>1. lock # NoLock /\ lock.by = p /\ \A q \in Proc : pc[q] \notin Reclaiming
  BY DEF LockInvariant, HolderOwnsLock, ReclaimsAbandoned
<1>2. ASSUME NEW q \in Proc, pc[q] \in Holding
      PROVE  q = p
  BY <1>1, <1>2 DEF LockInvariant, HolderOwnsLock
<1>3. ASSUME NEW q \in Proc, Locking(q)
      PROVE  pc'[p] \notin Holding
  <2>1. CASE Open(q)
    <3>1. [by |-> q, text |-> NoText, old |-> FALSE] \in Lock
      BY DEF Lock
    <3> QED BY <1>1, <2>1, <3>1 DEF Open
  <2>2. CASE Record(q)
    <3>1. lock' = lock \/ \E text \in LockText : lock' = [by |-> q, text |-> text, old |-> FALSE]
      BY <2>2, Zenon DEF Record
    <3>2. \A text \in LockText : [by |-> q, text |-> text, old |-> FALSE] \in Lock
      BY DEF Lock
    <3> QED BY <1>1, <3>1, <3>2
  <2>3. CASE Release(q)
    BY <1>2, <2>3 DEF Release
  <2> QED BY <1>1, <1>3, <2>1, <2>2, <2>3 DEF Locking, Look, Compare, Unlink
<1>4. ASSUME NEW q \in Proc, Failing(q)
      PROVE  pc'[p] \notin Holding
  BY <1>1, <1>2, <1>4 DEF Failing, LockFails, OperationFails, PublishFails, Crash
<1>5. ASSUME NEW q \in Proc, \/ \E kind \in {"update", "commit"} : Call(q, kind)
                             \/ Boot(q) \/ Restart(q) \/ GiveUp(q) \/ Operating(q)
      PROVE  lock' = lock
  BY <1>5 DEF Call, Boot, Restart, GiveUp, Operating, Check, Recover, Write, Stage, Commit,
     Publish, Unstage
<1>6. CASE Age
  <2>1. [lock EXCEPT !.old = TRUE] \in Lock
    BY <1>6 DEF Age, Lock
  <2> QED BY <1>6, <2>1 DEF Age
<1> QED BY <1>1, <1>3, <1>4, <1>5, <1>6 DEF Next, Running

\* A waiter never removes the lock of a process that is at work.
THEOREM LiveLockCorrect ==
    ASSUME Guarded
    PROVE  Spec => LiveLockStands
<1>1. TypeOK /\ LockInvariant /\ [Next]_vars
        => [\A p \in Proc :
              /\ lock # NoLock /\ lock.by = p /\ pc[p] \in Holding /\ ~lock.old
              /\ lock' = NoLock
              => pc'[p] \notin Holding]_vars
  BY LiveLockStep
<1> QED BY <1>1, LockCorrect, TypeCorrect, PTL DEF Spec, LiveLockStands

-----------------------------------------------------------------------------
(* The data *)

\* The view changes by a write, by a commit, and by nothing else.
LEMMA WriteEffect ==
    ASSUME TypeOK, DataInvariant, NEW p \in Proc, Write(p)
    PROVE  /\ view' = [view EXCEPT !.plain = @ \cup {edit[p]}] /\ UNCHANGED db
           /\ applied' = applied \cup {edit[p]}
<1>1. stage = NoStage /\ stage' = NoStage /\ view = file /\ view' = file' /\ copy[p] = file
  BY DEF DataInvariant, StageSound, Write, view
<1>2. file' = [file EXCEPT !.plain = @ \cup {edit[p]}] /\ UNCHANGED db
  BY <1>1 DEF Write
<1>3. view' = [view EXCEPT !.plain = @ \cup {edit[p]}]
  BY <1>1, <1>2
<1>4. view.plain \subseteq Nat /\ view'.plain = view.plain \cup {edit[p]} /\ view'.joint = view.joint
  BY <1>1, <1>3 DEF TypeOK, Contents
<1> QED BY <1>2, <1>3, <1>4 DEF applied

LEMMA StageIsNew ==
    ASSUME TypeOK, DataInvariant, NEW p \in Proc, pc[p] \in {"stage", "commit"}
    PROVE  edit[p] # db.rev /\ edit[p] # 0 /\ edit[p] \notin db.joint
<1>1. edit[p] # 0 /\ edit[p] \notin applied
  BY DEF DataInvariant, CallsSound, Outside
<1> QED BY <1>1 DEF DataInvariant, StoresAgree, applied

LEMMA CommitEffect ==
    ASSUME TypeOK, DataInvariant, NEW p \in Proc, Commit(p)
    PROVE  /\ view' = [rev |-> edit[p], plain |-> view.plain, joint |-> view.joint \cup {edit[p]}]
           /\ db' = [rev |-> edit[p], joint |-> db.joint \cup {edit[p]}]
           /\ applied' = applied \cup {edit[p]}
<1>1. stage = [rev |-> edit[p], plain |-> file.plain, joint |-> file.joint \cup {edit[p]}]
  BY DEF DataInvariant, StageSound, Commit
<1>2. stage \in Contents /\ stage # NoStage /\ stage.rev = edit[p]
  BY <1>1 DEF TypeOK, Contents
<1>3. db' = [rev |-> edit[p], joint |-> db.joint \cup {edit[p]}] /\ stage' = stage
  BY DEF Commit
<1>4. db'.rev = edit[p]
  BY <1>3
<1>5. view = file /\ view' = stage
  BY <1>2, <1>3, <1>4, StageIsNew DEF view, Commit
<1> QED BY <1>1, <1>3, <1>5 DEF applied

LEMMA QuietEffect ==
    ASSUME TypeOK, DataInvariant,
           \/ UNCHANGED files
           \/ \E p \in Proc : Recover(p) \/ Stage(p) \/ Publish(p) \/ Unstage(p) \/ OperationFails(p)
    PROVE  UNCHANGED <<view, db, applied>>
<1>1. SUFFICES UNCHANGED <<view, db>>
  BY DEF applied
<1>2. CASE UNCHANGED files
  BY <1>2 DEF files, view
<1>3. ASSUME NEW p \in Proc, Recover(p) PROVE UNCHANGED <<view, db>>
  BY <1>3 DEF Recover, view
<1>4. ASSUME NEW p \in Proc, Stage(p) PROVE UNCHANGED <<view, db>>
  <2>1. stage = NoStage /\ stage'.rev = edit[p] /\ UNCHANGED <<file, db>>
    BY <1>4 DEF Stage, DataInvariant, StageSound
  <2> QED BY <1>4, <2>1, StageIsNew DEF view, Stage
<1>5. ASSUME NEW p \in Proc, Publish(p) PROVE UNCHANGED <<view, db>>
  BY <1>5 DEF Publish, view, DataInvariant, StageSound
<1>6. ASSUME NEW p \in Proc, Unstage(p) PROVE UNCHANGED <<view, db>>
  BY <1>6 DEF Unstage, view, DataInvariant, StageSound
<1>7. ASSUME NEW p \in Proc, OperationFails(p) PROVE UNCHANGED <<view, db>>
  <2>1. CASE pc[p] = "commit"
    <3>1. stage.rev = edit[p]
      BY <2>1 DEF DataInvariant, StageSound
    <3> QED BY <1>7, <2>1, <3>1, StageIsNew DEF OperationFails, view
  <2>2. CASE pc[p] # "commit"
    BY <1>7, <2>2 DEF OperationFails, view
  <2> QED BY <2>1, <2>2
<1> QED BY <1>2, <1>3, <1>4, <1>5, <1>6, <1>7

LEMMA StepKinds ==
    ASSUME [Next]_vars
    PROVE  \/ UNCHANGED files
           \/ \E p \in Proc : Recover(p) \/ Stage(p) \/ Publish(p) \/ Unstage(p) \/ OperationFails(p)
           \/ \E p \in Proc : Write(p) \/ Commit(p)
BY DEF Next, vars, files, Running, Locking, Operating, Failing, Call, Boot, Restart, Open, Record,
   Look, GiveUp, Compare, Unlink, Release, Check, LockFails, PublishFails, Crash, Age

LEMMA DistinctStep ==
    ASSUME TypeOK, DataInvariant, [Next]_vars
    PROVE  EditsDistinct'
<1> USE DEF TypeOK
<1>1. edits' >= edits /\ edits' \in Nat
  BY DEF Next, vars, bounds, Running, Locking, Operating, Failing, Call, Boot, Restart, Open,
     Record, Look, GiveUp, Compare, Unlink, Release, Check, Recover, Write, Stage, Commit, Publish,
     Unstage, LockFails, OperationFails, PublishFails, Crash, CountFault, Age
<1>2. applied' = applied \/ \E p \in Proc : pc[p] \in {"write", "commit"} /\ applied' = applied \cup {edit[p]}
  BY StepKinds, QuietEffect, WriteEffect, CommitEffect DEF Write, Commit
<1>3. applied' \subseteq 1 .. edits'
  <2>1. \A p \in Proc : pc[p] \in {"write", "commit"} => edit[p] # 0
    BY DEF DataInvariant, CallsSound, Outside
  <2>2. applied \subseteq 1 .. edits'
    BY <1>1 DEF DataInvariant, EditsDistinct
  <2>3. \A p \in Proc : pc[p] \in {"write", "commit"} => edit[p] \in 1 .. edits'
    BY <1>1, <2>1
  <2>4. ASSUME NEW p \in Proc, pc[p] \in {"write", "commit"}, applied' = applied \cup {edit[p]}
        PROVE  applied' \subseteq 1 .. edits'
    <3>1. edit[p] \in 1 .. edits'
      BY <2>3, <2>4
    <3> QED BY <2>2, <2>4, <3>1
  <2> QED BY <1>2, <2>2, <2>4
<1>4. \/ edit' = edit
      \/ \E p \in Proc : edit' = [edit EXCEPT ![p] = 0] \/ edit' = [edit EXCEPT ![p] = edits + 1]
  BY DEF Next, vars, local, Running, Locking, Operating, Failing, Call, Boot, Restart, Open,
     Record, Look, GiveUp, Compare, Unlink, Release, Check, Recover, Write, Stage, Commit, Publish,
     Unstage, LockFails, OperationFails, PublishFails, Crash, Throw, Leave, Age
<1>5. \A p, q \in Proc : edit'[p] # 0 /\ p # q => edit'[p] # edit'[q]
  BY <1>4 DEF DataInvariant, EditsDistinct
<1> QED BY <1>3, <1>5 DEF EditsDistinct

LEMMA CallsStep ==
    ASSUME TypeOK, DataInvariant, [Next]_vars
    PROVE  CallsSound'
<1> USE DEF TypeOK, DataInvariant, CallsSound, files, local, bounds, Go, Leave, Throw,
        CountFault, Outside, Waiting, Holding
<1>1. UNCHANGED files => applied' = applied
  BY QuietEffect
<1>2. 0 \notin applied
  BY DEF EditsDistinct
<1>3. ASSUME NEW p \in Proc, NEW step \in Outside, Leave(p, step), applied' = applied
      PROVE  CallsSound'
  BY <1>2, <1>3
<1>4. ASSUME NEW p \in Proc, edit[p] # 0, applied' = applied \cup {edit[p]}, edit' = edit,
             NEW q \in Proc, q # p
      PROVE  edit[q] \in applied' <=> edit[q] \in applied
  BY <1>4 DEF EditsDistinct
<1>5. ASSUME NEW p \in Proc, NEW kind \in {"update", "commit"}, Call(p, kind)
      PROVE  CallsSound'
  <2>1. edits + 1 \notin applied /\ edits + 1 # 0 /\ applied' = applied
    BY <1>1, <1>5 DEF Call, EditsDistinct
  <2> QED BY <1>5, <2>1 DEF Call
<1>6. ASSUME NEW p \in Proc, Boot(p) \/ Restart(p) \/ GiveUp(p)
      PROVE  CallsSound'
  <2>1. CASE Boot(p)
    BY <1>1, <2>1 DEF Boot
  <2>2. CASE Restart(p)
    BY <1>1, <2>2 DEF Restart
  <2>3. CASE GiveUp(p)
    BY <1>1, <1>3, <2>3 DEF GiveUp
  <2> QED BY <1>6, <2>1, <2>2, <2>3
<1>7. ASSUME NEW p \in Proc, Locking(p)
      PROVE  CallsSound'
  <2>1. CASE Open(p)
    BY <1>1, <2>1 DEF Open
  <2>2. CASE Record(p)
    BY <1>1, <2>2 DEF Record
  <2>3. CASE Look(p)
    BY <1>1, <2>3 DEF Look
  <2>4. CASE Compare(p)
    BY <1>1, <2>4 DEF Compare
  <2>5. CASE Unlink(p)
    BY <1>1, <2>5 DEF Unlink
  <2>6. CASE Release(p)
    BY <1>1, <1>3, <2>6 DEF Release
  <2> QED BY <1>7, <2>1, <2>2, <2>3, <2>4, <2>5, <2>6 DEF Locking
<1>8. ASSUME NEW p \in Proc, Operating(p)
      PROVE  CallsSound'
  <2>1. CASE Check(p)
    BY <1>1, <2>1 DEF Check
  <2>2. CASE Recover(p)
    BY <2>2, QuietEffect DEF Recover
  <2>3. CASE Write(p)
    <3>1. edit[p] # 0 /\ applied' = applied \cup {edit[p]} /\ edit' = edit /\ op' = op
      BY <2>3, WriteEffect DEF Write
    <3>2. pc[p] = "write" /\ pc' = [pc EXCEPT ![p] = "release"] /\ ok' = [ok EXCEPT ![p] = TRUE]
      BY <2>3 DEF Write
    <3> QED BY <1>4, <3>1, <3>2
  <2>4. CASE Stage(p)
    BY <2>4, QuietEffect DEF Stage
  <2>5. CASE Commit(p)
    BY <1>4, <2>5, CommitEffect DEF Commit
  <2>6. CASE Publish(p)
    BY <2>6, QuietEffect DEF Publish
  <2>7. CASE Unstage(p)
    BY <2>7, QuietEffect DEF Unstage
  <2> QED BY <1>8, <2>1, <2>2, <2>3, <2>4, <2>5, <2>6, <2>7 DEF Operating
<1>9. ASSUME NEW p \in Proc, Failing(p)
      PROVE  CallsSound'
  <2>1. CASE LockFails(p)
    BY <1>1, <1>3, <2>1 DEF LockFails
  <2>2. CASE OperationFails(p)
    BY <2>2, QuietEffect DEF OperationFails
  <2>3. CASE PublishFails(p)
    BY <1>1, <2>3 DEF PublishFails
  <2>4. CASE Crash(p)
    BY <1>1, <1>3, <2>4 DEF Crash
  <2> QED BY <1>9, <2>1, <2>2, <2>3, <2>4 DEF Failing
<1>10. CASE Age
  BY <1>1, <1>10 DEF Age
<1>11. CASE UNCHANGED vars
  BY <1>1, <1>11 DEF vars
<1> QED
  BY <1>5, <1>6, <1>7, <1>8, <1>9, <1>10, <1>11 DEF Next, Running

LEMMA StoresStep ==
    ASSUME TypeOK, DataInvariant, [Next]_vars
    PROVE  StoresAgree'
<1>1. CASE UNCHANGED <<view, db>>
  BY <1>1 DEF DataInvariant, StoresAgree
<1>2. ASSUME NEW p \in Proc, Write(p) PROVE StoresAgree'
  <2>1. view'.rev = view.rev /\ view'.joint = view.joint /\ db' = db
    BY <1>2, WriteEffect DEF view, TypeOK, Contents
  <2> QED BY <2>1 DEF DataInvariant, StoresAgree
<1>3. ASSUME NEW p \in Proc, Commit(p) PROVE StoresAgree'
  <2>1. /\ view'.rev = edit[p] /\ view'.joint = view.joint \cup {edit[p]}
        /\ db'.rev = edit[p] /\ db'.joint = db.joint \cup {edit[p]}
    BY <1>3, CommitEffect
  <2> QED BY <2>1 DEF DataInvariant, StoresAgree
<1> QED BY <1>1, <1>2, <1>3, StepKinds, QuietEffect

LEMMA AckedStep ==
    ASSUME TypeOK, DataInvariant, [Next]_vars
    PROVE  NoEditLost'
<1>1. applied \subseteq applied'
  BY StepKinds, QuietEffect, WriteEffect, CommitEffect
<1>2. acked' = acked \/ \E p \in Proc : ok[p] /\ edit[p] # 0 /\ acked' = acked \cup {edit[p]}
  BY DEF Next, vars, Running, Locking, Operating, Failing, Call, Boot, Restart, Open, Record, Look,
     GiveUp, Compare, Unlink, Release, Check, Recover, Write, Stage, Commit, Publish, Unstage,
     LockFails, OperationFails, PublishFails, Crash, Age
<1>3. acked' \subseteq applied
  BY <1>2 DEF DataInvariant, CallsSound, NoEditLost, applied
<1> QED BY <1>1, <1>3 DEF NoEditLost, applied

LEMMA StageStep ==
    ASSUME TypeOK, AtMostOneHolder, DataInvariant, [Next]_vars
    PROVE  StageSound'
<1> USE DEF TypeOK, DataInvariant, StageSound, files, local, Go, Leave, Throw,
        Outside, Waiting, Holding
<1>1. ASSUME NEW p \in Proc, NEW q \in Proc, pc[p] \in Holding, pc[q] \in Holding PROVE p = q
  BY <1>1 DEF AtMostOneHolder
<1>2. ASSUME NEW p \in Proc, Operating(p) PROVE StageSound'
  <2>1. CASE Check(p)
    BY <1>1, <2>1 DEF Check
  <2>2. CASE Recover(p)
    BY <1>1, <2>2 DEF Recover
  <2>3. CASE Write(p)
    BY <1>1, <2>3 DEF Write
  <2>4. CASE Stage(p)
    BY <1>1, <2>4 DEF Stage
  <2>5. CASE Commit(p)
    <3>1. stage = [rev |-> edit[p], plain |-> file.plain, joint |-> file.joint \cup {edit[p]}]
      BY <2>5 DEF Commit
    <3>2. stage \in Contents /\ stage # NoStage /\ stage.rev = edit[p]
      BY <3>1 DEF Contents
    <3>3. stage' = stage /\ db'.rev = edit[p]
      BY <2>5 DEF Commit
    <3> QED BY <1>1, <2>5, <3>2, <3>3 DEF Commit
  <2>6. CASE Publish(p)
    BY <1>1, <2>6 DEF Publish
  <2>7. CASE Unstage(p)
    BY <1>1, <2>7 DEF Unstage
  <2> QED BY <1>2, <2>1, <2>2, <2>3, <2>4, <2>5, <2>6, <2>7 DEF Operating
<1>3. ASSUME NEW p \in Proc, OperationFails(p) PROVE StageSound'
  BY <1>1, <1>3 DEF OperationFails
<1>4. ASSUME UNCHANGED <<files, edit, copy>>,
             NEW p \in Proc, NEW step \in Outside \cup Waiting \cup {"record", "check", "release"}, Go(p, step)
      PROVE  StageSound'
  BY <1>4
<1>5. ASSUME NEW p \in Proc, NEW kind \in {"update", "commit"}, Call(p, kind) PROVE StageSound'
  BY <1>5 DEF Call
<1>6. ASSUME UNCHANGED files, NEW p \in Proc, NEW step \in Outside, Leave(p, step) PROVE StageSound'
  BY <1>6
<1>7. CASE Age \/ UNCHANGED vars
  BY <1>7 DEF Age, vars
<1>8. ASSUME NEW p \in Proc, Boot(p) \/ Restart(p) \/ GiveUp(p) PROVE StageSound'
  BY <1>4, <1>6, <1>8 DEF Boot, Restart, GiveUp
<1>9. ASSUME NEW p \in Proc, Locking(p) PROVE StageSound'
  BY <1>4, <1>6, <1>9 DEF Locking, Open, Record, Look, Compare, Unlink, Release
<1>10. ASSUME NEW p \in Proc, LockFails(p) \/ PublishFails(p) \/ Crash(p) PROVE StageSound'
  BY <1>4, <1>6, <1>10 DEF LockFails, PublishFails, Crash
<1> QED BY <1>2, <1>3, <1>5, <1>7, <1>8, <1>9, <1>10 DEF Next, Running, Failing

\* Given mutual exclusion, the data is sound in every behaviour.
LEMMA DataCorrect == Spec /\ []AtMostOneHolder => []DataInvariant
<1>1. Init => DataInvariant
  BY DEF Init, DataInvariant, StoresAgree, EditsDistinct, CallsSound, StageSound, NoEditLost,
     applied, view, Empty, Holding, Reclaiming, Outside
<1>2. TypeOK /\ AtMostOneHolder /\ DataInvariant /\ [Next]_vars => DataInvariant'
  BY StoresStep, DistinctStep, CallsStep, StageStep, AckedStep DEF DataInvariant
<1> QED BY <1>1, <1>2, TypeCorrect, PTL DEF Spec

\* Mutual exclusion is all that the acknowledged edits ask of the lock: whatever
\* is preempted, overruns or dies, an edit is lost only where two processes are
\* inside the lock at once.
THEOREM ExclusionKeepsEdits == Spec /\ []AtMostOneHolder => []NoEditLost
<1>1. DataInvariant => NoEditLost
  BY DEF DataInvariant
<1> QED BY <1>1, DataCorrect, PTL

\* The invariant of the lock and of the data it protects.
THEOREM InvariantCorrect ==
    ASSUME Guarded
    PROVE  Spec => []SecretsInvariant
<1>1. LockInvariant /\ DataInvariant => SecretsInvariant
  BY DEF SecretsInvariant
<1> QED BY <1>1, LockCorrect, MutualExclusion, DataCorrect, PTL

\* An edit whose operation returned is in the credentials for good: in the file,
\* or in a stage that startup will publish.
THEOREM NoEditLostCorrect ==
    ASSUME Guarded
    PROVE  Spec => []NoEditLost
BY MutualExclusion, ExclusionKeepsEdits, PTL

LEMMA StoreStep ==
    ASSUME TypeOK, DataInvariant, [Next]_vars
    PROVE  [Store!Next]_(Store!storeVars)
<1>1. CASE UNCHANGED <<view, db>>
  BY <1>1 DEF Store!storeVars
<1>2. ASSUME NEW p \in Proc, pc[p] \in {"write", "commit"}
      PROVE  edit[p] \in 1 .. MaxEdits /\ edit[p] \notin view.plain /\ edit[p] \notin view.joint
  <2>1. edit[p] # 0 /\ edit[p] \notin applied
    BY <1>2 DEF DataInvariant, CallsSound, Outside
  <2> QED BY <2>1 DEF TypeOK, applied
<1>3. ASSUME NEW p \in Proc, Write(p) PROVE Store!Next
  BY <1>2, <1>3, WriteEffect DEF Store!Next, Store!Update, Write
<1>4. ASSUME NEW p \in Proc, Commit(p) PROVE Store!Next
  BY <1>2, <1>4, CommitEffect DEF Store!Next, Store!Commit, Commit, DataInvariant, StoresAgree
<1> QED BY <1>1, <1>3, <1>4, StepKinds, QuietEffect DEF Store!Next

\* With mutual exclusion, file, stage and database are one store however the
\* processes interleave, fail and die: every step is an update of the credentials,
\* a commit of both, or invisible.
THEOREM ExclusionImplementsStore == Spec /\ []AtMostOneHolder => ImplementsStore
<1>1. Init => Store!Init
  BY DEF Init, Store!Init, view, Empty
<1>2. TypeOK /\ DataInvariant /\ [Next]_vars => [Store!Next]_(Store!storeVars)
  BY StoreStep
<1> QED BY <1>1, <1>2, DataCorrect, TypeCorrect, PTL DEF Spec, ImplementsStore, Store!Spec

\* Where the lock can be trusted, file, stage and database implement one store.
THEOREM StoreImplemented ==
    ASSUME Guarded
    PROVE  Spec => ImplementsStore
BY MutualExclusion, ExclusionImplementsStore, PTL

=============================================================================
