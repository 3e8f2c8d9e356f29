SPECIFICATION FairSpec
CONSTANTS
    p1 = p1
    p2 = p2
    t1 = t1
    t2 = t2
    Proc = {p1, p2}
    LockText = {t1, t2}
    NoText = NoText
    NoLock = NoLock
    NoStage = NoStage
    Preempted = FALSE
    Overruns = FALSE
    MaxEdits = 3
    MaxFaults = 2
CHECK_DEADLOCK FALSE
INVARIANTS
    TypeOK
    AtMostOneHolder
    NoEditLost
    SecretsInvariant
PROPERTIES
    LiveLockStands
    ImplementsStore
    StageSettles
