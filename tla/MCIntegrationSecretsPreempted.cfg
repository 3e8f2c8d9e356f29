SPECIFICATION Spec
CONSTANTS
    p1 = p1
    p2 = p2
    t1 = t1
    t2 = t2
    Proc = {p1, p2}
    LockText = {t1, t2}
    NoText = NoText
    NoLock = NoLock
    NoStage = NoStage
    Preempted = TRUE
    Overruns = FALSE
    MaxEdits = 2
    MaxFaults = 1
CHECK_DEADLOCK FALSE
PROPERTIES
    LiveLockStands
