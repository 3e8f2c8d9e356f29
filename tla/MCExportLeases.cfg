SPECIFICATION Spec
CONSTANTS
    e1 = e1
    c1 = c1
    w1 = w1
    w2 = w2
    Job = {e1, c1}
    Canary = {c1}
    Worker = {w1}
    NoWorker = NoWorker
    NoRow = NoRow
    Lease = 3
    Grace = 2
    Margin = 2
    Limit = 1
    MaxAttempts = 1
    MaxPending = 1
    MaxTrouble = 2
INVARIANTS
    TypeOK
    OwnMail
    PendingBounded
    
    DrivesUnderLease
PROPERTIES
    ImplementsRequests
