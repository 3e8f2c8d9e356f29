SPECIFICATION FairSpec
CONSTANTS
    tele = tele
    push = push
    a = a
    b = b
    w1 = w1
    w2 = w2
    HookRows = {}
    TelegramRows = {tele}
    PushRows = {push}
    Standing = {push}
    Ref = {a, b}
    NoRef = NoRef
    Blocked = {}
    Run = {w1, w2}
    NoRun = NoRun
    NoRow = NoRow
    NoItem = NoItem
    Batch = 2
    MaxAttempts = 2
    MaxChanges = 1
    MaxFaults = 1
CHECK_DEADLOCK FALSE
INVARIANTS
    TypeOK
    OutboxInvariant
    NotRerouted
PROPERTIES
    ImplementsLedger
    EverySettles
