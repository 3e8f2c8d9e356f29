SPECIFICATION Spec
CONSTANTS
    tele = tele
    push = push
    a = a
    b = b
    w1 = w1
    w2 = w2
    HookRows = {}
    TelegramRows = {}
    PushRows = {push}
    Standing = {}
    Ref = {a, b}
    NoRef = NoRef
    Blocked = {}
    Run = {w1}
    NoRun = NoRun
    NoRow = NoRow
    NoItem = NoItem
    Batch = 2
    MaxAttempts = 2
    MaxChanges = 1
    MaxFaults = 0
CHECK_DEADLOCK FALSE
PROPERTIES
    FreshRegistrationStands
