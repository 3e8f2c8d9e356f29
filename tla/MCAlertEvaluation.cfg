SPECIFICATION FairSpec
CONSTANTS
    r1 = r1
    s1 = s1
    s2 = s2
    Rule = {r1}
    Sensor = {s1, s2}
    Reporting = {s1}
    AnySensor = AnySensor
    Value = {0, 1}
    Threshold = {1}
    Duration = 1
    FreshFor = 1
    Lead = 1
    Escalation = 1
    Reminder = 2
    Stale = Stale
    None = None
    NoRule = NoRule
    Retired = Retired
    NoState = NoState
    NoAlert = NoAlert
    NoSample = NoSample
    MaxTime = 2
    MaxSamples = 3
    MaxEdits = 1
    MaxFaults = 1
CHECK_DEADLOCK FALSE
INVARIANTS
    TypeOK
    AlertInvariant
    TickComplete
PROPERTIES
    NothingSkipped
    ImplementsEpisodes
    QueueDrains
    DueIsRaised
    EscalationComes
