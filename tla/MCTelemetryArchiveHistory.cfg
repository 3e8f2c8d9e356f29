SPECIFICATION Spec
CONSTANTS
    temp = temp
    hum = hum
    reading = reading
    demo = demo
    Key = {temp, hum, reading}
    Synthetic = {}
    NumTables = 2
    TableOf <- MCTableOf
    LiveTable = 1
    MutableTable = {2}
    Projection <- MCProjection
    Compactable = {hum, reading}
    BatchSize = 2
    MaxQueued = 2
    Collisions = TRUE
    MaxWrites = 3
    MaxFaults = 2
INVARIANTS
    ArchiveInvariant
    RevisionOrder
PROPERTIES
    KeepsHistory
