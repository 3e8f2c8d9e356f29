SPECIFICATION FairSpec
CONSTANTS
    temp = temp
    hum = hum
    reading = reading
    demo = demo
    Key = {temp, reading, demo}
    Synthetic = {demo}
    NumTables = 2
    TableOf <- MCTableOf
    LiveTable = 1
    MutableTable = {2}
    Projection <- MCProjection
    Compactable = {temp, reading, demo}
    BatchSize = 2
    MaxQueued = 2
    Collisions = TRUE
    MaxWrites = 3
    MaxFaults = 0
PROPERTY
    Recovers
