CONSTANTS
    s1 = s1
    s2 = s2
    s3 = s3
    Sigs = {s1, s2, s3}
    Slot <- MCSlot
    Day <- MCDay
    Text <- MCText
    Versions = {1}
    Width <- MCWidth
    RunIds = {r1, r2, r3, r4}
    NoRun = NoRun
    MaxAttempts = 2
    Retention = 2
    GapWindow = 1
    LastDay = 4
    ChunkSize = 1
    BatchSize = 2
    GapLimit = 2
    Unstorable = {s2}
    LagCrossesMidnight = TRUE
    MaxFaults = 1
SPECIFICATION IndexerSpec
INVARIANT InvariantD
CHECK_DEADLOCK FALSE
