CONSTANTS
    s1 = s1
    s2 = s2
    s3 = s3
    r1 = r1
    r2 = r2
    Sigs = {s1, s2, s3}
    Slot <- MCSlot
    Day <- MCDay
    Versions = {1, 2}
    Width <- MCWidth
    RunIds = {r1, r2}
    NoRun = NoRun
    MaxAttempts = 2
    Retention = 1
    GapWindow = 2
    LastDay = 3
SPECIFICATION Spec
SYMMETRY RunSymmetry
INVARIANTS
    TypeOK
    QueueLedgerDisjoint
    DailyIsRecompute
    CountedOnce
    NothingLost
    QueueNeverRefused
    YoungGapStaysRepairable
    Inv
PROPERTIES
    SealedForever
    ImplementsLedger
CHECK_DEADLOCK FALSE
