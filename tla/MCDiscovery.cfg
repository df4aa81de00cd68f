CONSTANTS
    Last = 4
    Slot <- MCSlot
    FirstPageLimit = 1
    PageLimit = 2
    ChunkSize = 2
    ArchivalStart = 1
    MaxFaults = 2
SPECIFICATION FairSpec
INVARIANTS
    TypeOK
    InvariantD
    PagesCoverFeed
    Inv
PROPERTIES
    FrontierMovesLast
    EventuallyQueued
CHECK_DEADLOCK FALSE
