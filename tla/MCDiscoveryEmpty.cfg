CONSTANTS
    Last = 4
    Slot <- MCSlot
    FirstPageLimit = 1
    PageLimit = 2
    ChunkSize = 2
    ArchivalStart = 0
    MaxFaults = 0
SPECIFICATION Spec
INVARIANT InvariantD
CHECK_DEADLOCK FALSE
