CONSTANTS
    BaseRate = 60
    MinRate = 15
    CreepAfter = 3
    Max429 = 3
    Backoffs <- MCBackoffs
    RetryAfters = {0, 100}
    Durations = {0, 15}
    Elfs <- MCElfs
    Tables <- MCTables
    Sections <- MCSections
    KnownKind <- MCKnownKind
    Tails = {0, 1}
    MaxUpgrades = 2
    MaxDetections = 3
    Version = 2
    MaxSlot = 3
    MaxReads = 4
    Instructions <- MCInstructions
    MaxIxs = 4
    MaxHeight = 3
    MaxCounted = 3
    Details = {"4018", "below 3001"}

SPECIFICATION Spec

INVARIANTS
    RpcInv
    DeploymentIsCurrent
    ChecksAgree
    CountedOnce

CHECK_DEADLOCK FALSE
