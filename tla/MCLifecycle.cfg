CONSTANTS
    MaxSig = 1
    MaxGen = 2
    MaxFaults = 4
    MaxManual = 1
    BeatAges <- MCBeatAges
SPECIFICATION Spec
INVARIANT LifecycleInv
INVARIANT OkRunIsComplete
INVARIANT FailuresAreSeen
INVARIANT StalledQueueFails
PROPERTY PromotionKeepsDiscoveries
PROPERTY RebuildFinishes
