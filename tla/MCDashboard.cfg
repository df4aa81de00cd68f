CONSTANTS
    Keys <- MCKeys
    Setups <- MCSetups
    MemoAge = 2
    MaxAge = 1
    Swr = 1
    Refresh = 2
    MaxCached = 1
    MaxClicks = 2
    MaxOutages = 1
SPECIFICATION Spec
INVARIANT DashboardInv
INVARIANT ShownAgeBounded
INVARIANT CopiesAreListed
INVARIANT PageAgrees
PROPERTY RecoversFromOutage
