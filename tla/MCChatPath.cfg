SPECIFICATION Spec
CONSTANTS
    MaxGeneration = 3
    CacheLimit = 2
    CacheTtl = 2
    StableAfter = 1
    MaxFrames = 2
    BufferLimit = 2
    RecentLimit = 4
    Budgets <- MCBudgets
INVARIANT HeardOnce
INVARIANT HandoverLosesNothing
INVARIANT ViewCatchesUp
CHECK_DEADLOCK FALSE
