CONSTANTS
    r1 = r1
    r2 = r2
    Registration = {r1, r2}
    Plan <- MCPlan
    Window = 1
    LookBack = 1
    LookAhead = 2
    LastTs = 2
    FullTrace = 2
    Whole = 2
    LastVersion = 1
    Client <- MCClient
    RouteOf <- MCRouteOf
    BatchPlans <- MCBatchPlans
    Inventory <- MCInventory
    Threads = 1
    BucketSize = 2
    Samples = 2
    LastSecond = 4
    Build = {"b1", "b2", "b3"}
    Baseline = {"b1", "b2"}
    Batches <- MCBatches
    Level = {20, 40}
    Results <- MCResults
SYMMETRY RegistrationSymmetry
CHECK_DEADLOCK FALSE
SPECIFICATION MCSpec
INVARIANTS
    AttributionIsExact
    FiguresAgree
    LoneTraceIsWhole
    CacheIsTransparent
    DownloadedOnce
    LevelIsTheBatch
    PassesAreFound
    ReportsAgree
    ComparisonIsFair
