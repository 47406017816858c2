CONSTANTS
    Before <- MCBefore
    Beside <- MCBeside
    After <- MCAfter
    Rebuild <- MCRebuild
    Measured <- MCMeasured
CHECK_DEADLOCK FALSE
SPECIFICATION FairSpec
INVARIANTS
    VerdictIsEarned
PROPERTIES
    RunEnds
    FailureReported
