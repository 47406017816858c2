CONSTANTS
    Before <- MCBefore
    Beside <- MCBeside
    After <- MCAfter
    Rebuild <- MCRebuild
    Measured <- MCMeasured
CHECK_DEADLOCK FALSE
SPECIFICATION Spec
INVARIANT EveryMeasurementUploaded
