CONSTANTS
    MaxVersion = 3
    Bad <- Second
    CrashPoints <- Everywhere
    Faults <- AllFaults
    Downgrades = TRUE
    Interleaved = TRUE
    updateMaxBackups = 2
    updateMaxRestarts = 3
    MaxTerms = 2
    MaxCrashes = 3
    MaxInstalls = 3
SPECIFICATION Spec
PROPERTIES RollbackIsWhole RollbackNeedsCrashes RollsBackOnce
CHECK_DEADLOCK FALSE
