CONSTANTS
    MaxVersion = 3
    Bad <- Third
    CrashPoints <- Running
    Faults <- None
    Downgrades = FALSE
    Interleaved = TRUE
    updateMaxBackups = 2
    updateMaxRestarts = 3
    MaxTerms = 0
    MaxCrashes = 3
    MaxInstalls = 2
SPECIFICATION Spec
PROPERTY RollsBackToReplaced
CHECK_DEADLOCK FALSE
