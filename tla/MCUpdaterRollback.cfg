CONSTANTS
    MaxVersion = 4
    Bad <- Third
    CrashPoints <- Installing
    Faults <- ReplaceFault
    Downgrades = FALSE
    Interleaved = FALSE
    updateMaxBackups = 2
    updateMaxRestarts = 3
    MaxTerms = 2
    MaxCrashes = 3
    MaxInstalls = 4
SPECIFICATION FairSpec
INVARIANTS TypeOK BackupStaged
PROPERTIES RollsBackToReplaced CrashLoopEnds
CHECK_DEADLOCK FALSE
