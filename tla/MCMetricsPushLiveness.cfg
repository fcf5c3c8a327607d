CONSTANTS
    Managers <- OneManager
    pushMaxSpoolSize = 1
    Poison <- FirstSample
    Faults <- LossFaults
    CanCancel = TRUE
    MaxSamples = 2
    MaxScans = 1
    MaxRestarts = 1
SPECIFICATION FairSpec
INVARIANTS TypeOK ItemsAccounted
PROPERTY ItemsSettle
CHECK_DEADLOCK FALSE
