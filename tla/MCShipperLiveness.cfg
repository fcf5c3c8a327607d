CONSTANTS
    BatchSize = 1
    MaxSpool = 2
    MaxTransient = 2
    IdsAscend = FALSE
    Malformed <- NoEvents
    Poison <- FirstEvent
    Faults <- FullDisk
    CanCancel = TRUE
    MaxEvents = 2
    MaxRestarts = 1
SPECIFICATION FairSpec
PROPERTIES EventsSettle ShutdownCompletes
CHECK_DEADLOCK FALSE
