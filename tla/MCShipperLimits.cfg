CONSTANTS
    BatchSize = 2
    MaxSpool = 2
    MaxTransient = 2
    IdsAscend = TRUE
    Malformed <- SecondEvent
    Poison <- NoEvents
    Faults <- TidyFaults
    CanCancel = FALSE
    MaxEvents = 5
    MaxRestarts = 1
SPECIFICATION Spec
INVARIANTS SpoolWithinBudget
PROPERTY EvictsOldestOnly
CHECK_DEADLOCK FALSE
