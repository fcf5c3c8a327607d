CONSTANTS
    BatchSize = 2
    MaxSpool = 2
    MaxTransient = 2
    IdsAscend = TRUE
    Malformed <- NoEvents
    Poison <- NoEvents
    Faults <- AllFaults
    CanCancel = TRUE
    MaxEvents = 3
    MaxRestarts = 1
SPECIFICATION Spec
INVARIANTS TypeOK NothingVanishes GoneForGood OneBatchPerEvent OnlyWholeBatches
PROPERTY ImplementsDelivery
CHECK_DEADLOCK FALSE
