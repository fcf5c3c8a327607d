CONSTANTS
    Managers <- OneManager
    pushMaxSpoolSize = 1
    Poison <- NoPoison
    Faults <- OrderFaults
    CanCancel = FALSE
    MaxSamples = 2
    MaxScans = 2
    MaxRestarts = 1
SPECIFICATION Spec
INVARIANT SpoolBounded
PROPERTIES OldestFirst SnapshotsOnce ImplementsTelemetry
CHECK_DEADLOCK FALSE
