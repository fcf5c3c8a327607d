CONSTANTS
    scrape = scrape
    push = push
    db1 = db1
    db2 = db2
    none = none
    Gatherers <- TwoGatherers
    Keys <- TwoKeys
    Qid <- OneQueryId
    Dims <- TwoDims
    Costs <- FastAndSlow
    Buckets <- FourBuckets
    topStatementsN = 1
    topMetaN = 2
    Faults <- AllFaults
    Nobody = none
    MaxRuns = 4
    MaxResets = 1

SPECIFICATION Spec

INVARIANTS
    TypeOK
    NoCallCountedTwice
    NothingMissed
    LatenciesWithinBounds
    OneOffsStayOut
    EmittedHasText

SYMMETRY Interchangeable

CHECK_DEADLOCK FALSE
