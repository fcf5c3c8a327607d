CONSTANTS
    scrape = scrape
    push = push
    db1 = db1
    db2 = db2
    none = none
    Gatherers <- TwoGatherers
    Keys <- TwoKeys
    Qid <- OneQueryId
    Dims <- TwoDims
    Costs <- FastAndSlow
    Buckets <- FourBuckets
    topStatementsN = 1
    topMetaN = 2
    Faults <- NoFaults
    Nobody = none
    MaxRuns = 3
    MaxResets = 0

SPECIFICATION Spec

PROPERTY HistogramGuarded

CHECK_DEADLOCK FALSE
