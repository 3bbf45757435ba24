SPECIFICATION FairSpec
CONSTANTS
    r1 = r1
    r2 = r2
    w1 = w1
    w2 = w2
    p1 = p1
    p2 = p2
    Runs <- OneRun
    Workers <- OneWorker
    Resumers <- OneResumer
    MaxAttempts = 3
    Gates = 0
    AtomicLoad = TRUE
    Faults <- LookupFaults
PROPERTIES
    LookupFailuresExhaust
