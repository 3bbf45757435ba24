SPECIFICATION Spec
CONSTANTS
    r1 = r1
    r2 = r2
    w1 = w1
    w2 = w2
    p1 = p1
    p2 = p2
    Runs <- TwoRuns
    Workers <- TwoWorkers
    Resumers <- OneResumer
    MaxAttempts = 3
    Gates = 2
    AtomicLoad = TRUE
    Faults <- AllFaults
SYMMETRY Symmetry
INVARIANTS
    OneCopyPerRun
    JobsExcludeApprovals
    PendingMatchesStatus
    AttemptsAreExecutions
    UnfinishedIsCarried
PROPERTIES
    SettledStaysSettled
    KeepsPromise
