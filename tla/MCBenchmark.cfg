SPECIFICATION FairSpec
CONSTANTS
    Tenants = 2
    DocsPerTenant = 1
    SyncRuns = 3
    AsyncRuns = 2
    Concurrency = 2
    MaxAttempts = 3
    Failures = TRUE
INVARIANTS
    IndexesRunOnce
    ReportTellsOutcome
PROPERTY
    BenchmarkEnds
CHECK_DEADLOCK FALSE
