SPECIFICATION FairSpec
CONSTANTS
    Runs = {r1, r2, r3, r4}
    MaxAttempts = 2
    Workers = {w1, w2}
    Capacity = 1
    Deadlines = TRUE
INVARIANTS
    RefusedJobsAreGone
PROPERTIES
    QueuedJobsAreTaken
    KeepsQueuePromise
CHECK_DEADLOCK FALSE
