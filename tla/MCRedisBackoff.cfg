SPECIFICATION Spec
CONSTANTS
    r1 = r1
    r2 = r2
    r3 = r3
    Runs <- TwoRuns
    MaxAttempts = 2
    Workers = {w1, w2}
    Batch = 2
    Buffer = 2
    Weight <- Light
    SamePayload = TRUE
    MaxBreaks = 0
PROPERTY
    RetriesWait
