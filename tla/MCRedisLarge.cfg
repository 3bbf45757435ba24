SPECIFICATION FairSpec
CONSTANTS
    r1 = r1
    r2 = r2
    r3 = r3
    Runs <- TwoRuns
    MaxAttempts = 2
    Workers = {w1, w2}
    Batch = 2
    Buffer = 2
    Weight <- Heavy
    SamePayload = FALSE
    MaxBreaks = 0
PROPERTY
    EveryJobIsTaken
