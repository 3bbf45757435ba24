SPECIFICATION FairSpec
CONSTANTS
    r1 = r1
    r2 = r2
    r3 = r3
    Runs <- ThreeRuns
    MaxAttempts = 2
    Workers = {w1, w2}
    Batch = 2
    Buffer = 2
    Weight <- Light
    SamePayload = FALSE
    MaxBreaks = 0
PROPERTIES
    EveryJobIsTaken
    KeepsQueuePromise
