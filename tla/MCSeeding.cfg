SPECIFICATION Spec
CONSTANTS
    api1 = api1
    api2 = api2
    Apis <- TwoApis
    Workers = {worker}
    Configs <- Deployed
    MaxStarts = 3
    Faults = TRUE
SYMMETRY Symmetry
INVARIANTS
    StartsSucceed
    ServedKeysWork
    AnswersAreConfigured
    UndisturbedMatchesMemory
\* MaxStarts is used up and every process has died.
CHECK_DEADLOCK FALSE
