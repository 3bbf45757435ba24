SPECIFICATION Spec
CONSTANTS
    RawIds <- SentIds
    Trimmed <- Unspaced
    Blank <- NoBlank
    Family = "all"
    Definitions <- Submitted
    MaxAttempts = 2
INVARIANTS
    BuildGraphSucceeds
    WalkIsFollowed
    OutputsMatchExecuted
    StatusMatchesSteps
PROPERTY
    HistoryIsKept
CHECK_DEADLOCK FALSE
