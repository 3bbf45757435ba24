SPECIFICATION TrailSpec
CONSTANTS
    RawIds <- SentIds
    Trimmed <- Unspaced
    Blank <- NoBlank
    Family = "short"
    Definitions <- Submitted
    MaxAttempts = 2
    Postgres = TRUE
    MaxEvents = 9
    MaxRefused = 0
INVARIANT
    StepsAreAudited
CHECK_DEADLOCK FALSE
