SPECIFICATION TrailSpec
CONSTANTS
    RawIds <- SentIds
    Trimmed <- Unspaced
    Blank <- NoBlank
    Family = "short"
    Definitions <- Submitted
    MaxAttempts = 2
    Postgres = FALSE
    MaxEvents = 9
    MaxRefused = 1
INVARIANTS
    StepsAreAudited
    TrailTellsOutcome
CHECK_DEADLOCK FALSE
