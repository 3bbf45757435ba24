SPECIFICATION Spec
CONSTANTS
    RawIds <- SentIds
    Trimmed <- Unspaced
    Blank <- NoBlank
    Family = "spaced"
    Definitions <- Submitted
    MaxAttempts = 2
INVARIANTS
    EdgesLeadToNodes
