SPECIFICATION Spec
CONSTANTS
    RawIds <- SentIds
    Trimmed <- Unspaced
    Blank <- NoBlank
    Family = "graphs"
    Definitions <- Submitted
    MaxAttempts = 2
INVARIANTS
    ExecutedIsAcyclic
