SPECIFICATION TenantSpec
CONSTANTS
    short = short
    middle = middle
    huge = huge
    t1 = t1
    t2 = t2
    NotFound = NotFound
    Tenants = {t1, t2}
    DocumentIds = {1, 2}
    WorkflowIds = {w1}
    RunIds = {r1}
    w1 = w1
    r1 = r1
    Words = {short, middle, huge}
    Length <- Lengths
    Contains <- Matches
    Configs <- SomeConfigs
    Queries <- SomeQueries
    MaxChunkSize = 6
    MaxWords = 3
    MaxAttempts = 2
SYMMETRY TenantSymmetry
INVARIANTS
    WordsAreKept
    ChunksAreFull
    RepositoriesAgree
    RetrievalIsBest
    TextIsFound
PROPERTY
    TenantsAreIsolated
CHECK_DEADLOCK FALSE
