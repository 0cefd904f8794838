SPECIFICATION FairSpec
CONSTANTS
    Key = {1, 2}
    Value = {1}
    Lease = {0}
    Compactor = {p1}
    MaxVersion = 4
    Caller = {c1}
    Prefixes <- BothKeys
    MaxBatchSize = 2
    AllSweeps = FALSE
INVARIANTS
    TypeOK
    TrackedExact
    AnswerIsRecent
PROPERTY Converges
