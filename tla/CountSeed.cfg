SPECIFICATION Spec
CONSTANTS
    Key = {1, 2}
    Value = {1}
    Lease = {0}
    Compactor = {}
    MaxVersion = 4
    Caller = {c1}
    Prefixes <- BothKeys
    MaxBatchSize = 2
    AllSweeps = FALSE
INVARIANT SeedExact
