SPECIFICATION Spec
CONSTANTS
    k1 = k1
    Key = {k1}
    Value = {v1}
    Lease = {0}
    Compactor = {p1}
    MaxVersion = 4
    Watcher = {w1}
    Watched <- OneWatched
    MaxBatchSize = 2
    SubCap = 1
    LocalWrites = FALSE
    AllSweeps = FALSE
INVARIANT Reliable
