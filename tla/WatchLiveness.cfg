SPECIFICATION FairSpec
CONSTANTS
    k1 = k1
    Key = {k1, k2}
    Value = {v1}
    Lease = {0}
    Compactor = {}
    MaxVersion = 3
    Watcher = {w1}
    Watched <- OneWatched
    MaxBatchSize = 2
    SubCap = 1
    LocalWrites = TRUE
    AllSweeps = FALSE
PROPERTY EventuallySent
