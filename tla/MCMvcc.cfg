SPECIFICATION Spec
CONSTANTS
    Key = {k1, k2}
    Value = {v1}
    Lease = {0}
    Compactor = {p1, p2}
    MaxVersion = 6
SYMMETRY Symmetry
INVARIANTS
    TypeOK
    CompactionInvisible
    PinnedReadsGenuine
    HistoryChain
