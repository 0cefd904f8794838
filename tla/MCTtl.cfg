SPECIFICATION Spec
CONSTANTS
    Key = {1, 2}
    Value = {1}
    Lease = {0, 1}
    Compactor = {p1}
    MaxVersion = 5
    PageSize = 1
    LastWrite = 3
    AllSweeps = FALSE
INVARIANTS
    TypeOK
    EntriesScheduled
    LeasesKnown
PROPERTIES
    NeverEarly
CHECK_DEADLOCK FALSE
