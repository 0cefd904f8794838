SPECIFICATION Spec
CONSTANTS
    Key = {1, 2}
    Value = {2, 3}
    Lease = {0}
    Compactor = {p1}
    MaxVersion = 4
    ChunkSize = 2
    Requests <- ListRequests
    Pins = {0, 2}
    AllSweeps = FALSE
INVARIANTS
    TypeOK
    CurrentIsCut
    ListedWereLive
    RetainedAreListed
