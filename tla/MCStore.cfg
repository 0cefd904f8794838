SPECIFICATION Spec
CONSTANTS
    Key = {k1}
    Value = {v1, v2}
    Lease = {0}
    Compactor = {p1}
    Client = {c1, c2}
    MaxVersion = 4
    MaxRetry = 1
    NoValue = NoValue
    NoRequest = NoRequest
    OldUUID = OldUUID
SYMMETRY Symmetry
INVARIANTS
    TypeOK
    SubspacesAgree
    CurrentIsLatest
    AcknowledgedIsWritten
    GuardedWritesOnce
    RewritesWereUndone
    RefusedWasOvertaken
PROPERTIES
    MvccSpec
