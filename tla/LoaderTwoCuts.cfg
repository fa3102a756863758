SPECIFICATION Spec
CONSTANTS
    old = old
    new = new
    NBlocks = 2
    IDB_COPIES = 3
    Pieces = 2
    Versions <- TwoVersions
    Lists <- OneUpdate
    MaxLosses = 2
    MaxFaults = 0
    MaxRequests = 1
INVARIANTS OneGoodKept
CHECK_DEADLOCK FALSE
