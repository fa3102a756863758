CONSTANTS
    Sessions <- Stale
    BLOCK_MAX = 4
    Capacity = 9
    PBA_PAGE = 2
    GoodKey = 1
SPECIFICATION Spec
INVARIANT ReadCorrect
