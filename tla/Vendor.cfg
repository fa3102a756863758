SPECIFICATION Spec
CONSTANTS
    a = a
    b = b
    Ids <- TwoIds
    Vals = {1, 2}
    Sizes <- TwoSizes
    ALIGN = 2
    DataSize = 4
    PartNum = 4
    MaxVersion = 7
    MaxFails = 2
INVARIANTS
    Durable
    NewestSpared
    IInv
    ItemsDisjoint
PROPERTIES
    CrashAtomic
    Atomic
CHECK_DEADLOCK TRUE
CONSTRAINT LongOrWide
