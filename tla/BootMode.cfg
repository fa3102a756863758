SPECIFICATION FairSpec
CONSTANTS
    PARAMETER_NUM = 2
    ImageSets <- Alike
    MaxFails = 1
INVARIANTS
    TypeOK
    NotTwice
    WipeKept
    FallBackInOrder
    BInv
PROPERTIES
    RecoveryFirst
    ComesToRest
