SPECIFICATION FairSpec
CONSTANTS
    old = old
    new = new
    NBlocks = 3
    IDB_COPIES = 3
    Pieces = 2
    Versions <- TwoVersions
    Lists <- UpdateLists
    MaxLosses = 1
    MaxFaults = 4
    MaxRequests = 1
INVARIANTS SoundUpdateSurvives ResultTrue OneCopyPerMishap TriedTwiceAtMost IInv
PROPERTIES ComesUp
CHECK_DEADLOCK FALSE
