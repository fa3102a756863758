SPECIFICATION FairSpec
CONSTANTS
    Images <- AllImages
    Scripts <- AllScripts
    Partitions = {"system", "boot", "userdata"}
    Verified = {"boot"}
    NoPtn = NoPtn
    BLK = 3
    TRANS = 6
    FILEHDR = 1
    CHUNKHDR = 2
    CMD = 2
    EACH = 12
    TOTAL = 24
    PAGE = 4
    MaxScripts = 3
    Faults = {"write", "power", "reset"}
INVARIANTS
    TypeOK
    NextPacketIsCommand
    ReadsApart
    FlashTrue
    CacheFits
    WrittenIsImage
    ImageComplete
    FInv
PROPERTIES
    LockedUntouched
    Streams
    SessionEnds
CHECK_DEADLOCK TRUE
