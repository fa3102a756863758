SPECIFICATION Spec
CONSTANTS
    Images <- AllImages
    Scripts <- AllScripts
    Partitions = {"system", "boot", "userdata"}
    Verified = {"boot"}
    NoPtn = NoPtn
    BLK = 3
    TRANS = 6
    FILEHDR = 1
    CHUNKHDR = 2
    CMD = 2
    EACH = 12
    TOTAL = 24
    PAGE = 4
    MaxScripts = 1
    Faults = {"write", "write_early"}
INVARIANTS
    NextPacketIsCommand
CHECK_DEADLOCK FALSE
