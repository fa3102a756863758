CONSTANTS
    Sessions <- AllSessions
    BLOCK_MAX = 4
    Capacity = 9
    PBA_PAGE = 2
    GoodKey = 1
SPECIFICATION FairSpec
INVARIANTS
    TypeOK
    ReadCorrect
    WrittenAsAnswered
    NextPacketIsCommand
    NoRequestStranded
    RInv
    AnswerFits
    QueuedToEnabled
PROPERTIES
    BuffersNotShared
    AnswersCommands
