SPECIFICATION FairSpec
CONSTANTS
    Type <- Modules
    BlockSize = 2
    BULK_MAX = 6
    WordsPerPacket = 2
    MemSize = 14
    Load <- Segment
    Write <- LastByte
    Read <- LastByte
    Depth = 1
    FifoDepth = 1
    OvMax = 3
    MaxEvents = 3
INVARIANTS
    TypeOK
    WakeupMeetsWaiter
    ReplyMatches
    EnumerationComplete
    EventHandled
    ReadExact
    MamFraming
    TraceGapsReported
PROPERTY
    CallsReturn
