SPECIFICATION FairSpec
CONSTANTS
    PROCESSOR_NUM = 2
    FIFO_len = 1
    Payload = 2
    BlockNum = 3
    total_p_num = 2
    Schedule <- MCSchedule
    NetDepth = 6
    TransDepth = 1
    UpdateDepth = 1
INVARIANTS
    TypeOK
    BlocksAtTheirAddress
    StoredMeansComplete
    NothingLeftBehind
    NoPacketLost
PROPERTIES
    ImplementsCreditRing
    ImplementsBroadcast
    EventuallyFinished
