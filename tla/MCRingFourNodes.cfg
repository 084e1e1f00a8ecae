SPECIFICATION Spec
CONSTANTS
    PROCESSOR_NUM = 4
    FIFO_len = 1
    Payload = 1
    BlockNum = 1
    total_p_num = 4
    Schedule <- MCSchedule
    NetDepth = 6
    TransDepth = 1
    UpdateDepth = 1
INVARIANTS
    NoPacketLost
CHECK_DEADLOCK FALSE
