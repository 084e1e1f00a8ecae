SPECIFICATION Spec
CONSTANTS
    PROCESSOR_NUM = 3
    FIFO_len = 1
    Payload = 1
    BlockNum = 1
    total_p_num = 3
    Schedule <- MCSchedule
    NetDepth = 4
    TransDepth = 1
    UpdateDepth = 1
PROPERTIES
    ImplementsBroadcast
    ImplementsCreditRing
CHECK_DEADLOCK FALSE
