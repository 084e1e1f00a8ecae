SPECIFICATION DeploymentSpec
CONSTANTS
    PROCESSOR_NUM = 3
    KERNEL_NUM = 2
    SUPER_STEP = 1
    total_p_num = 3
    PartPackets = 1
    edgeList <- MCedgeList
    TARGET_RANGE = 2
    numThreads = 1
    numSLRs = 2
    blockSize = 1
    ALIGN = 2
    exe_time <- MCsplit_time
    RANDOM_NUM = 1
    APPLY_TIME = 2
INVARIANT
    EveryEdgeLoadedOnce
