SPECIFICATION DeploymentSpec
CONSTANTS
    PROCESSOR_NUM = 2
    KERNEL_NUM = 2
    SUPER_STEP = 2
    total_p_num = 3
    PartPackets = 1
    edgeList <- MCedgeList
    TARGET_RANGE = 2
    numThreads = 3
    numSLRs = 2
    blockSize = 1
    ALIGN = 2
    exe_time <- MCexe_time
    RANDOM_NUM = 2
    APPLY_TIME = 2
INVARIANTS
    TypeOK
    FilesFitKernels
    AppliesApart
    EveryEdgeLoadedOnce
    NetworkReady
    SnapshotComplete
    CopiesAgree
    SentResultsAreFinal
    NoPacketFromAnotherStep
PROPERTIES
    EventuallyAllEnd
    ImplementsSuperstep
