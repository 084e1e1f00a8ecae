SPECIFICATION Spec
CONSTANTS
    edgeList <- MCedgeList
    TARGET_RANGE = 3
    numThreads = 2
    numSLRs = 2
    blockSize = 1
    ALIGN = 2
INVARIANT
    LargestAreSplit
CHECK_DEADLOCK FALSE
