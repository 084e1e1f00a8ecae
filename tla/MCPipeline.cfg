SPECIFICATION PipelineSpec
CONSTANTS
    ActiveBit = 1048576
    l2 = "pr"
    PE_NUM = 2
    EDGE_NUM = 2
    Words = 2
    BURSTS = 2
    MapDepth = 1
    EdgeDepth = 3
    TupleDepth = 2
    FilterDepth = 1
    BuildDepth = 1
    WriteDepth = 1
    CacheDepth = 3
    Vertex = {0, 1, 2}
    property <- MCproperty
    Edges <- MCEdges
    KERNEL_NUM = 3
    scheduleItem <- MCscheduleItem
    vertexProp <- MCvertexProp
    outDegree <- MCoutDegree
    PathDepth = 1
    OtherBursts <- MCOtherBursts
    applyFunc <- MCapplyFunc
INVARIANTS
    TypeOK
    EveryEdgeOnce
    NothingLeft
    ResultsInPlace
    PathIsEmpty
PROPERTY
    EventuallyFinished
