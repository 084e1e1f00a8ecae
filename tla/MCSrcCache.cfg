SPECIFICATION FairSpec
CONSTANTS
    PE_NUM = 2
    CACHE_LINES = 4
    BURST = 2
    StreamDepth = 2
    CmdDepth = 1
    CoalesceDepth = 3
    AccessDepth = 2
    End = 20
    Input <- MCInput
INVARIANTS
    TypeOK
    DenseLanesMatch
    NeverStale
PROPERTY
    EventuallyFinished
