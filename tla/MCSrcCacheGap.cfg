SPECIFICATION Spec
CONSTANTS
    PE_NUM = 2
    CACHE_LINES = 4
    BURST = 2
    StreamDepth = 2
    CmdDepth = 2
    CoalesceDepth = 3
    AccessDepth = 3
    End = 20
    Input <- MCInput
INVARIANT
    LanesMatch
