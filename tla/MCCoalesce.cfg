SPECIFICATION FairSpec
CONSTANTS
    Lane = 3
    Depth = 2
    Input <- MCInput
INVARIANT
    TypeOK
PROPERTY
    ImplementsRequests
    NoRequestHeldBack
