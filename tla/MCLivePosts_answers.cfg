SPECIFICATION FairSpec
CONSTANTS
    r1 = r1
    r2 = r2
    p1 = p1
    NoPost = NoPost
    Posts <- OnePost
    Requests <- TwoRequests
    Kinds <- EveryKind
    NumThreads = 1
    PoolSize = 1
    Faults <- EveryFault
    Overlap = TRUE
    MaxRestarts = 1
    MayStop = TRUE
PROPERTY EveryRequestAnswered
INVARIANT IInv
INVARIANT ResultGivenBack
