SPECIFICATION Spec
CONSTANTS
    r1 = r1
    r2 = r2
    p1 = p1
    NoPost = NoPost
    Posts <- OnePost
    Requests <- TwoRequests
    Kinds <- Staging
    NumThreads = 2
    PoolSize = 2
    Faults <- StagingFaults
    Overlap = TRUE
    MaxRestarts = 0
    MayStop = FALSE
INVARIANT ResultClearedOnce
