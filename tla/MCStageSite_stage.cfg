SPECIFICATION SiteSpec
CONSTANTS
    r1 = r1
    r2 = r2
    r3 = r3
    p1 = p1
    p2 = p2
    NoPost = NoPost
    Absent = Absent
    Torn = Torn
    Posts <- TwoPosts
    Requests <- ThreeRequests
    Kinds <- Staging
    NumThreads = 2
    PoolSize = 2
    Faults <- LoudFaults
    SwapFaults <- ForwardFaults
    Overlap = FALSE
    MaxRestarts = 1
    MayStop = TRUE
SYMMETRY Symmetry
INVARIANT SiteIInv
INVARIANT EventFollowsPage
INVARIANT SuccessMeansPublished
INVARIANT SiteCatchesUp
INVARIANT NewestIsServed
INVARIANT CopySurvives
INVARIANT ExitIsOrderly
PROPERTY ImplementsLivePosts
