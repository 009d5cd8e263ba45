SPECIFICATION LoadSpec
CONSTANTS
    r1 = r1
    r2 = r2
    r3 = r3
    k1 = k1
    k2 = k2
    None = None
    Nobody = Nobody
    Requests <- ThreeRequests
    Mine <- MyRequests
    Batch = 1
    Connections <- TwoConnections
    Faults <- EveryFault
    MayCrash = TRUE
INVARIANT IInv
INVARIANT ClientInv
INVARIANT FailedWorkLeavesNoPost
INVARIANT SuccessMeansAnnounced
INVARIANT UnknownOnlyAfterError
PROPERTY CreatesPosts
PROPERTY EveryCreateAnswered
PROPERTY ClientMovesOn
