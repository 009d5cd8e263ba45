SPECIFICATION FairSpec
CONSTANTS
    c1 = c1
    c2 = c2
    Service = Service
    Calls <- TwoCalls
    NumThreads = 2
    Payload = 1
    Output = 1
    Capacity = 1
    HighEnds <- WriteEnds
    CallFaults <- NoFaults
    ChildFaults = FALSE
CHECK_DEADLOCK FALSE
PROPERTY EofReachesChild
