SPECIFICATION FairSpec
CONSTANTS
    c1 = c1
    c2 = c2
    Service = Service
    Calls <- TwoCalls
    NumThreads = 2
    Payload = 2
    Output = 2
    Capacity = 1
    HighEnds <- NoEnds
    CallFaults <- AllFaults
    ChildFaults = TRUE
INVARIANT IInv
INVARIANT OnlyOwnEnds
INVARIANT ReplyIsWhole
INVARIANT DescriptorsReturned
INVARIANT WriterHasReader
INVARIANT WaitsForOwnChild
PROPERTY EveryCallEnds
