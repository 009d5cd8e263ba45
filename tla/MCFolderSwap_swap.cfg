SPECIFICATION FairSpec
CONSTANTS
    t1 = t1
    t2 = t2
    p1 = p1
    p2 = p2
    Absent = Absent
    Torn = Torn
    Threads <- TwoThreads
    Pages <- TwoPages
    Overlap = FALSE
    Faults <- ForwardFaults
    MaxRenders = 3
    MaxCrashes = 0
INVARIANT OutageOnlyInSwap
INVARIANT LeftoverIsRedundant
PROPERTY PublishesPages
PROPERTY FailureKeepsPage
PROPERTY OutageEnds
