SPECIFICATION Spec
CONSTANTS
    t1 = t1
    t2 = t2
    p1 = p1
    p2 = p2
    Absent = Absent
    Torn = Torn
    Threads <- TwoThreads
    Pages <- OnePage
    Overlap = TRUE
    Faults <- NoFaults
    MaxRenders = 3
    MaxCrashes = 0
PROPERTY RollbackRestores
