SPECIFICATION FairSpec
CONSTANTS
    w1 = w1
    w2 = w2
    Main = Main
    Workers <- TwoWorkers
    ThreadCounts <- UpToThree
    MaxHandlers = 3
INVARIANT IInv
INVARIANT NoThreadIsLeft
INVARIANT ExitCodeIsHonest
INVARIANT FullStrength
PROPERTY SignalEnds
