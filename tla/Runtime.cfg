SPECIFICATION FairSpec
CONSTANTS
    p1 = p1
    p2 = p2
    Procs <- TwoProcs
    MaxCrash = 1
INVARIANTS
    IInv
    FailureReported
PROPERTIES
    RunEnds
CHECK_DEADLOCK FALSE
