SPECIFICATION FairSpec
CONSTANTS
    Flows <- OneFlow
    MaxLaunch = 1
    Remote = TRUE
INVARIANT
    IInv
PROPERTIES
    WaiterReturns
    CancelReturns
    ShutdownEnds
CHECK_DEADLOCK FALSE
