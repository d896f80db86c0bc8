SPECIFICATION FairSpec
CONSTANTS
    MaxGeneration = 2
    MaxConnections = 2
    MaxInputs = 1
INVARIANTS
    IInv
    PointerReleased
PROPERTIES
    NewestCanBeActedOn
    ServingEnds
CHECK_DEADLOCK FALSE
