SPECIFICATION FairSpec
CONSTANTS
    c1 = c1
    c2 = c2
    Callers <- TwoCalls
    Opener = open
    MaxLost = 1
INVARIANT
    IInv
PROPERTIES
    SessionNeverGoesBack
    EverythingEnds
CHECK_DEADLOCK FALSE
