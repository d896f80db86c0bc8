SPECIFICATION Spec
CONSTANTS
    q1 = q1
    b1 = b1
    c1 = c1
    c2 = c2
    QR <- OneQR
    Browser <- OneBrowser
    Callbacks <- TwoCallbacks
    MaxCrash = 1
INVARIANTS
    IInv
    QRLeavesNothing
    ShutdownRollsBack
PROPERTIES
    NoLinkAfterShutdown
CHECK_DEADLOCK FALSE
