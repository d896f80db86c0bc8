SPECIFICATION Spec
CONSTANTS
    Modal = modal
    c1 = c1
    c2 = c2
    w1 = w1
    w2 = w2
    s1 = s1
    s2 = s2
    Clicks <- TwoClicks
    Watchers <- TwoWatchers
    Submits <- TwoSubmits
SYMMETRY Symmetry
INVARIANTS
    IInv
    OpenLoginReachable
    UnshownFactorCanceled
PROPERTIES
    ResultStays
CHECK_DEADLOCK FALSE
