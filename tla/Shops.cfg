SPECIFICATION Spec
CONSTANTS
    c1 = c1
    c2 = c2
    Calls <- TwoCalls
    Langs <- TwoLangs
    KO = "ko"
    MaxAccounts = 2
SYMMETRY CallSymmetry
INVARIANTS
    IInv
    PageExists
PROPERTIES
    LoadedOnce
CHECK_DEADLOCK FALSE
