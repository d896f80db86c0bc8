SPECIFICATION Spec
CONSTANTS
    c1 = c1
    c2 = c2
    Calls <- TwoCalls
    Langs <- TwoLangs
    KO = "ko"
    MaxAccounts = 2
INVARIANT
    ShopEditFires
CHECK_DEADLOCK FALSE
