SPECIFICATION Spec
CONSTANTS
    Flows <- OneFlow
    MaxLaunch = 2
    Remote = FALSE
INVARIANTS
    CanceledNeverLinks
    WaiterToldTheTruth
    ChromeIsReachable
    ShutdownSettles
PROPERTIES
    KeepsPromise
CHECK_DEADLOCK FALSE
