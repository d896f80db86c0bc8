SPECIFICATION FairSpec
CONSTANTS
    Requests <- OneRequest
    Connections <- TwoConnections
INVARIANTS
    IInv
    CredentialsDieWithLogin
PROPERTIES
    AbandonedLoginFreed
    ConnectionsEnd
CHECK_DEADLOCK FALSE
