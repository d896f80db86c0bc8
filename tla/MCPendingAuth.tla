--------------------------- MODULE MCPendingAuth ----------------------------
EXTENDS PendingAuth
CONSTANTS q1, b1, c1, c2
OneQR == {q1}
OneBrowser == {b1}
TwoCallbacks == {c1, c2}
=============================================================================
