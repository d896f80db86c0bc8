--------------------------- MODULE MCRemoteViewer ---------------------------
(* Values for the model checker: a small instance of RemoteViewer.          *)
EXTENDS RemoteViewer

OneRequest     == {"q1"}
TwoConnections == {"v1", "v2"}
=============================================================================
