-------------------------- MODULE MCDevToolsClient --------------------------
(* Values for the model checker: two calls besides the one that opens the  *)
(* session.                                                                *)
EXTENDS DevToolsClient

CONSTANTS c1, c2

TwoCalls == {c1, c2}
=============================================================================
