--------------------------- MODULE MCPasswordFlow ---------------------------
(* Values for the model checker: a small instance of PasswordFlow.          *)
EXTENDS PasswordFlowInv

OneFlow == {"s1"}
=============================================================================
