----------------------------- MODULE MCMFAFlow -----------------------------
(* Values for the model checker: a small instance of MFAFlow.              *)
EXTENDS MFAFlow

TwoSubmissions == {"m1", "m2"}
=============================================================================
