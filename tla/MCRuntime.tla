----------------------------- MODULE MCRuntime ------------------------------
EXTENDS Runtime
CONSTANTS p1, p2
TwoProcs == {p1, p2}
=============================================================================
