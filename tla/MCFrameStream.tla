---------------------------- MODULE MCFrameStream ----------------------------
(* Values for the model checker are in the configurations.                  *)
EXTENDS FrameStream
=============================================================================
