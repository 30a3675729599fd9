---------------------------- MODULE MCSessionLog ----------------------------
(* The bounds of the model-checked session files. *)
EXTENDS SessionLog
=============================================================================
