----------------------------- MODULE MCSubTurn ------------------------------
(* The bounds of the model-checked sub-turns. *)
EXTENDS SubTurn
=============================================================================
