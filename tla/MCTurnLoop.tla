----------------------------- MODULE MCTurnLoop -----------------------------
(* The bounds of the model-checked turns. *)
EXTENDS TurnLoop
=============================================================================
