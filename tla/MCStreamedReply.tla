--------------------------- MODULE MCStreamedReply ---------------------------
(* The model-checked instance needs nothing but the constants of its .cfg. *)
EXTENDS StreamedReply
=============================================================================
