-------------------------- MODULE MCChannelManager --------------------------
(* The messages of the model-checked manager. *)
EXTENDS ChannelManager

CONSTANT c1

MCOutbox == [k \in Kinds |-> IF k = "text" THEN <<c1, c1>> ELSE <<>>]
MCChunks == [k \in Kinds |-> IF k = "text" THEN 2 ELSE 1]
MCOneChunk == [k \in Kinds |-> 1]
=============================================================================
