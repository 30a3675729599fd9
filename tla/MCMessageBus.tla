---------------------------- MODULE MCMessageBus ----------------------------
\* Two publishers and two goroutines that call Close, on a bus with one blocking
\* stream (1, inbound) and one lossy stream (2, audio chunks), one slot each, so
\* that a publisher soon finds a full channel.
EXTENDS MessageBus

MCLossy == {2}
MCAddressed == {1}
MCCap == [s \in Streams |-> 1]
=============================================================================
