---------------------------- MODULE MCAgentLoop -----------------------------
\* Instances of the dispatcher: three or four messages of one session (entries,
\* queues and pending stops of different sessions never meet; only the slots are
\* shared, and waiting for a slot also happens within one session).
EXTENDS AgentLoop
=============================================================================
