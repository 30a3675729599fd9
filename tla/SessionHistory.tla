--------------------------- MODULE SessionHistory ---------------------------
(***************************************************************************)
(* What the session store promises for one session (pkg/memory/store.go,   *)
(* as jsonl.go keeps it): a history to which messages are added, that is   *)
(* truncated and replaced as a whole, and that survives crashes but for    *)
(* two effects: messages that were truncated may reappear, in their place, *)
(* and an append that was cut short may cost the next append and, at       *)
(* worst, the message before it.                                           *)
(***************************************************************************)
EXTENDS Integers, Sequences, SequencesExt

CONSTANT Messages   \* the messages, numbered in the order they are sent

VARIABLES
    hist,       \* what GetHistory returns
    held,       \* what it returned to a caller
    hidden,     \* truncated messages that have not been reclaimed
    torn        \* the last append was cut short

vars == <<hist, held, hidden, torn>>

Init == hist = <<>> /\ held = <<>> /\ hidden = <<>> /\ torn = FALSE

\* What the agent makes of a history h to write it back: it rolls back, drops the
\* oldest messages, or keeps one.
Histories(h) == {SubSeq(h, i, j) : i \in 1 .. Len(h) + 1, j \in 0 .. Len(h)}

Add(m) == ~torn /\ hist' = Append(hist, m) /\ UNCHANGED <<held, hidden, torn>>

\* The append does not complete: the message is there or not.
AddTorn(m) ==
    /\ ~torn
    /\ torn' \in BOOLEAN
    /\ hist' \in {hist, Append(hist, m)}
    /\ UNCHANGED <<held, hidden>>

\* An append onto a torn one loses its message, and maybe the one before.
AddGlued ==
    /\ torn
    /\ torn' \in BOOLEAN
    /\ \/ hist' \in {hist} \cup {Front(h) : h \in {hist} \ {<<>>}} /\ UNCHANGED hidden
       \/ hidden' \in {Front(h) : h \in {hidden} \ {<<>>}} /\ UNCHANGED hist
    /\ UNCHANGED held

Get == held' = hist /\ UNCHANGED <<hist, hidden, torn>>

Truncate(k) ==
    /\ k < Len(hist)
    /\ hidden' = hidden \o SubSeq(hist, 1, Len(hist) - k)
    /\ hist' = SubSeq(hist, Len(hist) - k + 1, Len(hist))
    /\ UNCHANGED <<held, torn>>

\* Whatever happened since the caller read it.
Replace(h) == hist' = h /\ hidden' = <<>> /\ torn' = FALSE /\ UNCHANGED held

\* Space is reclaimed.
Reclaim == hidden' = <<>> /\ torn' = FALSE /\ UNCHANGED <<hist, held>>

\* A crash between the two writes of a replacement or a compaction.
Reappear == hist' = hidden \o hist /\ hidden' = <<>> /\ UNCHANGED <<held, torn>>

Next ==
    \/ \E m \in Messages : Add(m) \/ AddTorn(m)
    \/ AddGlued
    \/ Get
    \/ \E k \in 0 .. Len(hist) : Truncate(k)
    \/ \E h \in Histories(held) : Replace(h)
    \/ Reclaim
    \/ Reappear

Spec == Init /\ [][Next]_vars
=============================================================================
