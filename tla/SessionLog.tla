----------------------------- MODULE SessionLog -----------------------------
(***************************************************************************)
(* The files of one session (pkg/memory/jsonl.go): an append-only file of  *)
(* one message a line and a metadata file with the number of lines to      *)
(* skip, written one after the other under the lock of the session; an     *)
(* operation may fail, or the process stop, between two writes or within   *)
(* an append.  The metadata and the rewritten file are replaced atomically *)
(* (fileutil.WriteFileAtomic), an append is not.  The count of messages in *)
(* the metadata is left out: nothing reads it before it is recomputed.     *)
(***************************************************************************)
EXTENDS Integers, Sequences, FiniteSets, SequencesExt

CONSTANT MaxMessages    \* bound: messages sent to the session

ASSUME MaxMessagesAssumption == MaxMessages \in Nat

Messages == 1 .. MaxMessages
Corrupt  == 0           \* a line that does not parse

VARIABLES
    lines,          \* the lines of the .jsonl file
    unterminated,   \* its last line has no newline yet
    skip,           \* meta.Skip
    op,             \* the operation between its two writes, or "idle"
    arg,            \* the history it is about to write
    held,           \* the history a caller read last, maybe long ago
    before,         \* history variable: meta.Skip when it began
    sent,           \* messages sent so far
    acked           \* history variable: added without an error, and not since dropped

files == <<lines, unterminated, skip>>
logVars == <<files, op, arg, held, before, sent, acked>>

LogInit ==
    /\ lines = <<>> /\ unterminated = FALSE /\ skip = 0
    /\ op = "idle" /\ arg = <<>> /\ held = <<>> /\ before = 0
    /\ sent = 0 /\ acked = {}

-----------------------------------------------------------------------------
(* Reading and writing the files.  A "Mutant" states the next definition   *)
(* as a plausible bug would; no specification here uses it.                *)

\* The places of the lines that parse, the i-th of some places, the messages there.
Readable(s) == {p \in DOMAIN s : s[p] # Corrupt}
Nth(P, i) == CHOOSE p \in P : Cardinality({q \in P : q <= p}) = i
Retained(s) == [i \in 1 .. Cardinality(Readable(s)) |-> s[Nth(Readable(s), i)]]

\* readMessages.
ReadMessages(k) == Retained(SubSeq(lines, k + 1, Len(lines)))

\* The file after O_APPEND of one more line: it continues an unterminated one.
Appended(l) ==
    IF unterminated THEN [lines EXCEPT ![Len(lines)] = Corrupt] ELSE Append(lines, l)

\* TruncateHistory: the skip offset, in lines, that leaves the last k messages.  The
\* mutant counts messages instead of lines.
SkipForMutant(k) ==
    LET n == Len(ReadMessages(skip))
    IN  IF k = 0 \/ n = 0 THEN Len(lines) ELSE IF k < n THEN skip + (n - k) ELSE skip
SkipFor(k) ==
    LET active == {p \in Readable(lines) : p > skip}
        n      == Cardinality(active)
    IN  IF k = 0 \/ n = 0 THEN Len(lines)
        ELSE IF k < n THEN Nth(active, n - k)
        ELSE skip

\* The skip offset that goes with a file about to be rewritten; the mutant keeps it.
ResetSkipMutant == skip
ResetSkip == 0

\* The rewritten file; the mutant appends to the old one.
RewrittenMutant(h) == lines \o h
Rewritten(h) == h

\* What the agent makes of a history h to write it back: it rolls back, drops the
\* oldest messages, or keeps one.
Histories(h) == {SubSeq(h, i, j) : i \in 1 .. Len(h) + 1, j \in 0 .. Len(h)}

-----------------------------------------------------------------------------
(* addMsg.                                                                 *)

AddMessage ==
    /\ op = "idle" /\ sent < MaxMessages
    /\ sent' = sent + 1
    /\ lines' = Appended(sent')
    /\ unterminated' = FALSE
    /\ op' = "add"
    /\ UNCHANGED <<skip, arg, held, before, acked>>

\* The append stops half way, or short of the newline.
AppendTorn ==
    /\ op = "idle" /\ sent < MaxMessages
    /\ sent' = sent + 1
    /\ lines' \in {Appended(Corrupt), Appended(sent')}
    /\ unterminated' = TRUE
    /\ UNCHANGED <<skip, op, arg, held, before, acked>>

\* The metadata is updated: AddMessage returns without an error.
Added ==
    /\ op = "add"
    /\ op' = "idle"
    /\ acked' = acked \cup {sent}
    /\ UNCHANGED <<files, arg, held, before, sent>>

-----------------------------------------------------------------------------
(* GetHistory, TruncateHistory, SetHistory and Compact.  A caller writes   *)
(* back what it made of a history it read, without a lock in between.      *)

GetHistory ==
    /\ op = "idle"
    /\ held' = ReadMessages(skip)
    /\ UNCHANGED <<files, op, arg, before, sent, acked>>

TruncateHistory(k) ==
    /\ op = "idle"
    /\ skip' = SkipFor(k)
    /\ acked' = acked \cap ToSet(Retained(SubSeq(lines, skip' + 1, Len(lines))))
    /\ UNCHANGED <<lines, unterminated, op, arg, held, before, sent>>

\* The metadata first, then the file.
SetHistory(h) ==
    /\ op = "idle"
    /\ op' = "set" /\ arg' = h
    /\ skip' = ResetSkip /\ before' = skip
    /\ acked' = acked \cap ToSet(h)
    /\ UNCHANGED <<lines, unterminated, held, sent>>

Compact ==
    /\ op = "idle" /\ skip # 0
    /\ op' = "compact" /\ arg' = ReadMessages(skip)
    /\ skip' = ResetSkip /\ before' = skip
    /\ UNCHANGED <<lines, unterminated, held, sent, acked>>

RewriteJSONL ==
    /\ op \in {"set", "compact"}
    /\ lines' = Rewritten(arg)
    /\ unterminated' = FALSE
    /\ op' = "idle" /\ arg' = <<>> /\ before' = 0
    /\ UNCHANGED <<skip, held, sent, acked>>

\* The process stops, or the second write fails.
Interrupted ==
    /\ op # "idle"
    /\ op' = "idle" /\ arg' = <<>> /\ before' = 0
    /\ UNCHANGED <<files, held, sent, acked>>

LogNext ==
    \/ AddMessage \/ AppendTorn \/ Added
    \/ GetHistory
    \/ \E k \in 0 .. MaxMessages : TruncateHistory(k)
    \/ \E h \in Histories(held) : SetHistory(h)
    \/ Compact \/ RewriteJSONL
    \/ Interrupted

LogSpec == LogInit /\ [][LogNext]_logVars

-----------------------------------------------------------------------------
(* Properties.                                                             *)

\* The skip offset never exceeds the file: messages added later would be invisible.
LogTypeOK ==
    /\ lines \in Seq(Messages \cup {Corrupt}) /\ unterminated \in BOOLEAN
    /\ skip \in 0 .. Len(lines) /\ before \in 0 .. Len(lines)
    /\ op \in {"idle", "add", "set", "compact"}
    /\ arg \in Seq(Messages) /\ held \in Seq(Messages)
    /\ sent \in 0 .. MaxMessages
    /\ acked \in SUBSET (1 .. sent)

\* Whatever reappears or is lost in a crash, what remains is in the order in which it
\* was sent, and nothing is there twice.
HistoryInOrder ==
    LET h == ReadMessages(skip)
    IN  \A i, j \in DOMAIN h : i < j => h[i] < h[j]

\* However many lines are corrupt, and whatever was truncated before, truncation
\* leaves exactly the last k messages, if there are as many.
TruncationIsExact ==
    [][\A k \in 0 .. MaxMessages : TruncateHistory(k) =>
          LET h == ReadMessages(skip)
              n == IF k < Len(h) THEN k ELSE Len(h)
          IN  ReadMessages(skip)' = SubSeq(h, Len(h) - n + 1, Len(h))]_logVars

\* The files implement the history of SessionHistory: a replacement or a compaction
\* takes effect with its second write, the lock keeping readers out until then.
offset == IF op \in {"set", "compact"} THEN before ELSE skip

History == INSTANCE SessionHistory WITH
    hist   <- ReadMessages(offset),
    hidden <- Retained(SubSeq(lines, 1, offset)),
    torn   <- unterminated

Implements == History!Spec

\* The comments of jsonl.go: an append-only log, made durable by each AddMessage, is
\* crash-safe; so a message that was added is there until it is truncated.  It does
\* not hold: the line that a crash has cut short swallows the next message.
AckedVisible == op = "idle" => acked \subseteq ToSet(ReadMessages(skip))

\* README.md:159: older messages are summarized.  So what the goroutine of
\* summarizeSession drops it has summarized: all that it held but the last k, which it
\* keeps.  It does not hold: messages added while the summary is written push out as
\* many of those it meant to keep.
SummarizedBeforeDropped ==
    [][\A k \in 1 .. Len(held) - 1 : TruncateHistory(k) =>
          ToSet(ReadMessages(skip)) \ ToSet(ReadMessages(skip)')
             \subseteq ToSet(SubSeq(held, 1, Len(held) - k))]_logVars
=============================================================================
