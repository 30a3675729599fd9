---------------------------- MODULE StreamedReply ----------------------------
(***************************************************************************)
(* How an answer reaches the user of one chat, on a channel that can       *)
(* stream.  The worker of the chat's session (pkg/agent) runs a turn whose *)
(* answer may be streamed to the screen while it is generated, runs more   *)
(* turns for the steering left over, which never stream, and publishes the *)
(* last answer as a "final" message.  The channel's worker                 *)
(* (pkg/channels/manager.go) must skip that message when it was streamed:  *)
(* finalizing a stream leaves a marker, the next final message consumes it.*)
(* The marker is stored some time after the answer is on the screen, and a *)
(* message is sent some time after it was looked at.                       *)
(*                                                                         *)
(* The bus and the worker's queue are one FIFO (MessageBus and             *)
(* ChannelManager are about them), Send does not fail, steering is a       *)
(* number of messages, and what a message replaces on the screen (typing,  *)
(* reaction, placeholder, tool feedback) is left out.                      *)
(***************************************************************************)
EXTENDS Integers, Sequences, FiniteSets

CONSTANTS
    MaxMessages,    \* bound: messages from the user
    MaxTools,       \* bound: tool calls with something to show
    Chunks          \* the chunks a long message is split into

ASSUME ReplyAssumption ==
    MaxMessages \in Nat \ {0} /\ MaxTools \in Nat /\ Chunks \in Nat \ {0}

Answers == 1 .. MaxMessages
None    == 0

\* What is published: an answer, an error text (whose session key is empty),
\* what the message tool sends, and the auxiliary kinds the channel may drop.
Kinds   == {"final", "error", "plain", "feedback"}
Message == [kind : Kinds, ans : Answers]
Idle    == [kind |-> "plain", ans |-> 1, left |-> 0, begun |-> FALSE,
            passed |-> FALSE]

VARIABLES
    received,   \* messages the user has sent
    inbox,      \* those no turn has taken yet
    apc,        \* control of the session's worker
    cont,       \* its turn continues queued steering
    ans,        \* answers so far; the last is the turn's
    stream,     \* the stream of the answer
    toolSent,   \* the message tool has sent to this chat
    response,   \* the response of the first turn, as the number of an answer
    continued,  \* that of the last continuation
    tools,      \* tool calls so far
    queue,      \* outbound messages
    media,      \* outbound media messages
    cur,        \* the message the channel's worker sends, its chunks left, and whether
                \* preSend has let the present one pass
    marker,     \* streamActive, as the answer that was streamed
    tombstone,  \* streamAuxiliaryTombstones
    streamed,   \* history variable: answers whose stream was finalized
    shown,      \* history variable: how often an answer was shown
    skipped,    \* history variable: answers whose final message was skipped
    ended,      \* history variable: answers whose final message was handled
    twice,      \* history variable: answers that two final messages are for
    late,       \* history variable: answers whose feedback passed after their marker
    below,      \* history variable: answers with feedback shown after them
    crossed     \* history variable: answers that met the marker of another

agent   == <<apc, cont, ans, stream, toolSent, response, continued, tools>>
history == <<streamed, shown, skipped, ended, twice, late, below, crossed>>
vars    == <<received, inbox, agent, queue, media, cur, marker, tombstone, history>>

Init ==
    /\ received = 0 /\ inbox = 0
    /\ apc = "idle" /\ cont = FALSE /\ ans = 0 /\ stream = "none"
    /\ toolSent = FALSE /\ response = None /\ continued = None /\ tools = 0
    /\ queue = <<>> /\ media = 0 /\ cur = Idle
    /\ marker = None /\ tombstone = FALSE
    /\ streamed = {} /\ shown = [a \in Answers |-> 0]
    /\ skipped = {} /\ ended = {} /\ twice = {} /\ late = {}
    /\ below = {} /\ crossed = {}

-----------------------------------------------------------------------------
(* The session's worker.                                                   *)

Post(kind) == queue' = Append(queue, [kind |-> kind, ans |-> ans])

channel == <<cur, marker, tombstone>>

\* A message arrives: it starts a turn or steers the one that runs.
Receive ==
    /\ received < MaxMessages
    /\ received' = received + 1 /\ inbox' = inbox + 1
    /\ UNCHANGED <<agent, queue, media, channel, history>>

\* processMessage, for the first message, and Continue, for one that is left.
StartTurn ==
    /\ apc \in {"idle", "drain"} /\ inbox > 0
    /\ inbox' = inbox - 1
    /\ apc' = "calling" /\ cont' = (apc = "drain")
    /\ ans' = ans + 1
    /\ toolSent' = FALSE
    /\ UNCHANGED <<received, stream, response, continued, tools, queue, media, channel, history>>

\* What a poll leaves queued; the mutant does not see that the queue is empty.
PolledMutant == inbox - 1
Polled       == IF inbox > 0 THEN inbox - 1 ELSE 0

\* A response with tool calls: its stream is canceled, a tool shows something,
\* and steering is polled.
CallTool ==
    /\ apc = "calling" /\ tools < MaxTools
    /\ tools' = tools + 1
    /\ \/ Post("feedback") /\ UNCHANGED <<media, toolSent>>
       \/ Post("plain") /\ toolSent' = TRUE /\ UNCHANGED media
       \/ media' = media + 1 /\ UNCHANGED <<queue, toolSent>>
    /\ inbox' = Polled
    /\ UNCHANGED <<received, apc, cont, ans, stream, response, continued,
                   channel, history>>

\* A response without tool calls while steering is queued: its stream is canceled.
Steer ==
    /\ apc = "calling" /\ inbox > 0
    /\ inbox' = inbox - 1
    /\ UNCHANGED <<received, agent, queue, media, channel, history>>

\* How the response can have been generated: not streamed, streamed with or
\* without a visible update, or by Chat after a stream that showed nothing.
Streams == IF cont THEN {"none"} ELSE {"none", "hidden", "visible", "fallback"}

Answer ==
    /\ apc = "calling" /\ inbox = 0
    /\ stream' \in Streams
    /\ apc' = "answered"
    /\ UNCHANGED <<received, inbox, cont, ans, toolSent, response, continued,
                   tools, queue, media, channel, history>>

\* The turn returns its answer, to processMessage or to Continue.
Return ==
    /\ apc' = "drain" /\ stream' = "none"
    /\ response' = IF cont THEN response ELSE ans
    /\ continued' = IF cont THEN ans ELSE None

\* The stream is finalized: its answer is on the screen.
FinalizeStream ==
    /\ apc = "answered" /\ stream \in {"hidden", "visible"}
    /\ apc' = "finalized"
    /\ shown' = [shown EXCEPT ![ans] = @ + 1]
    /\ streamed' = streamed \cup {ans}
    /\ UNCHANGED <<received, inbox, cont, ans, stream, toolSent, response, continued, tools,
                   queue, media, channel, skipped, ended, twice, late, below, crossed>>

\* What onFinalize stores; the mutant stores nothing.
MarkMutant == UNCHANGED marker
Mark       == marker' = ans

\* onFinalize, which the wrapped streamers run after a successful Finalize, first has the
\* channel remove the tool feedback and the placeholder, and then stores the marker ...
StoreMarker ==
    /\ apc = "finalized"
    /\ apc' = "marked"
    /\ Mark
    /\ crossed' = IF marker = None THEN crossed ELSE crossed \cup {marker, ans}
    /\ UNCHANGED <<received, inbox, cont, ans, stream, toolSent, response, continued, tools,
                   queue, media, cur, tombstone, streamed, shown, skipped, ended, twice, late,
                   below>>

\* ... and the tombstone.
StoreTombstone ==
    /\ apc = "marked"
    /\ tombstone' = TRUE
    /\ Return
    /\ UNCHANGED <<received, inbox, cont, ans, toolSent, tools, queue, media, cur, marker,
                   history>>

\* Nothing was streamed, or finalizing it failed with nothing visible: the
\* turn returns its answer.  After a fallback it also publishes it by itself.
FinalizeUnseen ==
    /\ apc = "answered" /\ stream # "visible"
    /\ IF stream = "none"
       THEN UNCHANGED <<queue, twice>>
       ELSE Post("final") /\ twice' = twice \cup {ans}
    /\ Return
    /\ UNCHANGED <<received, inbox, cont, ans, toolSent, tools, media, channel,
                   streamed, shown, skipped, ended, late, below, crossed>>

\* The model fails, the session is not saved, or the stream breaks when it is
\* visible.  The error of a first turn is published; that of Continue ends the
\* draining, whose other responses are lost.
Fail ==
    /\ apc \in {"calling", "answered"}
    /\ IF cont
       THEN apc' = "publish" /\ continued' = None /\ UNCHANGED queue
       ELSE apc' = "drain" /\ Post("error") /\ UNCHANGED continued
    /\ stream' = "none"
    /\ UNCHANGED <<received, inbox, cont, ans, toolSent, response, tools, media,
                   channel, history>>

\* The last response is published unless the message tool has spoken in its
\* turn; the worker ends.
Publish ==
    /\ apc = "publish" \/ (apc = "drain" /\ inbox = 0)
    /\ LET last == IF continued = None THEN response ELSE continued
       IN  IF last = None \/ toolSent
           THEN UNCHANGED queue
           ELSE queue' = Append(queue, [kind |-> "final", ans |-> last])
    /\ apc' = "idle" /\ cont' = FALSE /\ toolSent' = FALSE
    /\ response' = None /\ continued' = None
    /\ UNCHANGED <<received, inbox, ans, stream, tools, media, channel, history>>

-----------------------------------------------------------------------------
(* The channel's workers.                                                  *)

\* finalizedStreamActiveForMessage.
FinalizedStreamActive(m) == m.kind = "final" /\ marker # None

\* runWorker takes a message and splits it.
TakeMessage ==
    /\ cur.left = 0 /\ queue # <<>>
    /\ LET m == Head(queue)
           n == IF FinalizedStreamActive(m) \/ m.kind = "feedback" THEN 1 ELSE Chunks
       IN  cur' = [kind |-> m.kind, ans |-> m.ans, left |-> n, begun |-> FALSE,
                   passed |-> FALSE]
    /\ queue' = Tail(queue)
    /\ UNCHANGED <<received, inbox, agent, media, marker, tombstone, history>>

\* One chunk is done with: the message ends with its last one.
NextChunk(begun) ==
    /\ cur' = IF cur.left = 1 THEN Idle
              ELSE [cur EXCEPT !.left = @ - 1, !.begun = begun, !.passed = FALSE]
    /\ ended' = IF cur.left = 1 /\ cur.kind = "final" THEN ended \cup {cur.ans} ELSE ended

workers == <<received, inbox, agent, queue, media>>

\* A chunk that preSend has still to look at.
Unchecked == cur.left > 0 /\ ~cur.passed

\* preSend drops auxiliary messages once a stream was finalized; the mutant
\* trusts the tombstone alone.
StaleMutant == cur.kind = "feedback" /\ tombstone
Stale       == cur.kind = "feedback" /\ (marker # None \/ tombstone)

DropStale ==
    /\ Unchecked /\ Stale
    /\ NextChunk(FALSE)
    /\ UNCHANGED <<workers, marker, tombstone, streamed, shown, skipped, twice,
                   late, below, crossed>>

\* preSend skips a final message and takes the marker away; the mutant reads it.
ConsumeMarkerMutant == UNCHANGED marker
ConsumeMarker       == marker' = None

SkipFinal ==
    /\ Unchecked /\ FinalizedStreamActive(cur)
    /\ ConsumeMarker
    /\ skipped' = skipped \cup {cur.ans}
    /\ crossed' = IF marker = cur.ans THEN crossed ELSE crossed \cup {marker, cur.ans}
    /\ NextChunk(cur.begun)
    /\ UNCHANGED <<workers, tombstone, streamed, shown, twice, late, below>>

\* The answers whose streams have left their markers.
Marked == streamed \ (IF apc = "finalized" THEN {ans} ELSE {})

\* Everything else passes.  Without a marker, a message of the session that is not
\* auxiliary ends the tombstone.
Pass ==
    /\ Unchecked /\ ~Stale /\ ~FinalizedStreamActive(cur)
    /\ cur' = [cur EXCEPT !.passed = TRUE]
    /\ tombstone' = (tombstone /\ (marker # None \/ cur.kind \in {"feedback", "error"}))
    /\ late' = IF cur.kind = "feedback" /\ cur.ans \in Marked
               THEN late \cup {cur.ans} ELSE late
    /\ UNCHANGED <<workers, marker, streamed, shown, skipped, ended, twice, below, crossed>>

\* What has passed is sent, whatever was stored since.
Show ==
    /\ cur.left > 0 /\ cur.passed
    /\ shown' = IF cur.kind = "final" /\ ~cur.begun
                THEN [shown EXCEPT ![cur.ans] = @ + 1] ELSE shown
    /\ below' = IF cur.kind = "feedback" /\ cur.ans \in streamed
                THEN below \cup {cur.ans} ELSE below
    /\ NextChunk(TRUE)
    /\ UNCHANGED <<workers, marker, tombstone, streamed, skipped, twice, late, crossed>>

\* preSendMedia: a media message clears the marker.
SendMedia ==
    /\ media > 0
    /\ media' = media - 1
    /\ marker' = None /\ tombstone' = FALSE
    /\ crossed' = IF marker = None THEN crossed ELSE crossed \cup {marker}
    /\ UNCHANGED <<received, inbox, agent, queue, cur, streamed, shown, skipped,
                   ended, twice, late, below>>

\* The tombstone is older than streamAuxiliaryTombstoneTTL; the marker has no age.
ExpireTombstone ==
    /\ tombstone /\ tombstone' = FALSE
    /\ UNCHANGED <<received, inbox, agent, queue, media, cur, marker, history>>

-----------------------------------------------------------------------------

Next ==
    \/ Receive \/ StartTurn \/ CallTool \/ Steer \/ Answer
    \/ FinalizeStream \/ StoreMarker \/ StoreTombstone \/ FinalizeUnseen \/ Fail \/ Publish
    \/ TakeMessage \/ DropStale \/ SkipFinal \/ Pass \/ Show \/ SendMedia \/ ExpireTombstone

Spec == Init /\ [][Next]_vars

-----------------------------------------------------------------------------
(* Properties.                                                             *)

\* The variables keep their types, and no answer is shown more than twice.
TypeOK ==
    /\ received \in 0 .. MaxMessages /\ inbox \in 0 .. received
    /\ apc \in {"idle", "calling", "answered", "finalized", "marked", "drain", "publish"}
    /\ cont \in BOOLEAN /\ toolSent \in BOOLEAN /\ tombstone \in BOOLEAN
    /\ ans \in 0 .. received - inbox
    /\ stream \in {"none", "hidden", "visible", "fallback"}
    /\ response \in 0 .. ans /\ continued \in 0 .. ans
    /\ tools \in 0 .. MaxTools /\ media \in 0 .. tools
    /\ queue \in Seq(Message)
    /\ cur \in [kind : Kinds, ans : Answers, left : 0 .. Chunks, begun : BOOLEAN,
               passed : BOOLEAN]
    /\ marker \in streamed \cup {None}
    /\ shown \in [Answers -> 0 .. 2]
    /\ \A s \in {streamed, skipped, ended, twice, late, below, crossed} : s \subseteq 1 .. ans

\* An answer that never met the marker of another one is shown, and shown once,
\* or twice when the turn fell back from a stream and published it itself.
UncrossedShownOnce ==
    \A a \in Answers \ crossed :
        /\ shown[a] <= IF a \in twice THEN 2 ELSE 1
        /\ a \in ended => shown[a] >= 1

\* However the messages cross, no more finals are skipped than were streamed.
SkipsAreBounded == Cardinality(skipped) <= Cardinality(streamed)

\* No feedback of a streamed answer passes preSend once the marker is stored, although the
\* tombstone expires.  (It may have passed before that, and be shown below: NothingLeaks.)
NoLateFeedback == late \subseteq crossed

\* Every answer is shown once: the marker a stream leaves (manager.go:661) makes
\* the manager skip the streamed answer's own final message (manager.go:412) and
\* the feedback that it looks at from then on (manager.go:397), and nothing else, unless
\* the messages of two answers meet or media clears the marker between.
ShownOnce == UncrossedShownOnce /\ SkipsAreBounded /\ NoLateFeedback

\* The comment on GetStreamer's marker says that late auxiliary messages cannot leak after
\* streaming produced a final (manager.go:625).  They can: between Finalize and the store
\* of the marker, and between preSend and Send, there are calls of the channel.
NothingLeaks == below \subseteq crossed

\* The comment on preSend's fourth step says that only the duplicate of a streamed
\* answer is skipped and earlier visible messages are delivered (manager.go:410).
OnlyDuplicatesSkipped == skipped \subseteq streamed
=============================================================================
