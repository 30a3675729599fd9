-------------------------- MODULE StreamedReplyProofs --------------------------
(***************************************************************************)
(* Proofs about StreamedReply, for any number of messages, tools and       *)
(* chunks.  The inductive invariant counts what is on the screen and what  *)
(* may still get there for each answer (CountInv), says what the marker of *)
(* a streamed answer protects (StreamInv), and that the feedback of an     *)
(* answer stands before its final message (FeedbackInv).                   *)
(***************************************************************************)
EXTENDS StreamedReply, FiniteSetTheorems, FunctionTheorems, TLAPS

-----------------------------------------------------------------------------
(* The inductive invariant.                                                *)

\* The turn of the worker has not shown its answer; it has not returned it.
Generating == apc \in {"calling", "answered"}
Unreturned == apc \in {"calling", "answered", "finalized", "marked"}

\* What the channel's worker sends.
Sending == [kind : Kinds, ans : Answers, left : 0 .. Chunks, begun : BOOLEAN,
            passed : BOOLEAN]

IsFinal(m, a) == m.kind = "final" /\ m.ans = a

\* The final messages for answer a that are queued, counted by their places.
Finals(q, a) == {i \in DOMAIN q : IsFinal(q[i], a)}

\* The channel's worker sends a final message for answer a.
Sends(a) == cur.left > 0 /\ IsFinal(cur, a)

\* A final message for answer a may still be published by the worker of the session.
Owed(a) == response = a \/ continued = a \/ (ans = a /\ Unreturned)

\* The marker of the answer must be there: it is not the one whose stream is finalized and
\* whose marker is still to be stored.
Held(a) == Owed(a) /\ ~(apc = "finalized" /\ ans = a)

One(b) == IF b THEN 1 ELSE 0

\* What is shown, queued or sent is of answers that were begun.
RangeInv ==
    /\ apc # "idle" => ans >= 1
    /\ \A a \in Answers : a > ans => shown[a] = 0
    /\ \A i \in DOMAIN queue : queue[i].ans <= ans
    /\ cur.left > 0 => cur.ans <= ans
    /\ cur.left > 0 /\ cur.kind = "feedback" => cur.left = 1

\* The answer that is generated has not been shown, streamed or published; the one whose
\* marker is to be stored has been streamed.
FreshInv ==
    /\ Generating => ans \notin streamed \cup twice
    /\ apc = "finalized" => ans \in streamed

\* An answer is shown, or will be, once, and once more for its stream or for the final
\* message that a fallback publishes by itself.
CountInv ==
    \A a \in Answers :
        shown[a] + Cardinality(Finals(queue, a)) + One(Sends(a) /\ ~cur.begun) + One(Owed(a))
            <= 1 + One(a \in twice) + One(a \in streamed)

\* A streamed answer is on the screen; until it meets the marker of another one, its own
\* keeps its final message off, and is gone with it.
StreamInv ==
    \A a \in streamed :
        /\ a \notin twice /\ shown[a] >= 1
        /\ a \notin crossed =>
              /\ shown[a] = 1
              /\ Sends(a) => marker = a /\ cur.left = 1 /\ ~cur.begun /\ ~cur.passed
              /\ marker = a \/ (~Held(a) /\ Finals(queue, a) = {})

\* A final message that was handled, or is begun, has shown its answer.
EndedInv ==
    /\ \A a \in ended \ crossed : shown[a] >= 1
    /\ \A a \in Answers : Sends(a) /\ cur.begun => shown[a] >= 1

\* Each message that was skipped has used up a stream, as will the marker that is there
\* and the one that is still to be stored.
SkipInv ==
    Cardinality(skipped) + One(marker # None) + One(apc = "finalized")
        <= Cardinality(streamed)

\* No feedback of an answer stands behind its final message; and as long as there is any
\* that has not passed preSend, the marker of its stream is there, once it was stored.
FeedbackOf(m, a) == m.kind = "feedback" /\ m.ans = a
Feedback(a) ==
    (\E i \in DOMAIN queue : FeedbackOf(queue[i], a)) \/ (Unchecked /\ FeedbackOf(cur, a))

FeedbackInv ==
    /\ \A a \in Answers : \A i, j \in DOMAIN queue :
          i < j /\ IsFinal(queue[i], a) => ~FeedbackOf(queue[j], a)
    /\ \A a \in Answers : Sends(a) => \A j \in DOMAIN queue : ~FeedbackOf(queue[j], a)
    /\ \A a \in Marked \ crossed : Feedback(a) => marker = a
    /\ late \subseteq crossed

Inv ==
    /\ TypeOK /\ RangeInv /\ FreshInv /\ CountInv /\ StreamInv /\ EndedInv /\ SkipInv
    /\ FeedbackInv

-----------------------------------------------------------------------------
(* Places in a queue.                                                      *)

LEMMA FinalsAreFinite ==
  ASSUME NEW q \in Seq(Message), NEW a
  PROVE  /\ IsFiniteSet(Finals(q, a)) /\ Cardinality(Finals(q, a)) \in Nat
         /\ Cardinality(Finals(q, a)) = 0 <=> Finals(q, a) = {}
<1>1. IsFiniteSet(1 .. Len(q))
  BY FS_Interval
<1>2. Finals(q, a) \subseteq 1 .. Len(q)
  BY DEF Finals
<1>3. IsFiniteSet(Finals(q, a))
  BY <1>1, <1>2, FS_Subset
<1> QED
  BY <1>3, FS_CardinalityType, FS_EmptySet

LEMMA FinalsOfAppend ==
  ASSUME NEW q \in Seq(Message), NEW m \in Message, NEW a
  PROVE  /\ Cardinality(Finals(Append(q, m), a))
              = Cardinality(Finals(q, a)) + One(IsFinal(m, a))
         /\ ~IsFinal(m, a) => Finals(Append(q, m), a) = Finals(q, a)
<1> DEFINE r == Append(q, m)
<1>1. /\ r \in Seq(Message) /\ DOMAIN r = 1 .. Len(q) + 1 /\ Len(q) \in Nat
      /\ \A i \in 1 .. Len(q) : r[i] = q[i]
      /\ r[Len(q) + 1] = m /\ DOMAIN q = 1 .. Len(q)
  OBVIOUS
<1> HIDE DEF r
<1>2. CASE IsFinal(m, a)
  <2>1. Finals(r, a) = Finals(q, a) \cup {Len(q) + 1}
    BY <1>1, <1>2 DEF Finals
  <2>2. Len(q) + 1 \notin Finals(q, a)
    BY <1>1 DEF Finals
  <2>3. Cardinality(Finals(r, a)) = Cardinality(Finals(q, a)) + 1
    BY <2>1, <2>2, FinalsAreFinite, FS_AddElement
  <2> QED
    BY <2>3, <1>2 DEF One, r
<1>3. CASE ~IsFinal(m, a)
  <2>1. Finals(r, a) = Finals(q, a)
    BY <1>1, <1>3 DEF Finals
  <2> QED
    BY <2>1, <1>3, FinalsAreFinite DEF One, r
<1> QED
  BY <1>2, <1>3

LEMMA FinalsOfTail ==
  ASSUME NEW q \in Seq(Message), q # <<>>, NEW a
  PROVE  /\ Cardinality(Finals(q, a))
              = Cardinality(Finals(Tail(q), a)) + One(IsFinal(Head(q), a))
         /\ Finals(q, a) = {} => Finals(Tail(q), a) = {}
<1> DEFINE r == Tail(q)
<1>1. /\ r \in Seq(Message) /\ Len(q) \in Nat /\ Len(q) >= 1
      /\ DOMAIN r = 1 .. Len(q) - 1 /\ DOMAIN q = 1 .. Len(q)
      /\ \A i \in 1 .. Len(q) - 1 : r[i] = q[i + 1]
      /\ Head(q) = q[1]
  OBVIOUS
<1> HIDE DEF r
<1> DEFINE rest == Finals(q, a) \ {1}
           shift == [i \in Finals(r, a) |-> i + 1]
<1>2. shift \in Bijection(Finals(r, a), rest)
  <2>1. shift \in [Finals(r, a) -> rest]
    BY <1>1 DEF Finals
  <2>2. \A i, j \in Finals(r, a) : shift[i] = shift[j] => i = j
    BY <1>1 DEF Finals
  <2>3. \A j \in rest : j - 1 \in Finals(r, a) /\ shift[j - 1] = j
    BY <1>1 DEF Finals
  <2> QED
    BY <2>1, <2>2, <2>3 DEF Bijection, Injection, Surjection, IsInjective
<1>3. Cardinality(Finals(r, a)) = Cardinality(rest)
  <2>1. ExistsBijection(Finals(r, a), rest)
    BY <1>2 DEF ExistsBijection
  <2> QED
    BY <1>1, <2>1, FinalsAreFinite, FS_Bijection
<1>4. Cardinality(Finals(q, a)) = Cardinality(rest) + One(IsFinal(Head(q), a))
  <2>1. CASE IsFinal(Head(q), a)
    <3>1. 1 \in Finals(q, a)
      BY <1>1, <2>1 DEF Finals
    <3>2. IsFiniteSet(Finals(q, a)) /\ Cardinality(Finals(q, a)) \in Nat
      BY FinalsAreFinite
    <3>3. Cardinality(rest) = Cardinality(Finals(q, a)) - 1
      BY <3>1, <3>2, FS_RemoveElement
    <3> QED
      BY <3>2, <3>3, <2>1 DEF One
  <2>2. CASE ~IsFinal(Head(q), a)
    <3>1. 1 \notin Finals(q, a)
      BY <1>1, <2>2 DEF Finals
    <3>2. rest = Finals(q, a)
      BY <3>1
    <3>3. Cardinality(Finals(q, a)) \in Nat
      BY FinalsAreFinite
    <3> HIDE DEF rest
    <3> QED
      BY <3>2, <3>3, <2>2 DEF One
  <2> QED
    BY <2>1, <2>2
<1>5. ASSUME Finals(q, a) = {} PROVE Finals(r, a) = {}
  BY <1>1, <1>5 DEF Finals
<1> QED
  BY <1>3, <1>4, <1>5 DEF r

-----------------------------------------------------------------------------
(* What the steps do.                                                      *)

\* A step that leaves what the invariant counts.
Quiet ==
    /\ UNCHANGED <<ans, response, continued, queue, cur, marker, history>>
    /\ apc' = apc \/ (apc = "calling" /\ apc' = "answered")

\* A tool call that publishes a message.
PostAside ==
    /\ apc = "calling"
    /\ \E kind \in {"feedback", "plain"} : Post(kind)
    /\ UNCHANGED <<apc, ans, response, continued, cur, marker, history>>

LEMMA NextSplit ==
  ASSUME TypeOK, [Next]_vars
  PROVE  \/ Quiet \/ StartTurn \/ PostAside
         \/ FinalizeStream \/ StoreMarker \/ StoreTombstone \/ FinalizeUnseen \/ Fail \/ Publish
         \/ TakeMessage \/ DropStale \/ SkipFinal \/ Pass \/ Show \/ SendMedia
<1> USE DEF agent, channel, history, vars
<1>1. CASE Receive \/ Steer \/ Answer \/ ExpireTombstone \/ UNCHANGED vars
  BY <1>1 DEF Receive, Steer, Answer, ExpireTombstone, Quiet
<1>2. CASE CallTool
  BY <1>2 DEF CallTool, Quiet, PostAside
<1> QED
  BY <1>1, <1>2 DEF Next

\* What the workers of the session and of the channel have to say about.
LEMMA Steps ==
  ASSUME TypeOK
  PROVE  /\ received \in Nat /\ inbox \in Nat /\ ans \in Nat /\ MaxMessages \in Nat
         /\ ans <= MaxMessages /\ ans <= received - inbox
         /\ cur.left \in Nat /\ cur.ans \in Answers /\ cur.ans \in Nat /\ cur.kind \in Kinds
         /\ cur.begun \in BOOLEAN /\ cur.passed \in BOOLEAN
         /\ shown \in [Answers -> Nat]
         /\ response \in Nat /\ continued \in Nat
         /\ queue \in Seq(Message) /\ DOMAIN queue = 1 .. Len(queue) /\ Len(queue) \in Nat
         /\ \A i \in DOMAIN queue :
               queue[i] \in Message /\ queue[i].ans \in Answers /\ queue[i].ans \in Nat
<1>1. /\ received \in Nat /\ inbox \in Nat /\ ans \in Nat /\ MaxMessages \in Nat
      /\ ans <= received - inbox /\ received <= MaxMessages
  BY ReplyAssumption DEF TypeOK
<1>2. /\ cur.left \in Nat /\ cur.ans \in Answers /\ cur.kind \in Kinds /\ cur.begun \in BOOLEAN
      /\ cur.passed \in BOOLEAN
  BY ReplyAssumption DEF TypeOK
<1>3. cur.ans \in Nat /\ ans <= MaxMessages
  BY <1>1, <1>2 DEF Answers
<1>4. shown \in [Answers -> Nat] /\ response \in Nat /\ continued \in Nat
  BY <1>1 DEF TypeOK
<1>5. /\ queue \in Seq(Message) /\ DOMAIN queue = 1 .. Len(queue) /\ Len(queue) \in Nat
      /\ \A i \in DOMAIN queue : queue[i] \in Message
  BY DEF TypeOK
<1>6. \A i \in DOMAIN queue : queue[i].ans \in Answers /\ queue[i].ans \in Nat
  BY <1>5 DEF Message, Answers
<1> QED
  BY <1>1, <1>2, <1>3, <1>4, <1>5, <1>6

\* The answer that is generated has left no trace yet.
LEMMA FreshSays ==
  ASSUME TypeOK, RangeInv, FreshInv, CountInv, EndedInv, Generating
  PROVE  /\ ans \in Answers /\ ans \notin streamed \cup twice
         /\ Owed(ans) /\ shown[ans] = 0 /\ Finals(queue, ans) = {}
         /\ Cardinality(Finals(queue, ans)) = 0 /\ ~Sends(ans)
<1>1. ans \in Answers /\ ans \notin streamed \cup twice /\ Owed(ans)
  BY Steps DEF RangeInv, FreshInv, Generating, Unreturned, Owed, Answers
<1>2. /\ shown[ans] \in Nat /\ Cardinality(Finals(queue, ans)) \in Nat
      /\ One(Sends(ans) /\ ~cur.begun) \in Nat /\ One(Owed(ans)) = 1
      /\ One(ans \in twice) = 0 /\ One(ans \in streamed) = 0
  BY <1>1, Steps, FinalsAreFinite DEF One
<1>3. shown[ans] = 0 /\ Cardinality(Finals(queue, ans)) = 0 /\ One(Sends(ans) /\ ~cur.begun) = 0
  <2>1. shown[ans] + Cardinality(Finals(queue, ans)) + One(Sends(ans) /\ ~cur.begun)
          + One(Owed(ans)) <= 1 + One(ans \in twice) + One(ans \in streamed)
    BY <1>1 DEF CountInv
  <2> QED
    BY ONLY <1>2, <2>1
<1>4. ~Sends(ans)
  BY <1>1, <1>3 DEF EndedInv, One
<1> QED
  BY <1>1, <1>3, <1>4, Steps, FinalsAreFinite

\* A message m is published.
LEMMA PostPlaces ==
  ASSUME TypeOK, NEW m \in Message, queue' = Append(queue, m)
  PROVE  /\ queue' \in Seq(Message) /\ DOMAIN queue' = 1 .. Len(queue) + 1
         /\ \A i \in DOMAIN queue : i \in DOMAIN queue' /\ queue'[i] = queue[i]
         /\ queue'[Len(queue) + 1] = m
         /\ \A i \in DOMAIN queue' : i \in DOMAIN queue \/ i = Len(queue) + 1
         /\ \A a : /\ Cardinality(Finals(queue', a))
                        = Cardinality(Finals(queue, a)) + One(IsFinal(m, a))
                   /\ ~IsFinal(m, a) => Finals(queue', a) = Finals(queue, a)
<1>1. queue \in Seq(Message)
  BY Steps
<1> QED
  BY <1>1, FinalsOfAppend

\* The channel's worker takes a message.
LEMMA TakePlaces ==
  ASSUME TypeOK, queue # <<>>, queue' = Tail(queue)
  PROVE  /\ queue' \in Seq(Message) /\ DOMAIN queue' = 1 .. Len(queue) - 1
         /\ \A i \in DOMAIN queue' : i + 1 \in DOMAIN queue /\ queue'[i] = queue[i + 1]
         /\ 1 \in DOMAIN queue /\ Head(queue) = queue[1] /\ Head(queue) \in Message
         /\ \A a : /\ Cardinality(Finals(queue, a))
                        = Cardinality(Finals(queue', a)) + One(IsFinal(Head(queue), a))
                   /\ Finals(queue, a) = {} => Finals(queue', a) = {}
<1>1. queue \in Seq(Message)
  BY Steps
<1> QED
  BY <1>1, FinalsOfTail

\* What the session's worker publishes: at most one message, of an answer it has begun.
Posts(m) == m \in Message /\ m.ans <= ans /\ queue' = Append(queue, m)

LEMMA PostSays ==
  ASSUME TypeOK, ans \in Answers, NEW kind \in Kinds, Post(kind)
  PROVE  \E m \in Message : Posts(m) /\ m.kind = kind /\ m.ans = ans
<1> DEFINE m == [kind |-> kind, ans |-> ans]
<1>1. m \in Message /\ m.kind = kind /\ m.ans = ans
  BY DEF Message
<1>2. queue' = Append(queue, m)
  BY DEF Post
<1> HIDE DEF m
<1>3. Posts(m)
  BY <1>1, <1>2, Steps DEF Posts
<1> QED
  BY <1>1, <1>3

LEMMA PostAsideSays ==
  ASSUME TypeOK, RangeInv, PostAside
  PROVE  \E m \in Message : Posts(m) /\ m.kind \in {"feedback", "plain"} /\ m.ans = ans
<1>1. ans \in Answers
  BY Steps DEF RangeInv, PostAside, Answers
<1>2. PICK kind \in {"feedback", "plain"} : Post(kind)
  BY DEF PostAside
<1> QED
  BY <1>1, <1>2, PostSays DEF Kinds

LEMMA FinalizeUnseenSays ==
  ASSUME TypeOK, RangeInv, FinalizeUnseen
  PROVE  \/ UNCHANGED <<queue, twice>>
         \/ /\ twice' = twice \cup {ans}
            /\ \E m \in Message : Posts(m) /\ IsFinal(m, ans)
<1>1. ans \in Answers
  BY Steps DEF RangeInv, FinalizeUnseen, Answers
<1>2. CASE Post("final") /\ twice' = twice \cup {ans}
  BY <1>1, <1>2, PostSays DEF IsFinal, Kinds
<1> QED
  BY <1>2 DEF FinalizeUnseen

LEMMA FailSays ==
  ASSUME TypeOK, RangeInv, Fail
  PROVE  \/ UNCHANGED queue
         \/ \E m \in Message : Posts(m) /\ m.kind = "error"
<1>1. ans \in Answers
  BY Steps DEF RangeInv, Fail, Answers
<1>2. CASE Post("error")
  BY <1>1, <1>2, PostSays DEF Kinds
<1> QED
  BY <1>2 DEF Fail

LEMMA PublishSays ==
  ASSUME TypeOK, RangeInv, Publish
  PROVE  /\ \A a \in Answers : ~Owed(a)'
         /\ \/ UNCHANGED queue
            \/ \E m \in Message : Posts(m) /\ m.kind = "final" /\ Owed(m.ans)
<1>1. \A a \in Answers : ~Owed(a)'
  BY Steps DEF Publish, Owed, Unreturned, Answers, None
<1> DEFINE last == IF continued = None THEN response ELSE continued
<1>2. last \in 0 .. ans /\ (last = response \/ last = continued)
  BY Steps DEF TypeOK
<1>3. CASE last # None /\ queue' = Append(queue, [kind |-> "final", ans |-> last])
  <2>1. last \in Answers
    BY <1>2, <1>3, Steps DEF Answers, None
  <2> HIDE DEF last
  <2> DEFINE m == [kind |-> "final", ans |-> last]
  <2>2. m \in Message /\ m.kind = "final" /\ m.ans = last /\ queue' = Append(queue, m)
    BY <1>3, <2>1 DEF Message, Kinds
  <2> HIDE DEF m
  <2>3. Posts(m) /\ Owed(m.ans)
    BY <1>2, <2>1, <2>2, Steps DEF Posts, Owed
  <2> QED
    BY <1>1, <2>2, <2>3
<1> QED
  BY <1>1, <1>3 DEF Publish

\* A chunk that is done with: the message goes on, or its worker is idle.
LEMMA ChunkSays ==
  ASSUME TypeOK, cur.left > 0, NEW b \in BOOLEAN, NextChunk(b)
  PROVE  /\ cur'.left > 0 => /\ cur.left > 1 /\ cur'.kind = cur.kind /\ cur'.ans = cur.ans
                             /\ cur'.begun = b /\ ~cur'.passed
         /\ \A a : Sends(a)' => Sends(a) /\ cur.left > 1 /\ cur'.begun = b
         /\ cur' \in Sending
<1>1. CASE cur.left = 1
  BY <1>1, ReplyAssumption DEF NextChunk, Idle, Sends, Kinds, Answers, Sending
<1>2. CASE cur.left # 1
  <2>1. cur' = [cur EXCEPT !.left = @ - 1, !.begun = b, !.passed = FALSE]
    BY <1>2 DEF NextChunk
  <2>2. /\ cur'.kind = cur.kind /\ cur'.ans = cur.ans /\ cur'.begun = b /\ ~cur'.passed
        /\ cur.left > 1
    BY <1>2, <2>1, Steps DEF TypeOK
  <2>3. cur' \in Sending
    <3>1. cur.left \in 0 .. Chunks /\ cur.left - 1 \in 0 .. Chunks
      BY <2>2, ReplyAssumption DEF TypeOK
    <3> QED
      BY <2>1, <3>1 DEF TypeOK, Sending
  <2> QED
    BY <2>2, <2>3 DEF Sends, IsFinal
<1> QED
  BY <1>1, <1>2

\* A chunk that passes preSend.
LEMMA PassSays ==
  ASSUME TypeOK, Pass
  PROVE  /\ cur.left > 0 /\ ~cur.passed /\ cur' \in Sending /\ cur'.passed
         /\ UNCHANGED <<cur.left, cur.kind, cur.ans, cur.begun>>
         /\ \A a : Sends(a)' = Sends(a)
         /\ cur.kind \in {"final", "feedback"} => marker = None
<1>1. cur.left > 0 /\ ~cur.passed /\ cur' = [cur EXCEPT !.passed = TRUE]
  BY DEF Pass, Unchecked
<1>2. cur \in Sending
  BY DEF TypeOK, Sending
<1>3. /\ cur' \in Sending /\ cur'.passed /\ cur'.left = cur.left /\ cur'.kind = cur.kind
      /\ cur'.ans = cur.ans /\ cur'.begun = cur.begun
  BY <1>1, <1>2 DEF Sending
<1>4. cur.kind \in {"final", "feedback"} => marker = None
  BY DEF Pass, Stale, FinalizedStreamActive
<1> QED
  BY <1>1, <1>3, <1>4 DEF Sends, IsFinal

-----------------------------------------------------------------------------
(* Each part of the invariant is kept.                                     *)

LEMMA RangeKeeps ==
  ASSUME TypeOK, RangeInv, [Next]_vars
  PROVE  RangeInv'
<1> USE DEF agent, channel, history, workers
<1>1. CASE Quiet
  BY <1>1 DEF Quiet, RangeInv, history
<1>2. CASE StartTurn
  <2>1. ans' = ans + 1 /\ UNCHANGED <<queue, cur, shown>>
    BY <1>2 DEF StartTurn
  <2>2. \A n \in Nat : (n <= ans => n <= ans + 1) /\ (n > ans + 1 => n > ans)
    BY Steps
  <2>3. Answers \subseteq Nat
    BY DEF Answers
  <2> QED
    BY SMTT(20), <2>1, <2>2, <2>3, Steps DEF RangeInv
<1>3. ASSUME NEW m \in Message, Posts(m), UNCHANGED <<ans, cur, shown>>, apc # "idle"
      PROVE  RangeInv'
  BY <1>3, Steps, PostPlaces DEF Posts, RangeInv
<1>4. ASSUME UNCHANGED <<ans, cur, shown, queue>>, apc # "idle"
      PROVE  RangeInv'
  BY <1>4 DEF RangeInv
<1>5. CASE PostAside
  BY <1>3, <1>5, PostAsideSays DEF PostAside
<1>6. CASE FinalizeStream
  <2>1. \A a \in Answers : a > ans => shown'[a] = shown[a]
    BY <1>6, Steps DEF FinalizeStream
  <2> QED
    BY <1>6, <2>1 DEF FinalizeStream, Return, RangeInv
<1>16. CASE StoreMarker \/ StoreTombstone
  BY <1>4, <1>16 DEF StoreMarker, StoreTombstone
<1>17. CASE Pass
  BY <1>17, PassSays DEF Pass, RangeInv
<1>7. CASE FinalizeUnseen
  BY <1>3, <1>4, <1>7, FinalizeUnseenSays DEF FinalizeUnseen
<1>8. CASE Fail
  BY <1>3, <1>4, <1>8, FailSays DEF Fail
<1>9. CASE Publish
  BY <1>3, <1>4, <1>9, PublishSays DEF Publish
<1>10. CASE TakeMessage
  BY <1>10, Steps, TakePlaces DEF TakeMessage, RangeInv
<1>11. ASSUME cur.left > 0, NEW b \in BOOLEAN, NextChunk(b), UNCHANGED <<apc, ans, queue>>,
              \A a \in Answers : a = cur.ans \/ shown'[a] = shown[a]
       PROVE  RangeInv'
  BY SMTT(20), <1>11, Steps, ChunkSays DEF RangeInv
<1>12. CASE DropStale
  BY <1>11, <1>12 DEF DropStale, Unchecked
<1>13. CASE SkipFinal
  BY <1>11, <1>13, Steps DEF SkipFinal, Unchecked
<1>14. CASE Show
  <2>1. \A a \in Answers : a = cur.ans \/ shown'[a] = shown[a]
    BY <1>14, Steps DEF Show
  <2> QED
    BY <1>11, <1>14, <2>1 DEF Show
<1>15. CASE SendMedia
  BY <1>15 DEF SendMedia, RangeInv
<1> QED
  BY <1>1, <1>2, <1>5, <1>6, <1>7, <1>8, <1>9, <1>10, <1>12, <1>13, <1>14, <1>15, <1>16, <1>17,
     NextSplit

LEMMA FreshKeeps ==
  ASSUME TypeOK, FreshInv, [Next]_vars
  PROVE  FreshInv'
<1> USE DEF agent, channel, history, workers, FreshInv, Generating
<1>1. CASE Quiet
  BY <1>1 DEF Quiet
<1>2. CASE StartTurn
  BY <1>2, Steps DEF StartTurn, TypeOK
<1>3. CASE PostAside \/ FinalizeStream \/ StoreMarker \/ StoreTombstone \/ FinalizeUnseen \/ Fail
           \/ Publish
  BY <1>3 DEF PostAside, FinalizeStream, StoreMarker, StoreTombstone, FinalizeUnseen, Fail,
              Publish, Return
<1>4. CASE TakeMessage \/ DropStale \/ SkipFinal \/ Pass \/ Show \/ SendMedia
  BY <1>4 DEF TakeMessage, DropStale, SkipFinal, Pass, Show, SendMedia
<1> QED
  BY <1>1, <1>2, <1>3, <1>4, NextSplit

LEMMA CountKeeps ==
  ASSUME TypeOK, RangeInv, FreshInv, CountInv, EndedInv, [Next]_vars
  PROVE  CountInv'
<1> USE DEF agent, channel, history, workers
<1> DEFINE N(a) == Cardinality(Finals(queue, a))
           S(a) == One(Sends(a) /\ ~cur.begun)
           O(a) == One(Owed(a))
           T(a) == One(a \in twice)
           R(a) == One(a \in streamed)
           Said(a) == shown[a] + N(a) + S(a) + O(a) <= 1 + T(a) + R(a)
<1>a. /\ \A a : N(a) \in Nat /\ S(a) \in 0 .. 1 /\ O(a) \in 0 .. 1 /\ T(a) \in 0 .. 1 /\ R(a) \in 0 .. 1
      /\ \A a \in Answers : shown[a] \in Nat /\ Said(a)
  BY SMTT(20), Steps, FinalsAreFinite DEF One, CountInv
<1>b. ASSUME queue' \in Seq(Message)
      PROVE  \A a : N(a)' \in Nat /\ S(a)' \in 0 .. 1 /\ O(a)' \in 0 .. 1 /\ T(a)' \in 0 .. 1
                     /\ R(a)' \in 0 .. 1
  BY <1>b, FinalsAreFinite DEF One
<1> SUFFICES ASSUME NEW a \in Answers
             PROVE  Said(a)'
  BY DEF CountInv
<1>c. queue' = queue => N(a)' = N(a)
  OBVIOUS
<1>d. cur' = cur => S(a)' = S(a)
  BY DEF Sends, IsFinal
<1>e. (Owed(a)' => Owed(a)) => O(a)' <= O(a)
  BY DEF One
<1>f. /\ twice' = twice => T(a)' = T(a)
      /\ streamed' = streamed => R(a)' = R(a)
  OBVIOUS
<1>g. queue \in Seq(Message)
  BY Steps
<1> HIDE DEF N, S, O, T, R
<1>h. ASSUME queue' = queue, S(a)' <= S(a), Owed(a)' => Owed(a), UNCHANGED <<shown, twice, streamed>>
      PROVE  Said(a)'
  BY <1>a, <1>b, <1>c, <1>e, <1>f, <1>g, <1>h
<1>1. CASE Quiet
  BY <1>1, <1>a, <1>d, <1>h DEF Quiet, Owed, Unreturned
<1>2. CASE StartTurn
  <2>1. CASE a = ans + 1
    <3>1. shown[a] = 0 /\ ~Sends(a)
      BY <2>1, Steps DEF RangeInv, Sends, IsFinal
    <3>2. Finals(queue, a) = {}
      BY SMTT(20), <2>1, Steps DEF RangeInv, Finals, IsFinal
    <3>3. N(a) = 0 /\ S(a) = 0
      BY <3>1, <3>2, <1>g, FinalsAreFinite DEF N, S, One
    <3>4. UNCHANGED <<queue, cur, shown, twice, streamed>>
      BY <1>2 DEF StartTurn
    <3> QED
      BY <1>a, <1>b, <1>c, <1>d, <1>f, <1>g, <3>1, <3>3, <3>4
  <2>2. CASE a # ans + 1
    <3>1. Owed(a)' => Owed(a)
      BY <1>2, <2>2 DEF StartTurn, Owed, Unreturned
    <3> QED
      BY <1>2, <1>d, <1>h, <3>1, <1>a DEF StartTurn
  <2> QED
    BY <2>1, <2>2
<1>i. ASSUME NEW m \in Message, Posts(m), ~IsFinal(m, a), Owed(a)' => Owed(a),
             UNCHANGED <<cur, shown, twice, streamed>>
      PROVE  Said(a)'
  <2>1. queue' \in Seq(Message) /\ N(a)' = N(a) + One(IsFinal(m, a))
    BY <1>i, PostPlaces DEF Posts, N
  <2>2. N(a)' = N(a)
    BY <2>1, <1>a, <1>i DEF One
  <2> QED
    BY <2>1, <2>2, <1>a, <1>b, <1>d, <1>e, <1>f, <1>i
<1>3. CASE PostAside
  BY <1>3, <1>i, PostAsideSays DEF PostAside, Owed, Unreturned, IsFinal
<1>4. CASE FinalizeStream
  <2>1. Owed(a)' => Owed(a)
    BY <1>4 DEF FinalizeStream, Owed, Unreturned
  <2>2. UNCHANGED <<queue, cur, twice>>
    BY <1>4 DEF FinalizeStream
  <2>3. CASE a = ans
    <3>1. shown[a] = 0 /\ N(a) = 0 /\ ~Sends(a)
      BY <1>4, <2>3, FreshSays DEF FinalizeStream, Generating, N
    <3>2. S(a) = 0
      BY <3>1 DEF S, One
    <3>3. shown'[a] = shown[a] + 1 /\ a \in streamed'
      BY <1>4, <2>3, Steps DEF FinalizeStream
    <3>4. R(a)' = 1
      BY <3>3 DEF R, One
    <3> QED
      BY <1>b, <1>c, <1>d, <1>g, <2>2, <3>1, <3>2, <3>3, <3>4
  <2>4. CASE a # ans
    <3>1. shown'[a] = shown[a] /\ (a \in streamed' <=> a \in streamed)
      BY <1>4, <2>4, Steps DEF FinalizeStream
    <3>2. R(a)' = R(a)
      BY <3>1 DEF R, One
    <3> QED
      BY <1>a, <1>b, <1>c, <1>d, <1>e, <1>f, <1>g, <2>1, <2>2, <3>1, <3>2
  <2> QED
    BY <2>3, <2>4
<1>13. CASE StoreMarker
  BY <1>13, <1>a, <1>d, <1>h DEF StoreMarker, Owed, Unreturned
<1>14. CASE StoreTombstone
  <2>1. Owed(a)' => Owed(a)
    BY <1>14 DEF StoreTombstone, Return, Owed, Unreturned, Answers, None
  <2> QED
    BY <1>14, <2>1, <1>a, <1>d, <1>h DEF StoreTombstone
<1>5. CASE FinalizeUnseen
  <2>1. Owed(a)' => Owed(a)
    BY <1>5 DEF FinalizeUnseen, Return, Owed, Unreturned, Answers, None
  <2>2. UNCHANGED <<cur, shown, streamed>>
    BY <1>5 DEF FinalizeUnseen
  <2>3. CASE UNCHANGED <<queue, twice>>
    BY <2>1, <2>2, <2>3, <1>d, <1>a, <1>h
  <2>4. ASSUME twice' = twice \cup {ans}, NEW m \in Message, Posts(m), IsFinal(m, ans)
        PROVE  Said(a)'
    <3>1. CASE a = ans
      <4>1. N(a) = 0 /\ T(a) = 0
        BY <1>5, <3>1, FreshSays DEF FinalizeUnseen, Generating, N, T, One
      <4>2. T(a)' = 1
        BY <2>4, <3>1 DEF T, One
      <4>3. queue' \in Seq(Message) /\ N(a)' = 1
        BY <2>4, <3>1, <4>1, PostPlaces DEF Posts, N, One
      <4> QED
        BY <1>a, <1>b, <1>d, <1>e, <1>f, <2>1, <2>2, <4>1, <4>2, <4>3
    <3>2. CASE a # ans
      <4>1. T(a)' = T(a) /\ ~IsFinal(m, a)
        BY <2>4, <3>2 DEF T, One, IsFinal
      <4>2. queue' \in Seq(Message) /\ N(a)' = N(a)
        BY <2>4, <4>1, PostPlaces, <1>a DEF Posts, N
      <4> QED
        BY <1>a, <1>b, <1>d, <1>e, <1>f, <2>1, <2>2, <4>1, <4>2
    <3> QED
      BY <3>1, <3>2
  <2> QED
    BY <1>5, <2>3, <2>4, FinalizeUnseenSays
<1>6. CASE Fail
  <2>1. Owed(a)' => Owed(a)
    BY <1>6, Steps DEF Fail, Owed, Unreturned, Answers, None
  <2>2. UNCHANGED <<cur, shown, twice, streamed>>
    BY <1>6 DEF Fail
  <2> QED
    BY <1>6, <1>a, <1>d, <1>h, <1>i, <2>1, <2>2, FailSays DEF IsFinal
<1>7. CASE Publish
  <2>1. ~Owed(a)' /\ UNCHANGED <<cur, shown, twice, streamed>>
    BY <1>7, PublishSays DEF Publish
  <2>2. ASSUME NEW m \in Message, Posts(m), m.kind = "final", Owed(m.ans)
        PROVE  Said(a)'
    <3>1. CASE m.ans = a
      <4>1. O(a) = 1 /\ O(a)' = 0
        BY <2>1, <2>2, <3>1 DEF O, One
      <4>2. queue' \in Seq(Message) /\ N(a)' = N(a) + 1
        BY <2>2, <3>1, PostPlaces DEF Posts, N, One, IsFinal
      <4> QED
        BY <1>a, <1>b, <1>d, <1>f, <2>1, <4>1, <4>2
    <3>2. CASE m.ans # a
      BY <2>1, <2>2, <3>2, <1>i DEF IsFinal
    <3> QED
      BY <3>1, <3>2
  <2> QED
    BY <1>7, <2>1, <2>2, <1>a, <1>d, <1>h, PublishSays
<1>8. CASE TakeMessage
  <2>1. UNCHANGED <<shown, twice, streamed, response, continued, ans, apc>>
    BY <1>8 DEF TakeMessage
  <2>2. /\ queue' \in Seq(Message)
        /\ N(a) = N(a)' + One(IsFinal(Head(queue), a))
    BY <1>8, TakePlaces DEF TakeMessage, N
  <2>3. cur'.kind = Head(queue).kind /\ cur'.ans = Head(queue).ans
    BY <1>8 DEF TakeMessage
  <2>4. S(a)' <= One(IsFinal(Head(queue), a))
    BY <2>3 DEF S, One, Sends, IsFinal
  <2>5. O(a)' = O(a)
    BY <2>1 DEF O, One, Owed, Unreturned
  <2>6. One(IsFinal(Head(queue), a)) \in 0 .. 1
    BY DEF One
  <2>7. T(a)' = T(a) /\ R(a)' = R(a) /\ shown'[a] = shown[a]
    BY <1>f, <2>1
  <2>8. N(a)' \in Nat /\ S(a)' \in 0 .. 1 /\ S(a) \in 0 .. 1 /\ O(a) \in 0 .. 1
    BY <1>a, <1>b, <2>2
  <2>9. S(a)' = 1 => One(IsFinal(Head(queue), a)) = 1
    BY <2>4, <2>6, <2>8
  <2>10. N(a)' + S(a)' <= N(a)
    BY <2>2, <2>6, <2>8, <2>9
  <2> QED
    BY <1>a, <2>5, <2>7, <2>8, <2>10
<1>j. ASSUME cur.left > 0, NEW b \in BOOLEAN, NextChunk(b), b \/ b = cur.begun \/ ~IsFinal(cur, a)
      PROVE  S(a)' <= S(a)
  BY SMTT(20), <1>j, ChunkSays, Steps DEF S, One, Sends
<1>9. CASE DropStale
  <2>1. S(a)' <= S(a)
    BY <1>9, <1>j DEF DropStale, Unchecked, Stale, IsFinal
  <2> QED
    BY <1>9, <2>1, <1>h DEF DropStale, Owed, Unreturned
<1>10. CASE SkipFinal
  <2>1. S(a)' <= S(a)
    BY <1>10, <1>j, Steps DEF SkipFinal, Unchecked
  <2> QED
    BY <1>10, <2>1, <1>h DEF SkipFinal, Owed, Unreturned
<1>15. CASE Pass
  <2>1. S(a)' = S(a)
    BY <1>15, PassSays DEF S
  <2> QED
    BY <1>15, <2>1, <1>a, <1>h DEF Pass, Owed, Unreturned
<1>11. CASE Show
  <2>1. S(a)' <= S(a)
    BY <1>11, <1>j DEF Show
  <2>2. CASE shown' = shown
    BY <1>11, <2>1, <2>2, <1>h DEF Show, Owed, Unreturned
  <2>3. CASE cur.kind = "final" /\ ~cur.begun /\ shown' = [shown EXCEPT ![cur.ans] = @ + 1]
    <3>1. CASE cur.ans = a
      <4>1. shown'[a] = shown[a] + 1
        BY <2>3, <3>1, Steps
      <4>2. S(a) = 1
        BY <1>11, <2>3, <3>1 DEF Show, S, One, Sends, IsFinal
      <4>3. S(a)' = 0
        BY <1>11, ChunkSays DEF Show, S, One
      <4>4. O(a)' = O(a) /\ UNCHANGED <<queue, twice, streamed>>
        BY <1>11 DEF Show, O, One, Owed, Unreturned
      <4> QED
        BY <1>a, <1>b, <1>c, <1>f, <1>g, <4>1, <4>2, <4>3, <4>4
    <3>2. CASE cur.ans # a
      <4>1. shown'[a] = shown[a]
        BY <2>3, <3>2, Steps
      <4>2. O(a)' = O(a) /\ UNCHANGED <<queue, twice, streamed>>
        BY <1>11 DEF Show, O, One, Owed, Unreturned
      <4> QED
        BY <1>a, <1>b, <1>c, <1>f, <1>g, <2>1, <4>1, <4>2
    <3> QED
      BY <3>1, <3>2
  <2> QED
    BY <1>11, <2>2, <2>3 DEF Show
<1>12. CASE SendMedia
  BY <1>12, <1>a, <1>d, <1>h DEF SendMedia, Owed, Unreturned
<1> QED
  BY <1>1, <1>2, <1>3, <1>4, <1>5, <1>6, <1>7, <1>8, <1>9, <1>10, <1>11, <1>12, <1>13,
     <1>14, <1>15, NextSplit

LEMMA StreamKeeps ==
  ASSUME TypeOK, RangeInv, FreshInv, CountInv, StreamInv, EndedInv, [Next]_vars
  PROVE  StreamInv'
<1> USE DEF agent, channel, history, workers
<1> DEFINE Said(a) ==
      /\ a \notin twice /\ shown[a] >= 1
      /\ a \notin crossed =>
            /\ shown[a] = 1
            /\ Sends(a) => marker = a /\ cur.left = 1 /\ ~cur.begun /\ ~cur.passed
            /\ marker = a \/ (~Held(a) /\ Finals(queue, a) = {})
<1>a. /\ streamed \subseteq Answers /\ twice \subseteq Answers /\ marker \in Nat
      /\ \A a \in Answers : a # None
  BY SMTT(20), Steps DEF TypeOK, Answers, None
<1>b. \A a \in streamed : Said(a)
  BY DEF StreamInv
<1> SUFFICES ASSUME NEW a \in streamed'
             PROVE  Said(a)'
  BY DEF StreamInv
<1>c. cur' = cur => (Sends(a)' => Sends(a))
  BY DEF Sends, IsFinal
<1>d. ASSUME UNCHANGED <<twice, shown, crossed, marker, streamed, cur>>, Held(a)' => Held(a),
             Finals(queue', a) = Finals(queue, a) \/ (marker = a)
      PROVE  Said(a)'
  BY <1>b, <1>c, <1>d
<1>1. CASE Quiet
  BY <1>1, <1>d DEF Quiet, Held, Owed, Unreturned
<1>2. CASE StartTurn
  <2>1. UNCHANGED <<twice, shown, crossed, marker, streamed, cur, queue, response, continued>>
        /\ ans' = ans + 1 /\ apc # "finalized"
    BY <1>2 DEF StartTurn
  <2>2. a \in 1 .. ans
    BY <2>1 DEF TypeOK
  <2>3. Held(a)' => Held(a)
    BY <2>1, <2>2, Steps DEF Held, Owed
  <2> QED
    BY <1>d, <2>1, <2>3
<1>3. CASE PostAside
  <2>1. Finals(queue', a) = Finals(queue, a)
    BY <1>3, PostAsideSays, PostPlaces DEF Posts, IsFinal
  <2> QED
    BY <1>3, <1>d, <2>1 DEF PostAside, Held, Owed, Unreturned
<1>4. CASE FinalizeStream
  <2>1. /\ UNCHANGED <<queue, cur, twice, marker, crossed, ans, response, continued>>
        /\ streamed' = streamed \cup {ans} /\ shown' = [shown EXCEPT ![ans] = @ + 1]
        /\ apc = "answered" /\ apc' = "finalized"
    BY <1>4 DEF FinalizeStream
  <2>2. /\ ans \in Answers /\ ans \notin streamed \cup twice /\ shown[ans] = 0 /\ ~Sends(ans)
        /\ Finals(queue, ans) = {}
    BY <1>4, FreshSays DEF FinalizeStream, Generating
  <2>3. CASE a = ans
    <3>1. shown'[a] = 1 /\ ~Held(a)'
      BY <2>1, <2>2, <2>3, Steps DEF Held
    <3> QED
      BY <1>c, <2>1, <2>2, <2>3, <3>1
  <2>4. CASE a # ans
    <3>1. a \in streamed /\ shown'[a] = shown[a]
      BY <2>1, <2>2, <2>4, Steps
    <3>2. Held(a)' => Held(a)
      BY <2>1, <2>4 DEF Held, Owed
    <3> QED
      BY <1>b, <1>c, <2>1, <2>4, <3>1, <3>2
  <2> QED
    BY <2>3, <2>4
<1>13. CASE StoreMarker
  <2>1. /\ UNCHANGED <<queue, cur, twice, streamed, shown, ans, response, continued>>
        /\ marker' = ans /\ apc = "finalized" /\ apc' = "marked"
        /\ crossed' = IF marker = None THEN crossed ELSE crossed \cup {marker, ans}
    BY <1>13 DEF StoreMarker, Mark
  <2>2. CASE a = ans
    BY <1>b, <1>c, <2>1, <2>2
  <2>3. CASE a # ans
    <3>1. a \notin crossed' => a \notin crossed /\ marker # a
      BY <1>a, <2>1
    <3>2. Held(a)' => Held(a)
      BY <2>1, <2>3 DEF Held, Owed
    <3> QED
      BY <1>b, <1>c, <2>1, <2>3, <3>1, <3>2
  <2> QED
    BY <2>2, <2>3
<1>14. CASE StoreTombstone
  <2>1. UNCHANGED <<twice, shown, crossed, marker, streamed, cur, queue>>
    BY <1>14 DEF StoreTombstone
  <2>2. Held(a)' => Held(a)
    BY <1>14, <1>a, <2>1 DEF StoreTombstone, Return, Held, Owed, Unreturned
  <2> QED
    BY <1>d, <2>1, <2>2
<1>5. CASE FinalizeUnseen
  <2>1. UNCHANGED <<shown, crossed, marker, streamed, cur>>
    BY <1>5 DEF FinalizeUnseen
  <2>2. a # ans
    BY <1>5, <2>1, FreshSays DEF FinalizeUnseen, Generating
  <2>3. Held(a)' => Held(a)
    BY <1>5, <1>a, <2>1 DEF FinalizeUnseen, Return, Held, Owed, Unreturned
  <2>4. (a \in twice' => a \in twice) /\ Finals(queue', a) = Finals(queue, a)
    BY <1>5, <2>2, FinalizeUnseenSays, PostPlaces DEF Posts, IsFinal
  <2> QED
    BY <1>b, <1>c, <2>1, <2>3, <2>4
<1>6. CASE Fail
  <2>1. UNCHANGED <<twice, shown, crossed, marker, streamed, cur>>
    BY <1>6 DEF Fail
  <2>2. Finals(queue', a) = Finals(queue, a)
    BY <1>6, FailSays, PostPlaces DEF Posts, IsFinal
  <2>3. Held(a)' => Held(a)
    BY <1>6, <1>a, <2>1 DEF Fail, Held, Owed, Unreturned
  <2> QED
    BY <1>d, <2>1, <2>2, <2>3
<1>7. CASE Publish
  <2>1. UNCHANGED <<twice, shown, crossed, marker, streamed, cur>>
    BY <1>7 DEF Publish
  <2>2. ~Held(a)' /\ \A m : Owed(m) => Held(m)
    BY <1>7, <1>a, <2>1, PublishSays DEF Held, Publish
  <2>3. CASE a \in crossed
    BY <1>b, <2>1, <2>3
  <2>4. CASE Finals(queue', a) = Finals(queue, a)
    BY <1>d, <2>1, <2>2, <2>4
  <2>5. ASSUME a \notin crossed, NEW m \in Message, Posts(m), m.kind = "final", Owed(m.ans)
        PROVE  Said(a)'
    <3>1. CASE m.ans = a
      <4>1. marker = a
        BY <1>b, <2>1, <2>2, <2>5, <3>1
      <4> QED
        BY <1>d, <2>1, <2>2, <4>1
    <3>2. CASE m.ans # a
      BY <2>4, <2>5, <3>2, PostPlaces DEF Posts, IsFinal
    <3> QED
      BY <3>1, <3>2
  <2> QED
    BY <1>7, <2>3, <2>4, <2>5, PublishSays
<1>8. CASE TakeMessage
  <2>1. UNCHANGED <<twice, shown, crossed, marker, streamed, response, continued, ans, apc>>
        /\ queue # <<>> /\ queue' = Tail(queue)
    BY <1>8 DEF TakeMessage
  <2>2. Held(a)' = Held(a)
    BY <2>1 DEF Held, Owed, Unreturned
  <2>3. Finals(queue, a) = {} => Finals(queue', a) = {}
    BY <2>1, TakePlaces
  <2>4. ASSUME a \notin crossed, Sends(a)'
        PROVE  marker' = a /\ cur'.left = 1 /\ ~cur'.begun /\ ~cur'.passed
    <3>1. /\ cur'.kind = Head(queue).kind /\ cur'.ans = Head(queue).ans
          /\ cur'.begun = FALSE /\ cur'.passed = FALSE
      BY <1>8 DEF TakeMessage
    <3>2. Head(queue).kind = "final" /\ Head(queue).ans = a
      BY <2>4, <3>1 DEF Sends, IsFinal
    <3>3. 1 \in Finals(queue, a)
      BY <2>1, <3>2, TakePlaces DEF Finals, IsFinal
    <3>4. marker = a
      BY <1>b, <2>1, <2>4, <3>3
    <3>5. FinalizedStreamActive(Head(queue))
      BY <1>a, <2>1, <3>2, <3>4 DEF FinalizedStreamActive
    <3>6. cur'.left = 1
      BY <1>8, <3>5 DEF TakeMessage
    <3> QED
      BY <2>1, <3>1, <3>4, <3>6
  <2> QED
    BY <1>b, <2>1, <2>2, <2>3, <2>4
<1>9. CASE DropStale
  <2>1. ~Sends(a)'
    BY <1>9, ChunkSays DEF DropStale, Unchecked, Stale, Sends, IsFinal
  <2> QED
    BY <1>9, <1>b, <2>1 DEF DropStale, Held, Owed, Unreturned
<1>10. CASE SkipFinal
  <2>1. /\ UNCHANGED <<queue, twice, shown, streamed, response, continued, ans, apc>>
        /\ marker' = None /\ marker # None
        /\ crossed' = IF marker = cur.ans THEN crossed ELSE crossed \cup {marker, cur.ans}
        /\ cur.left > 0 /\ cur.kind = "final" /\ NextChunk(cur.begun) /\ cur.begun \in BOOLEAN
    BY <1>10, Steps DEF SkipFinal, Unchecked, ConsumeMarker, FinalizedStreamActive
  <2>2. CASE a \in crossed'
    BY <1>b, <2>1, <2>2
  <2>3. CASE a \notin crossed'
    <3>1. Sends(a)' => Sends(a) /\ cur.left > 1
      BY <2>1, ChunkSays
    <3>2. a \notin crossed /\ a \in streamed
      BY <2>1, <2>3
    <3>3. ~Sends(a)'
      BY <1>b, <3>1, <3>2
    <3>4. ~Held(a) /\ Finals(queue, a) = {}
      <4>1. CASE marker # a
        BY <1>b, <3>2, <4>1
      <4>2. CASE marker = a
        <5>1. Sends(a)
          BY <2>1, <2>3, <4>2 DEF Sends, IsFinal
        <5>2. ~cur.begun /\ a \notin twice /\ shown[a] = 1
          BY <1>b, <3>2, <5>1
        <5>3. /\ One(Sends(a) /\ ~cur.begun) = 1 /\ One(a \in twice) = 0 /\ One(a \in streamed) = 1
          BY <3>2, <5>1, <5>2 DEF One
        <5>4. 1 + Cardinality(Finals(queue, a)) + 1 + One(Owed(a)) <= 1 + 0 + 1
          BY <1>a, <3>2, <5>2, <5>3 DEF CountInv
        <5>5. Cardinality(Finals(queue, a)) \in Nat /\ One(Owed(a)) \in 0 .. 1
          BY Steps, FinalsAreFinite DEF One
        <5>6. Cardinality(Finals(queue, a)) = 0 /\ One(Owed(a)) = 0
          BY ONLY <5>4, <5>5
        <5> QED
          BY <5>6, Steps, FinalsAreFinite DEF One, Held
      <4> QED
        BY <4>1, <4>2
    <3> QED
      BY <1>b, <2>1, <3>2, <3>3, <3>4 DEF Held, Owed, Unreturned
  <2> QED
    BY <2>2, <2>3
<1>15. CASE Pass
  <2>1. UNCHANGED <<queue, twice, crossed, marker, streamed, shown, response, continued, ans, apc>>
    BY <1>15 DEF Pass
  <2>2. a \notin crossed => ~Sends(a)
    BY <1>15, <1>a, <1>b, <2>1, PassSays DEF Sends, IsFinal
  <2>3. Sends(a)' = Sends(a)
    BY <1>15, PassSays
  <2> QED
    BY <1>b, <2>1, <2>2, <2>3 DEF Held, Owed, Unreturned
<1>11. CASE Show
  <2>1. UNCHANGED <<queue, twice, crossed, marker, streamed, response, continued, ans, apc>>
        /\ cur.left > 0 /\ NextChunk(TRUE) /\ cur.passed
    BY <1>11 DEF Show
  <2>2. Sends(a)' => Sends(a)
    BY <2>1, ChunkSays
  <2>3. shown'[a] >= shown[a]
    BY <1>11, <1>a, <2>1, Steps DEF Show
  <2>4. shown'[a] >= 1
    BY <1>a, <1>b, <1>11, <2>1, Steps DEF Show
  <2>5. a \notin crossed => ~Sends(a)
    BY <1>b, <2>1
  <2>6. a \notin crossed => shown'[a] = shown[a]
    BY <1>11, <1>a, <2>1, <2>5, Steps DEF Show, Sends, IsFinal
  <2> QED
    BY <1>b, <2>1, <2>2, <2>4, <2>5, <2>6 DEF Held, Owed, Unreturned
<1>12. CASE SendMedia
  <2>1. /\ UNCHANGED <<queue, cur, twice, shown, streamed, response, continued, ans, apc>>
        /\ marker' = None
        /\ crossed' = IF marker = None THEN crossed ELSE crossed \cup {marker}
    BY <1>12 DEF SendMedia
  <2>2. a \notin crossed' => a \notin crossed /\ marker # a
    BY <1>a, <2>1
  <2> QED
    BY <1>b, <1>c, <2>1, <2>2 DEF Held, Owed, Unreturned
<1> QED
  BY <1>1, <1>2, <1>3, <1>4, <1>5, <1>6, <1>7, <1>8, <1>9, <1>10, <1>11, <1>12, <1>13,
     <1>14, <1>15, NextSplit

LEMMA EndedKeeps ==
  ASSUME TypeOK, RangeInv, StreamInv, EndedInv, [Next]_vars
  PROVE  EndedInv'
<1> USE DEF agent, channel, history, workers
<1>a. ended \subseteq Answers /\ Answers \subseteq Nat /\ \A a \in Answers : shown[a] \in Nat
  <2>1. ended \subseteq 1 .. ans
    BY DEF TypeOK
  <2>2. Answers \subseteq Nat /\ 1 .. ans \subseteq Answers
    BY Steps DEF Answers
  <2> QED
    BY <2>1, <2>2, Steps
<1>b. ASSUME crossed \subseteq crossed', \A a \in Answers : shown'[a] >= shown[a] /\ shown'[a] \in Nat,
             \A a \in ended' \ crossed' : a \in ended \/ shown'[a] >= 1,
             \A a \in Answers : Sends(a)' /\ cur'.begun => (Sends(a) /\ cur.begun) \/ shown'[a] >= 1
      PROVE  EndedInv'
  <2>1. \A a \in Answers : shown[a] >= 1 => shown'[a] >= 1
    BY <1>a, <1>b
  <2>2. \A a \in ended' \ crossed' : shown'[a] >= 1
    BY <1>a, <1>b, <2>1 DEF EndedInv
  <2>3. \A a \in Answers : Sends(a)' /\ cur'.begun => shown'[a] >= 1
    BY <1>b, <2>1 DEF EndedInv
  <2> QED
    BY <2>2, <2>3 DEF EndedInv
<1>c. ASSUME UNCHANGED <<crossed, shown, ended>>, UNCHANGED cur
      PROVE  EndedInv'
  BY <1>c DEF EndedInv, Sends, IsFinal
<1>1. CASE Quiet
  BY <1>1, <1>c DEF Quiet
<1>2. CASE StartTurn \/ PostAside \/ StoreTombstone \/ FinalizeUnseen \/ Fail \/ Publish
  BY <1>2, <1>c DEF StartTurn, PostAside, StoreTombstone, FinalizeUnseen, Fail, Publish
<1>9. CASE StoreMarker
  BY <1>9, <1>a, <1>b DEF StoreMarker, Sends, IsFinal
<1>10. CASE Pass
  BY <1>10, <1>a, <1>b, PassSays DEF Pass
<1>3. CASE FinalizeStream
  <2>1. \A a \in Answers : shown'[a] >= shown[a] /\ shown'[a] \in Nat
    BY <1>3, <1>a, Steps DEF FinalizeStream
  <2>2. UNCHANGED <<cur, ended>> /\ crossed \subseteq crossed'
    BY <1>3 DEF FinalizeStream
  <2> QED
    BY <1>b, <2>1, <2>2 DEF Sends, IsFinal
<1>4. CASE TakeMessage
  BY <1>4, <1>a, <1>b DEF TakeMessage
<1>5. CASE DropStale
  <2>1. \A a \in Answers : ~Sends(a)'
    BY <1>5, ChunkSays DEF DropStale, Unchecked, Stale, Sends, IsFinal
  <2>2. UNCHANGED <<ended, shown, crossed>>
    BY <1>5 DEF DropStale, Stale, NextChunk
  <2> QED
    BY <1>a, <1>b, <2>1, <2>2
<1>6. CASE SkipFinal
  <2>1. /\ UNCHANGED shown /\ cur.left > 0 /\ cur.kind = "final" /\ NextChunk(cur.begun)
        /\ marker # None /\ cur.begun \in BOOLEAN /\ cur.ans \in Answers
        /\ crossed' = IF marker = cur.ans THEN crossed ELSE crossed \cup {marker, cur.ans}
    BY <1>6, Steps DEF SkipFinal, Unchecked, FinalizedStreamActive
  <2>2. \A a \in Answers : Sends(a)' /\ cur'.begun => Sends(a) /\ cur.begun
    BY <2>1, ChunkSays
  <2>3. cur.ans \in crossed' \/ shown[cur.ans] >= 1
    BY <2>1 DEF TypeOK, StreamInv
  <2>4. ended' \subseteq ended \cup {cur.ans}
    BY <2>1 DEF NextChunk
  <2> QED
    BY <1>a, <1>b, <2>1, <2>2, <2>3, <2>4
<1>7. CASE Show
  <2>1. UNCHANGED crossed /\ cur.left > 0 /\ NextChunk(TRUE) /\ cur.ans \in Answers
    BY <1>7, Steps DEF Show
  <2>2. \A a \in Answers : shown'[a] >= shown[a] /\ shown'[a] \in Nat
    BY SMTT(20), <1>7, <1>a, Steps DEF Show
  <2>3. cur.kind = "final" => shown'[cur.ans] >= 1
    <3>1. ASSUME cur.kind = "final", cur.begun
          PROVE  shown'[cur.ans] >= 1
      <4>1. Sends(cur.ans)
        BY <2>1, <3>1 DEF Sends, IsFinal
      <4>2. shown[cur.ans] >= 1 /\ shown' = shown
        BY <1>7, <2>1, <3>1, <4>1 DEF EndedInv, Show
      <4> QED
        BY <4>2
    <3>2. ASSUME cur.kind = "final", ~cur.begun
          PROVE  shown'[cur.ans] >= 1
      BY <1>7, <1>a, <2>1, <3>2, Steps DEF Show
    <3> QED
      BY <3>1, <3>2, Steps
  <2>4. \A a \in Answers : Sends(a)' => shown'[a] >= 1
    BY <2>1, <2>3, ChunkSays DEF Sends, IsFinal
  <2>5. \A a \in ended' : a \in ended \/ shown'[a] >= 1
    BY <2>1, <2>3 DEF NextChunk
  <2> QED
    BY <1>b, <2>1, <2>2, <2>4, <2>5
<1>8. CASE SendMedia
  BY <1>8, <1>a, <1>b DEF SendMedia, Sends, IsFinal
<1> QED
  BY <1>1, <1>2, <1>3, <1>4, <1>5, <1>6, <1>7, <1>8, <1>9, <1>10, NextSplit

LEMMA SkipKeeps ==
  ASSUME TypeOK, RangeInv, FreshInv, CountInv, EndedInv, SkipInv, [Next]_vars
  PROVE  SkipInv'
<1> USE DEF agent, channel, history, workers
<1>a. /\ IsFiniteSet(skipped) /\ IsFiniteSet(streamed)
      /\ Cardinality(skipped) \in Nat /\ Cardinality(streamed) \in Nat
  <2>1. IsFiniteSet(1 .. ans)
    BY Steps, FS_Interval
  <2>2. skipped \subseteq 1 .. ans /\ streamed \subseteq 1 .. ans
    BY DEF TypeOK
  <2> QED
    BY <2>1, <2>2, FS_Subset, FS_CardinalityType
<1>b. /\ One(marker # None) \in 0 .. 1 /\ One(marker # None)' \in 0 .. 1
      /\ One(apc = "finalized") \in 0 .. 1 /\ One(apc = "finalized")' \in 0 .. 1
  BY DEF One
<1>c. ASSUME UNCHANGED <<skipped, streamed>>, marker' = marker \/ marker' = None,
             apc' = "finalized" => apc = "finalized"
      PROVE  SkipInv'
  BY <1>a, <1>b, <1>c DEF SkipInv, One
<1>1. CASE Quiet
  BY <1>1, <1>c DEF Quiet
<1>2. CASE StartTurn \/ PostAside \/ StoreTombstone \/ FinalizeUnseen \/ Fail \/ Publish
  BY <1>2, <1>c DEF StartTurn, PostAside, StoreTombstone, FinalizeUnseen, Fail, Publish, Return
<1>3. CASE TakeMessage \/ DropStale \/ Pass \/ Show \/ SendMedia
  BY <1>3, <1>c DEF TakeMessage, DropStale, Pass, Show, SendMedia
<1>6. CASE StoreMarker
  <2>1. UNCHANGED <<skipped, streamed>> /\ apc = "finalized" /\ apc' = "marked"
    BY <1>6 DEF StoreMarker
  <2>2. One(apc = "finalized") = 1 /\ One(apc = "finalized")' = 0
    BY <2>1 DEF One
  <2> QED
    BY <1>a, <1>b, <2>1, <2>2 DEF SkipInv
<1>4. CASE FinalizeStream
  <2>1. /\ ans \notin streamed /\ streamed' = streamed \cup {ans} /\ skipped' = skipped
        /\ marker' = marker /\ apc = "answered"
    BY <1>4, FreshSays DEF FinalizeStream, Generating
  <2>2. Cardinality(streamed') = Cardinality(streamed) + 1
    BY <1>a, <2>1, FS_AddElement
  <2>3. One(apc = "finalized") = 0 /\ One(marker # None)' = One(marker # None)
    BY <2>1 DEF One
  <2> QED
    BY <1>a, <1>b, <2>1, <2>2, <2>3 DEF SkipInv
<1>5. CASE SkipFinal
  <2>1. /\ marker # None /\ marker' = None /\ streamed' = streamed /\ apc' = apc
        /\ skipped' = skipped \cup {cur.ans}
    BY <1>5 DEF SkipFinal, ConsumeMarker, FinalizedStreamActive
  <2>2. Cardinality(skipped') <= Cardinality(skipped) + 1 /\ Cardinality(skipped') \in Nat
    <3>1. Cardinality(skipped \cup {cur.ans})
            = IF cur.ans \in skipped THEN Cardinality(skipped) ELSE Cardinality(skipped) + 1
      BY <1>a, FS_AddElement
    <3> QED
      BY <1>a, <2>1, <3>1
  <2>3. One(marker # None) = 1 /\ One(marker # None)' = 0
    BY <2>1 DEF One
  <2>4. One(apc = "finalized")' = One(apc = "finalized")
    BY <2>1 DEF One
  <2> QED
    BY <1>a, <1>b, <2>1, <2>2, <2>3, <2>4 DEF SkipInv
<1> QED
  BY <1>1, <1>2, <1>3, <1>4, <1>5, <1>6, NextSplit

LEMMA FeedbackKeeps ==
  ASSUME TypeOK, RangeInv, FreshInv, CountInv, StreamInv, EndedInv, FeedbackInv, [Next]_vars
  PROVE  FeedbackInv'
<1> USE DEF agent, channel, history, workers
<1>a. /\ streamed \subseteq Answers /\ marker \in Nat /\ \A a \in Answers : a # None
      /\ queue \in Seq(Message) /\ DOMAIN queue = 1 .. Len(queue) /\ Len(queue) \in Nat
  BY Steps DEF TypeOK, Answers, None
\* What happens to the queue keeps the order of its messages.
<1> DEFINE Ordered == /\ \A a \in Answers : \A i, j \in DOMAIN queue :
                            i < j /\ IsFinal(queue[i], a) => ~FeedbackOf(queue[j], a)
                      /\ \A a \in Answers : Sends(a) => \A j \in DOMAIN queue : ~FeedbackOf(queue[j], a)
           Kept    == \A a \in Marked \ crossed : Feedback(a) => marker = a
<1>b. Ordered /\ Kept /\ late \subseteq crossed
  BY DEF FeedbackInv
<1>c. Ordered' /\ Kept' /\ late' \subseteq crossed' => FeedbackInv'
  BY DEF FeedbackInv
<1>j. ASSUME streamed' = streamed,
             (apc # "finalized" /\ apc' # "finalized") \/ UNCHANGED <<apc, ans>>
      PROVE  Marked' = Marked
  BY <1>j DEF Marked
<1>d. ASSUME UNCHANGED queue, \A a : Sends(a)' => Sends(a)
      PROVE  Ordered'
  BY <1>b, <1>d
<1>e. cur' = cur => /\ \A a : Sends(a)' = Sends(a)
                    /\ \A a : queue' = queue => Feedback(a)' = Feedback(a)
  BY DEF Sends, Feedback, IsFinal, FeedbackOf, Unchecked
<1>f. ASSUME UNCHANGED cur, NEW m \in Message, Posts(m),
             m.kind = "feedback" => Finals(queue, m.ans) = {} /\ ~Sends(m.ans)
      PROVE  Ordered'
  <2>1. /\ DOMAIN queue' = 1 .. Len(queue) + 1
        /\ \A i \in DOMAIN queue : queue'[i] = queue[i]
        /\ queue'[Len(queue) + 1] = m
        /\ \A i \in DOMAIN queue' : i \in DOMAIN queue \/ i = Len(queue) + 1
    BY <1>f, PostPlaces DEF Posts
  <2>2. ASSUME NEW a \in Answers, NEW i \in DOMAIN queue', NEW j \in DOMAIN queue',
               i < j, IsFinal(queue'[i], a)
        PROVE  ~FeedbackOf(queue'[j], a)
    <3>1. i \in DOMAIN queue /\ IsFinal(queue[i], a)
      BY <1>a, <2>1, <2>2
    <3>2. a # m.ans \/ m.kind # "feedback"
      BY <1>f, <3>1 DEF Finals
    <3> QED
      BY <1>b, <2>1, <2>2, <3>1, <3>2 DEF FeedbackOf
  <2>3. ASSUME NEW a \in Answers, Sends(a)', NEW j \in DOMAIN queue'
        PROVE  ~FeedbackOf(queue'[j], a)
    BY <1>b, <1>e, <1>f, <2>1, <2>3 DEF FeedbackOf
  <2> QED
    BY <2>2, <2>3
<1>g. ASSUME UNCHANGED cur, NEW m \in Message, Posts(m), NEW a, m.ans # a \/ m.kind # "feedback",
             Feedback(a)'
      PROVE  Feedback(a)
  <2>1. /\ \A i \in DOMAIN queue : queue'[i] = queue[i]
        /\ queue'[Len(queue) + 1] = m
        /\ \A i \in DOMAIN queue' : i \in DOMAIN queue \/ i = Len(queue) + 1
    BY <1>g, PostPlaces DEF Posts
  <2> QED
    BY <1>g, <2>1 DEF Feedback, FeedbackOf, Unchecked
<1>1. CASE Quiet
  BY <1>1, <1>b, <1>c, <1>d, <1>e, <1>j DEF Quiet
<1>2. CASE StartTurn
  BY <1>2, <1>b, <1>c, <1>d, <1>e, <1>j DEF StartTurn
<1>3. CASE PostAside
  <2>1. Finals(queue, ans) = {} /\ ~Sends(ans) /\ ans \notin streamed
    BY <1>3, FreshSays DEF PostAside, Generating
  <2>2. PICK m \in Message : Posts(m) /\ m.kind \in {"feedback", "plain"} /\ m.ans = ans
    BY <1>3, PostAsideSays
  <2>3. UNCHANGED <<cur, marker, streamed, crossed, late>> /\ Marked' = Marked
    BY <1>3, <1>j DEF PostAside
  <2>4. Ordered'
    BY <1>f, <2>1, <2>2, <2>3
  <2>5. Kept'
    BY <1>b, <1>g, <2>1, <2>2, <2>3 DEF Marked
  <2> QED
    BY <1>b, <1>c, <2>3, <2>4, <2>5
<1>4. CASE FinalizeStream
  <2>1. /\ UNCHANGED <<queue, cur, late, marker, crossed, ans>> /\ streamed' = streamed \cup {ans}
        /\ apc = "answered" /\ apc' = "finalized"
    BY <1>4 DEF FinalizeStream
  <2>2. ans \notin streamed
    BY <1>4, FreshSays DEF FinalizeStream, Generating
  <2>3. Marked' = Marked
    BY <2>1, <2>2 DEF Marked
  <2> QED
    BY <1>b, <1>c, <1>d, <1>e, <2>1, <2>3
<1>13. CASE StoreMarker
  <2>1. /\ UNCHANGED <<queue, cur, late, streamed, ans>> /\ marker' = ans
        /\ crossed' = IF marker = None THEN crossed ELSE crossed \cup {marker, ans}
    BY <1>13 DEF StoreMarker, Mark
  <2>2. \A a \in Marked' : a = ans \/ a \in Marked
    BY <1>13, <2>1 DEF StoreMarker, Marked
  <2>3. Kept'
    <3> SUFFICES ASSUME NEW a \in Marked' \ crossed', Feedback(a)', a # ans
                 PROVE  FALSE
        BY <2>1
    <3>1. Feedback(a) /\ a \in Marked \ crossed /\ marker # a
        BY <1>a, <1>e, <2>1, <2>2 DEF Marked
    <3> QED
        BY <1>b, <3>1
  <2> QED
    BY <1>b, <1>c, <1>d, <1>e, <2>1, <2>3
<1>14. CASE StoreTombstone
  BY <1>14, <1>b, <1>c, <1>d, <1>e, <1>j DEF StoreTombstone, Return
<1>h. ASSUME UNCHANGED <<cur, marker, streamed, crossed, late>>,
             apc # "finalized" /\ apc' # "finalized",
             UNCHANGED queue \/ \E m \in Message : Posts(m) /\ m.kind # "feedback"
      PROVE  FeedbackInv'
  <2>1. Ordered'
    BY <1>d, <1>e, <1>f, <1>h
  <2>2. Kept'
    BY <1>b, <1>e, <1>g, <1>h, <1>j
  <2> QED
    BY <1>b, <1>c, <1>h, <2>1, <2>2
<1>5. CASE FinalizeUnseen
  BY <1>5, <1>h, FinalizeUnseenSays DEF FinalizeUnseen, Return, IsFinal
<1>6. CASE Fail
  BY <1>6, <1>h, FailSays DEF Fail
<1>7. CASE Publish
  BY <1>7, <1>h, PublishSays DEF Publish
<1>8. CASE TakeMessage
  <2>1. /\ UNCHANGED <<marker, streamed, crossed, late, apc, ans>>
        /\ queue # <<>> /\ queue' = Tail(queue)
        /\ cur'.kind = Head(queue).kind /\ cur'.ans = Head(queue).ans
    BY <1>8 DEF TakeMessage
  <2>2. /\ DOMAIN queue' = 1 .. Len(queue) - 1
        /\ \A i \in DOMAIN queue' : i + 1 \in DOMAIN queue /\ queue'[i] = queue[i + 1]
        /\ 1 \in DOMAIN queue /\ Head(queue) = queue[1]
    BY <2>1, TakePlaces
  <2>3. ASSUME NEW a \in Answers, NEW i \in DOMAIN queue', NEW j \in DOMAIN queue',
               i < j, IsFinal(queue'[i], a)
        PROVE  ~FeedbackOf(queue'[j], a)
    <3>1. i + 1 < j + 1
      BY <2>2, <2>3, <1>a
    <3> QED
      BY <1>b, <2>2, <2>3, <3>1
  <2>4. ASSUME NEW a \in Answers, Sends(a)', NEW j \in DOMAIN queue'
        PROVE  ~FeedbackOf(queue'[j], a)
    <3>1. IsFinal(queue[1], a) /\ 1 < j + 1
      BY <1>a, <2>1, <2>2, <2>4 DEF Sends, IsFinal
    <3> QED
      BY <1>b, <2>2, <3>1
  <2>5. \A a : Feedback(a)' => Feedback(a)
    BY <2>1, <2>2 DEF Feedback, FeedbackOf
  <2> QED
    BY <1>b, <1>c, <1>j, <2>1, <2>3, <2>4, <2>5
<1>9. CASE DropStale
  <2>1. /\ UNCHANGED <<queue, marker, streamed, crossed, late, apc, ans>>
        /\ Unchecked /\ cur.left > 0 /\ NextChunk(FALSE)
    BY <1>9 DEF DropStale, Unchecked
  <2>2. \A a : (Sends(a)' => Sends(a)) /\ (Feedback(a)' => Feedback(a))
    BY <2>1, ChunkSays DEF Feedback, FeedbackOf, Unchecked
  <2> QED
    BY <1>b, <1>c, <1>d, <1>j, <2>1, <2>2
<1>10. CASE SkipFinal
  <2>1. /\ UNCHANGED <<queue, streamed, late, apc, ans>> /\ marker # None /\ Unchecked
        /\ crossed' = IF marker = cur.ans THEN crossed ELSE crossed \cup {marker, cur.ans}
        /\ cur.left > 0 /\ cur.kind = "final" /\ NextChunk(cur.begun)
        /\ cur.begun \in BOOLEAN /\ cur.ans \in Answers
    BY <1>10, Steps DEF SkipFinal, Unchecked, FinalizedStreamActive
  <2>2. \A a : (Sends(a)' => Sends(a)) /\ (Feedback(a)' => Feedback(a))
    BY <2>1, ChunkSays DEF Feedback, FeedbackOf, Unchecked
  <2>3. ~Feedback(cur.ans)
    BY <1>b, <2>1 DEF Sends, IsFinal, Feedback, FeedbackOf
  <2>4. Kept'
    BY <1>b, <1>j, <2>1, <2>2, <2>3
  <2> QED
    BY <1>b, <1>c, <1>d, <2>1, <2>2, <2>4
<1>15. CASE Pass
  <2>1. /\ UNCHANGED <<queue, marker, streamed, crossed, apc, ans>> /\ Unchecked
        /\ late' = IF cur.kind = "feedback" /\ cur.ans \in Marked
                   THEN late \cup {cur.ans} ELSE late
    BY <1>15 DEF Pass
  <2>2. \A a : (Sends(a)' => Sends(a)) /\ (Feedback(a)' => Feedback(a))
    BY <1>15, <2>1, PassSays DEF Feedback, FeedbackOf, Unchecked
  <2>3. cur.kind = "feedback" => marker = None /\ Feedback(cur.ans)
    BY <1>15, <2>1, PassSays DEF Feedback, FeedbackOf
  <2>4. cur.kind = "feedback" /\ cur.ans \in Marked => cur.ans \in crossed
    BY <1>a, <1>b, <2>3 DEF Marked
  <2> QED
    BY <1>b, <1>c, <1>d, <1>j, <2>1, <2>2, <2>4
<1>11. CASE Show
  <2>1. /\ UNCHANGED <<queue, marker, streamed, crossed, late, apc, ans>>
        /\ cur.left > 0 /\ NextChunk(TRUE)
    BY <1>11 DEF Show
  <2>2. \A a : Sends(a)' => Sends(a)
    BY <2>1, ChunkSays
  <2>3. ~(cur'.left > 0 /\ cur'.kind = "feedback")
    <3>1. cur'.left > 0 => cur.left > 1 /\ cur'.kind = cur.kind
      BY <2>1, ChunkSays
    <3>2. cur.left > 0 /\ cur.kind = "feedback" => cur.left = 1
      BY DEF RangeInv
    <3> QED
      BY <2>1, <3>1, <3>2
  <2>4. \A a : Feedback(a)' => Feedback(a)
    BY <2>1, <2>3 DEF Feedback, FeedbackOf, Unchecked
  <2> QED
    BY <1>b, <1>c, <1>d, <1>j, <2>1, <2>2, <2>4
<1>12. CASE SendMedia
  <2>1. /\ UNCHANGED <<queue, cur, streamed, late, apc, ans>> /\ marker' = None
        /\ crossed' = IF marker = None THEN crossed ELSE crossed \cup {marker}
    BY <1>12 DEF SendMedia
  <2>2. Kept'
    <3>1. \A a \in Marked : a # None
      BY <1>a DEF Marked
    <3> QED
      BY <1>b, <1>e, <1>j, <2>1, <3>1
  <2> QED
    BY <1>b, <1>c, <1>d, <1>e, <2>1, <2>2
<1> QED
  BY <1>1, <1>2, <1>3, <1>4, <1>5, <1>6, <1>7, <1>8, <1>9, <1>10, <1>11, <1>12, <1>13,
     <1>14, <1>15, NextSplit

LEMMA TypeKeeps ==
  ASSUME TypeOK, RangeInv, FreshInv, CountInv', StreamInv', [Next]_vars
  PROVE  TypeOK'
<1> USE DEF agent, channel, history, workers, Sending
<1> DEFINE Counted == received \in 0 .. MaxMessages /\ inbox \in 0 .. received
                      /\ ans \in 0 .. received - inbox /\ tools \in 0 .. MaxTools
                      /\ media \in 0 .. tools
           Flags   == cont \in BOOLEAN /\ toolSent \in BOOLEAN /\ tombstone \in BOOLEAN
           Places  == /\ apc \in {"idle", "calling", "answered", "finalized", "marked", "drain",
                                 "publish"}
                      /\ stream \in {"none", "hidden", "visible", "fallback"}
           Replies == /\ response \in 0 .. ans /\ continued \in 0 .. ans
           Sent    == /\ queue \in Seq(Message)
                      /\ cur \in Sending
           Traces  == /\ marker \in streamed \cup {None}
                      /\ \A s \in {streamed, skipped, ended, twice, late, below, crossed} :
                            s \subseteq 1 .. ans
<1>1. Counted'
  <2>1. CASE UNCHANGED <<received, inbox, ans, tools, media>>
    BY <2>1 DEF TypeOK
  <2>2. CASE Receive
    BY SMTT(20), <2>2, ReplyAssumption DEF TypeOK, Receive
  <2>6. CASE StartTurn
    <3>1. received' = received /\ inbox' = inbox - 1 /\ ans' = ans + 1 /\ inbox > 0
          /\ tools' = tools /\ media' = media
      BY <2>6 DEF StartTurn
    <3> QED
      BY <3>1, ReplyAssumption DEF TypeOK
  <2>3. CASE CallTool
    BY <2>3, ReplyAssumption DEF TypeOK, CallTool, Polled
  <2>4. CASE Steer
    BY <2>4, ReplyAssumption DEF TypeOK, Steer
  <2>5. CASE SendMedia
    BY <2>5, ReplyAssumption DEF TypeOK, SendMedia
  <2> QED
    BY <2>1, <2>2, <2>3, <2>4, <2>5, <2>6
       DEF Next, vars, Answer, FinalizeStream, StoreMarker, StoreTombstone, FinalizeUnseen, Fail,
           Publish, TakeMessage, DropStale, SkipFinal, Pass, Show, ExpireTombstone
<1>2. Flags' /\ Places'
  <2>1. CASE Receive \/ Steer \/ UNCHANGED vars
    BY <2>1 DEF TypeOK, Receive, Steer, vars
  <2>2. CASE StartTurn
    BY <2>2 DEF TypeOK, StartTurn
  <2>3. CASE CallTool
    BY <2>3 DEF TypeOK, CallTool
  <2>4. CASE Answer
    BY <2>4 DEF TypeOK, Answer, Streams
  <2>5. CASE FinalizeStream \/ StoreMarker \/ StoreTombstone \/ FinalizeUnseen
    BY <2>5 DEF TypeOK, FinalizeStream, StoreMarker, StoreTombstone, FinalizeUnseen, Return
  <2>6. CASE Fail \/ Publish
    BY <2>6 DEF TypeOK, Fail, Publish
  <2>7. CASE TakeMessage \/ DropStale \/ SkipFinal \/ SendMedia \/ ExpireTombstone
    BY <2>7 DEF TypeOK, TakeMessage, DropStale, SkipFinal, SendMedia, ExpireTombstone
  <2>8. CASE Pass \/ Show
    BY <2>8 DEF TypeOK, Pass, Show
  <2> QED
    BY <2>1, <2>2, <2>3, <2>4, <2>5, <2>6, <2>7, <2>8 DEF Next
<1>6. Replies'
  <2>1. Replies /\ ans \in 0 .. ans /\ 0 \in 0 .. ans /\ 0 .. ans \subseteq 0 .. ans + 1
    BY Steps DEF TypeOK
  <2>2. CASE StartTurn
    BY <2>1, <2>2 DEF StartTurn
  <2>3. CASE Fail
    BY <2>1, <2>3 DEF Fail, None
  <2>4. CASE Publish
    BY <2>1, <2>4 DEF Publish, None
  <2>5. CASE Return /\ ans' = ans
    BY <2>1, <2>5 DEF Return, None
  <2>6. CASE UNCHANGED <<ans, response, continued>>
    BY <2>1, <2>6
  <2> QED
    BY <2>2, <2>3, <2>4, <2>5, <2>6
       DEF Next, vars, Receive, CallTool, Steer, Answer, FinalizeStream, StoreMarker, StoreTombstone,
           FinalizeUnseen, TakeMessage, DropStale, SkipFinal, Pass, Show, SendMedia, ExpireTombstone
<1>3. Sent'
  <2>1. ASSUME UNCHANGED cur, UNCHANGED queue \/ \E m \in Message : Posts(m)
        PROVE  Sent'
    BY <2>1, PostPlaces DEF TypeOK, Posts
  <2>2. CASE \/ Quiet \/ StartTurn \/ FinalizeStream \/ StoreMarker \/ StoreTombstone
             \/ SendMedia
    BY <2>2, <2>1 DEF Quiet, StartTurn, FinalizeStream, StoreMarker, StoreTombstone, SendMedia
  <2>3. CASE PostAside
    BY <2>3, <2>1, PostAsideSays DEF PostAside
  <2>4. CASE FinalizeUnseen
    BY <2>4, <2>1, FinalizeUnseenSays DEF FinalizeUnseen
  <2>5. CASE Fail
    BY <2>5, <2>1, FailSays DEF Fail
  <2>6. CASE Publish
    BY <2>6, <2>1, PublishSays DEF Publish
  <2>7. CASE TakeMessage
    <3>1. queue' \in Seq(Message) /\ Head(queue) \in Message
      BY <2>7, TakePlaces DEF TakeMessage
    <3>2. Head(queue).kind \in Kinds /\ Head(queue).ans \in Answers
      BY <3>1 DEF Message
    <3> QED
      BY <2>7, <3>1, <3>2, ReplyAssumption DEF TakeMessage
  <2>8. CASE DropStale \/ SkipFinal \/ Show
    <3>1. queue' = queue /\ cur.left > 0 /\ \E b \in BOOLEAN : NextChunk(b)
      BY <2>8, Steps DEF DropStale, SkipFinal, Show, Unchecked
    <3> QED
      BY <3>1, ChunkSays DEF TypeOK
  <2>9. CASE Pass
    BY <2>9, PassSays DEF TypeOK, Pass
  <2> QED
    BY <2>2, <2>3, <2>4, <2>5, <2>6, <2>7, <2>8, <2>9, NextSplit
<1>4. Traces'
  <2>1. Traces /\ 1 .. ans \subseteq 1 .. ans'
    <3>1. ans' = ans \/ ans' = ans + 1
      BY DEF Next, vars, Receive, StartTurn, CallTool, Steer, Answer, FinalizeStream,
             StoreMarker, StoreTombstone, FinalizeUnseen, Fail, Publish, TakeMessage, DropStale,
             SkipFinal, Pass, Show, SendMedia, ExpireTombstone
    <3> QED
      BY SMTT(20), <3>1, Steps DEF TypeOK
  <2>2. CASE \/ Quiet \/ StartTurn \/ PostAside \/ StoreTombstone \/ Fail \/ Publish
             \/ TakeMessage
    BY <2>1, <2>2 DEF Quiet, StartTurn, PostAside, StoreTombstone, Fail, Publish, TakeMessage
  <2>3. CASE FinalizeStream
    <3>1. ans \in 1 .. ans' /\ ans' = ans
      BY <2>3, Steps DEF FinalizeStream, RangeInv
    <3> QED
      BY <2>1, <2>3, <3>1 DEF FinalizeStream
  <2>7. CASE StoreMarker
    <3>1. ans \in streamed /\ ans \in 1 .. ans /\ ans' = ans
      BY <2>7, Steps DEF StoreMarker, RangeInv, FreshInv
    <3>2. marker # None => marker \in 1 .. ans
      BY <2>1
    <3> QED
      BY <2>1, <2>7, <3>1, <3>2 DEF StoreMarker, Mark
  <2>4. CASE FinalizeUnseen
    <3>1. ans \in 1 .. ans' /\ ans' = ans
      BY <2>4, Steps DEF FinalizeUnseen, RangeInv
    <3> QED
      BY <2>1, <2>4, <3>1 DEF FinalizeUnseen
  <2>5. CASE DropStale \/ SkipFinal \/ Pass \/ Show
    <3>0. cur.kind = "final" /\ marker # None => marker \in streamed
      BY <2>1
    <3>1. cur.left > 0 /\ ans' = ans /\ ended' \subseteq ended \cup {cur.ans}
      BY <2>5 DEF DropStale, SkipFinal, Pass, Show, NextChunk, Unchecked
    <3>2. cur.ans \in 1 .. ans
      BY <3>1, Steps DEF RangeInv, Answers
    <3>3. marker' \in streamed' \cup {None} /\ streamed' = streamed /\ twice' = twice
      BY <2>1, <2>5 DEF DropStale, SkipFinal, Pass, Show, ConsumeMarker
    <3>4. /\ skipped' \subseteq skipped \cup {cur.ans} /\ late' \subseteq late \cup {cur.ans}
          /\ below' \subseteq below \cup {cur.ans}
      BY <2>5 DEF DropStale, SkipFinal, Pass, Show
    <3>5. crossed' \subseteq crossed \cup {cur.ans} \cup streamed
      BY <2>5, <3>0 DEF DropStale, SkipFinal, Pass, Show, FinalizedStreamActive
    <3> QED
      BY <2>1, <3>1, <3>2, <3>3, <3>4, <3>5
  <2>6. CASE SendMedia
    BY <2>1, <2>6 DEF SendMedia
  <2> QED
    BY <2>2, <2>3, <2>4, <2>5, <2>6, <2>7, NextSplit
<1>5. shown' \in [Answers -> 0 .. 2]
  <2>1. shown' \in [Answers -> Nat]
    <3>1. CASE FinalizeStream
      BY SMTT(20), <3>1, Steps DEF FinalizeStream, RangeInv, Answers
    <3>2. CASE Show
      BY SMTT(20), <3>2, Steps DEF Show
    <3>3. CASE UNCHANGED shown
      BY <3>3, Steps
    <3> QED
      BY <3>1, <3>2, <3>3
         DEF Next, vars, Receive, StartTurn, CallTool, Steer, Answer, StoreMarker,
             StoreTombstone, FinalizeUnseen, Fail, Publish, TakeMessage, DropStale, SkipFinal,
             Pass, SendMedia, ExpireTombstone
  <2>2. ASSUME NEW a \in Answers
        PROVE  shown'[a] \in 0 .. 2
    <3>1. /\ Cardinality(Finals(queue, a))' \in Nat /\ One(Sends(a) /\ ~cur.begun)' \in Nat
          /\ One(Owed(a))' \in Nat
      BY <1>3, FinalsAreFinite DEF One
    <3>2. One(a \in twice)' + One(a \in streamed)' <= 1
      BY DEF One, StreamInv
    <3>3. One(a \in twice)' \in Nat /\ One(a \in streamed)' \in Nat /\ shown'[a] \in Nat
      BY <2>1 DEF One
    <3>4. shown'[a] + Cardinality(Finals(queue, a))' + One(Sends(a) /\ ~cur.begun)'
            + One(Owed(a))' <= 1 + One(a \in twice)' + One(a \in streamed)'
      BY DEF CountInv
    <3> DEFINE n == Cardinality(Finals(queue, a))'
               k == One(Sends(a) /\ ~cur.begun)'
               o == One(Owed(a))'
               t == One(a \in twice)'
               u == One(a \in streamed)'
    <3> HIDE DEF n, k, o, t, u
    <3>5. /\ n \in Nat /\ k \in Nat /\ o \in Nat /\ t \in Nat /\ u \in Nat /\ t + u <= 1
          /\ shown'[a] + n + k + o <= 1 + t + u
      BY <3>1, <3>2, <3>3, <3>4 DEF n, k, o, t, u
    <3> QED
      BY <3>3, <3>5
  <2> QED
    BY <2>1, <2>2
<1> QED
  BY <1>1, <1>2, <1>3, <1>4, <1>5, <1>6 DEF TypeOK

-----------------------------------------------------------------------------
(* The theorems.                                                           *)

THEOREM InitInv == Init => Inv
<1> SUFFICES ASSUME Init PROVE Inv
  OBVIOUS
<1> USE DEF Init, history
<1>1. TypeOK
  <2>1. 1 \in Answers /\ 0 \in 0 .. MaxMessages /\ 0 \in 0 .. MaxTools /\ 0 \in 0 .. Chunks
    BY ReplyAssumption DEF Answers
  <2>2. cur \in Sending
    BY <2>1 DEF Idle, Kinds, Sending
  <2>3. queue \in Seq(Message)
    OBVIOUS
  <2>4. shown \in [Answers -> 0 .. 2]
    OBVIOUS
  <2>5. /\ received \in 0 .. MaxMessages /\ inbox \in 0 .. received /\ ans \in 0 .. received - inbox
        /\ response \in 0 .. ans /\ continued \in 0 .. ans /\ tools \in 0 .. MaxTools
        /\ media \in 0 .. tools
    BY <2>1 DEF None
  <2>6. cont \in BOOLEAN /\ toolSent \in BOOLEAN /\ tombstone \in BOOLEAN
    OBVIOUS
  <2>7. \A s \in {streamed, skipped, ended, twice, late, below, crossed} : s \subseteq 1 .. ans
    OBVIOUS
  <2> QED
    BY <2>2, <2>3, <2>4, <2>5, <2>6, <2>7 DEF TypeOK, Sending
<1>5. RangeInv /\ FreshInv
  BY DEF RangeInv, FreshInv, Idle, Generating
<1>2. CountInv
  <2>1. ASSUME NEW a \in Answers
        PROVE  /\ shown[a] = 0 /\ Finals(queue, a) = {} /\ ~Sends(a) /\ ~Owed(a)
               /\ a \notin twice /\ a \notin streamed
    BY DEF Finals, Sends, Owed, Unreturned, Idle, IsFinal, None, Answers
  <2>2. Cardinality({}) = 0
    BY FS_EmptySet
  <2>3. ASSUME NEW a \in Answers
        PROVE  /\ shown[a] = 0 /\ Cardinality(Finals(queue, a)) = 0
               /\ One(Sends(a) /\ ~cur.begun) = 0 /\ One(Owed(a)) = 0
               /\ One(a \in twice) = 0 /\ One(a \in streamed) = 0
    BY <2>1, <2>2 DEF One
  <2> QED
    BY <2>3 DEF CountInv
<1>3. StreamInv /\ EndedInv /\ FeedbackInv
  BY DEF StreamInv, EndedInv, FeedbackInv, Sends, Idle, IsFinal, Marked
<1>4. SkipInv
  BY FS_EmptySet DEF SkipInv, One, None
<1> QED
  BY <1>1, <1>2, <1>3, <1>4, <1>5 DEF Inv

THEOREM NextInv == Inv /\ [Next]_vars => Inv'
<1> SUFFICES ASSUME Inv, [Next]_vars PROVE Inv'
  OBVIOUS
<1>1. RangeInv' /\ FreshInv' /\ CountInv' /\ StreamInv' /\ EndedInv' /\ SkipInv' /\ FeedbackInv'
  BY RangeKeeps, FreshKeeps, CountKeeps, StreamKeeps, EndedKeeps, SkipKeeps, FeedbackKeeps DEF Inv
<1>2. TypeOK'
  BY <1>1, TypeKeeps DEF Inv
<1> QED
  BY <1>1, <1>2 DEF Inv

THEOREM InvHolds == Spec => []Inv
BY InitInv, NextInv, PTL DEF Spec

\* The variables keep their types: no more than what the session's worker has begun is
\* queued, sent, marked or shown (manager.go:412), and nothing is shown a third time.
THEOREM TypeCorrect == Spec => []TypeOK
<1>1. Inv => TypeOK
  BY DEF Inv
<1> QED
  BY <1>1, InvHolds, PTL

\* Whatever the order in which streams end, tools speak, media goes out and the channel's
\* worker takes its messages, an answer is shown once, unless its messages met the marker of
\* another one (manager.go:412) or media took its marker away; no more finals are skipped than
\* were streamed; and once onFinalize has stored the marker (manager.go:661) no feedback gets
\* past preSend.  Feedback that passed before, while the channel finalized its stream, may be
\* shown below the answer: the theorem does not deny it.
THEOREM EachShownOnce == Spec => []ShownOnce
<1>1. Inv => UncrossedShownOnce
  <2> SUFFICES ASSUME Inv, NEW a \in Answers \ crossed
               PROVE  /\ shown[a] <= IF a \in twice THEN 2 ELSE 1
                      /\ a \in ended => shown[a] >= 1
    BY DEF UncrossedShownOnce
  <2>1. a \in ended => shown[a] >= 1
    BY DEF Inv, EndedInv
  <2>2. shown[a] \in Nat
    BY Steps DEF Inv
  <2>3. CASE a \in streamed
    BY <2>2, <2>3 DEF Inv, StreamInv
  <2>4. CASE a \notin streamed
    <3>1. /\ Cardinality(Finals(queue, a)) \in Nat /\ One(Sends(a) /\ ~cur.begun) \in Nat
          /\ One(Owed(a)) \in Nat
      BY Steps, FinalsAreFinite DEF Inv, One
    <3>2. shown[a] + Cardinality(Finals(queue, a)) + One(Sends(a) /\ ~cur.begun)
            + One(Owed(a)) <= 1 + One(a \in twice) + One(a \in streamed)
      BY DEF Inv, CountInv
    <3>3. One(a \in streamed) = 0 /\ One(a \in twice) = IF a \in twice THEN 1 ELSE 0
      BY <2>4 DEF One
    <3> QED
      BY <2>1, <2>2, <3>1, <3>2, <3>3
  <2> QED
    BY <2>1, <2>3, <2>4
<1>2. Inv => SkipsAreBounded
  <2>1. ASSUME TypeOK
        PROVE  Cardinality(skipped) \in Nat /\ Cardinality(streamed) \in Nat
    <3>1. IsFiniteSet(1 .. ans)
      BY <2>1, Steps, FS_Interval
    <3>2. skipped \subseteq 1 .. ans /\ streamed \subseteq 1 .. ans
      BY <2>1 DEF TypeOK
    <3> QED
      BY <3>1, <3>2, FS_Subset, FS_CardinalityType
  <2> QED
    BY <2>1 DEF Inv, SkipInv, SkipsAreBounded, One
<1>3. Inv => NoLateFeedback
  BY DEF Inv, FeedbackInv, NoLateFeedback
<1>4. Inv => ShownOnce
  BY <1>1, <1>2, <1>3 DEF ShownOnce
<1> QED
  BY <1>4, InvHolds, PTL
=============================================================================
