----------------------------- MODULE MessageBus -----------------------------
(***************************************************************************)
(* The in-process message bus (pkg/bus/bus.go): one buffered Go channel    *)
(* per stream, publishers that register with a WaitGroup before they send, *)
(* and a Close that must stop the publishers, close the channels and drain *)
(* what is left, while publishers and consumers are still running.         *)
(*                                                                         *)
(* A channel is represented by the number of messages it buffers: nothing  *)
(* the bus does depends on a message's content.  Streams are numbered in   *)
(* the order in which Close closes and drains them.                        *)
(***************************************************************************)
EXTENDS Naturals, FiniteSets

CONSTANTS
    Publishers,     \* goroutines that call PublishInbound, PublishOutbound, ...
    Closers,        \* goroutines that call Close
    NumStreams,     \* number of channels of the bus
    Lossy,          \* streams with a backpressure drop budget (audio chunks)
    Addressed,      \* streams whose messages must carry a context
    Cap,            \* buffer size of each channel
    MaxCalls,       \* bound: publish calls of one publisher
    None            \* no goroutine

Streams == 1 .. NumStreams

ASSUME StreamsAssumption ==
    /\ NumStreams \in Nat \ {0}
    /\ Lossy \subseteq Streams
    /\ Addressed \subseteq Streams
    /\ Cap \in [Streams -> Nat \ {0}]
    /\ MaxCalls \in Nat

ASSUME GoroutinesAssumption ==
    /\ IsFiniteSet(Publishers)
    /\ Publishers \cap Closers = {}
    /\ None \notin Publishers \cup Closers

VARIABLES
    publishMu,      \* holder of the mutex that orders enterPublish and Close
    closed,         \* mb.closed, and mb.done is closed: set in one critical section
    wg,             \* counter of the WaitGroup
    buf,            \* number of messages buffered in each channel
    nClosed,        \* channels 1..nClosed have been closed
    nDrained,       \* channels 1..nDrained have been drained to the end
    once,           \* state of closeOnce
    pc,             \* control of each publisher
    stream,         \* stream of the publisher's current call, 0 between calls
    result,         \* what the select of the current call decided to return
    calls,          \* number of calls each publisher has made
    ctxDone,        \* publishers whose context is canceled
    cpc,            \* control of each closer
    panicked,       \* a send hit a closed channel, which ends the process
    accepted,       \* per stream: publish calls that returned nil
    received,       \* per stream: messages the consumers took
    drained         \* per stream: messages Close discarded

pubVars   == <<pc, stream, result, calls>>
closeVars == <<cpc, once, nClosed, nDrained>>
tally     == <<accepted, received, drained>>
vars      == <<publishMu, closed, wg, buf, nClosed, nDrained, once, pc, stream,
               result, calls, ctxDone, cpc, panicked, accepted, received, drained>>

Results == {"none", "nil", "closed", "canceled", "backpressure"}

PubStates   == {"idle", "enter", "check", "add", "select", "return"}
CloseStates == {"idle", "lock", "mark", "wait", "close", "drain", "blocked", "returned"}

Init ==
    /\ publishMu = None
    /\ closed = FALSE
    /\ wg = 0
    /\ buf = [s \in Streams |-> 0]
    /\ nClosed = 0
    /\ nDrained = 0
    /\ once = "new"
    /\ pc = [p \in Publishers |-> "idle"]
    /\ stream = [p \in Publishers |-> 0]
    /\ result = [p \in Publishers |-> "none"]
    /\ calls = [p \in Publishers |-> 0]
    /\ ctxDone = {}
    /\ cpc = [c \in Closers |-> "idle"]
    /\ panicked = FALSE
    /\ accepted = [s \in Streams |-> 0]
    /\ received = [s \in Streams |-> 0]
    /\ drained = [s \in Streams |-> 0]

-----------------------------------------------------------------------------
(* What the goroutines test.  Each "Mutant" states a test or an update as  *)
(* a plausible bug would leave it; no specification here uses them.        *)

\* publishMu can be locked; the mutant forgets the mutex.
MutexFreeMutant == TRUE
MutexFree == publishMu = None

\* The channel has room; the mutant is off by one.
HasRoomMutant(s) == buf[s] <= Cap[s]
HasRoom(s) == buf[s] < Cap[s]

\* The select has the case <-mb.done; the mutant lacks it.
DoneReadyMutant == FALSE
DoneReady == closed

\* The WaitGroup counter after a call; the mutant's drop path forgets wg.Done.
WgAfterMutant(p) == IF result[p] = "backpressure" THEN wg ELSE wg - 1
WgAfter(p) == wg - 1

\* wg.Wait() can return; the mutant does not wait.
PublishersGoneMutant == TRUE
PublishersGone == wg = 0

\* A Close that came second can return; the mutant tests a flag and not a Once.
ClosedByOtherMutant == once # "new"
ClosedByOther == once = "done"

IsClosed(s) == s <= nClosed

-----------------------------------------------------------------------------
(* Publishing                                                              *)

\* PublishInbound, PublishOutbound, ...: a message that should carry a context
\* and does not is refused before the bus is touched.
PublishCall(p, s) ==
    /\ pc[p] = "idle"
    /\ calls[p] < MaxCalls
    /\ calls' = [calls EXCEPT ![p] = @ + 1]
    /\ \/ /\ pc' = [pc EXCEPT ![p] = "enter"]
          /\ stream' = [stream EXCEPT ![p] = s]
       \/ /\ s \in Addressed
          /\ UNCHANGED <<pc, stream>>
    /\ UNCHANGED <<publishMu, closed, wg, buf, result, ctxDone, panicked, closeVars, tally>>

\* enterPublish: publishMu.Lock().
EnterLock(p) ==
    /\ pc[p] = "enter"
    /\ MutexFree
    /\ publishMu' = p
    /\ pc' = [pc EXCEPT ![p] = "check"]
    /\ UNCHANGED <<closed, wg, buf, stream, result, calls, ctxDone, panicked,
                   closeVars, tally>>

\* enterPublish: closed and ctx are looked at under the mutex.
EnterCheck(p) ==
    /\ pc[p] = "check"
    /\ IF closed \/ p \in ctxDone
       THEN /\ pc' = [pc EXCEPT ![p] = "idle"]
            /\ stream' = [stream EXCEPT ![p] = 0]
            /\ publishMu' = None
       ELSE /\ pc' = [pc EXCEPT ![p] = "add"]
            /\ UNCHANGED <<publishMu, stream>>
    /\ UNCHANGED <<closed, wg, buf, result, calls, ctxDone, panicked,
                   closeVars, tally>>

\* enterPublish: wg.Add(1), then the deferred publishMu.Unlock().
EnterAdd(p) ==
    /\ pc[p] = "add"
    /\ wg' = wg + 1
    /\ publishMu' = None
    /\ pc' = [pc EXCEPT ![p] = "select"]
    /\ UNCHANGED <<closed, buf, stream, result, calls, ctxDone, panicked,
                   closeVars, tally>>

Leave(p, r) ==
    /\ pc' = [pc EXCEPT ![p] = "return"]
    /\ result' = [result EXCEPT ![p] = r]
    /\ UNCHANGED <<publishMu, closed, wg, stream, calls, ctxDone, closeVars, tally>>

\* publish: the cases of its select; Go picks any that is ready.
\* A send on a closed channel is always ready, and panics.
SelectSend(p) ==
    /\ pc[p] = "select"
    /\ IsClosed(stream[p]) \/ HasRoom(stream[p])
    /\ panicked' = IsClosed(stream[p])
    /\ buf' = IF IsClosed(stream[p]) THEN buf ELSE [buf EXCEPT ![stream[p]] = @ + 1]
    /\ Leave(p, "nil")

SelectCanceled(p) ==
    /\ pc[p] = "select"
    /\ p \in ctxDone
    /\ Leave(p, "canceled")
    /\ UNCHANGED <<buf, panicked>>

SelectClosed(p) ==
    /\ pc[p] = "select"
    /\ DoneReady
    /\ Leave(p, "closed")
    /\ UNCHANGED <<buf, panicked>>

\* Only a lossy stream has a timer; it may fire although the channel has room.
SelectTimeout(p) ==
    /\ pc[p] = "select"
    /\ stream[p] \in Lossy
    /\ Leave(p, "backpressure")
    /\ UNCHANGED <<buf, panicked>>

\* publish returns: the deferred wg.Done().
PublishReturn(p) ==
    /\ pc[p] = "return"
    /\ wg' = WgAfter(p)
    /\ pc' = [pc EXCEPT ![p] = "idle"]
    /\ stream' = [stream EXCEPT ![p] = 0]
    /\ result' = [result EXCEPT ![p] = "none"]
    /\ accepted' = IF result[p] = "nil"
                   THEN [accepted EXCEPT ![stream[p]] = @ + 1]
                   ELSE accepted
    /\ UNCHANGED <<publishMu, closed, buf, calls, ctxDone, panicked, closeVars,
                   received, drained>>

\* The context of publisher p is canceled by its owner.
Cancel(p) ==
    /\ p \notin ctxDone
    /\ ctxDone' = ctxDone \cup {p}
    /\ UNCHANGED <<publishMu, closed, wg, buf, pubVars, panicked, closeVars, tally>>

-----------------------------------------------------------------------------
(* Consuming: a reader of InboundChan(), OutboundChan(), ... takes one.    *)

Receive(s) ==
    /\ buf[s] > 0
    /\ buf' = [buf EXCEPT ![s] = @ - 1]
    /\ received' = [received EXCEPT ![s] = @ + 1]
    /\ UNCHANGED <<publishMu, closed, wg, pubVars, ctxDone, panicked, closeVars,
                   accepted, drained>>

-----------------------------------------------------------------------------
(* Closing                                                                 *)

\* closeOnce.Do: the first caller runs the body, the others wait for its end.
CloseCall(c) ==
    /\ cpc[c] = "idle"
    /\ once' = IF once = "new" THEN "running" ELSE once
    /\ cpc' = [cpc EXCEPT ![c] = IF once = "new" THEN "lock" ELSE "blocked"]
    /\ UNCHANGED <<publishMu, closed, wg, buf, pubVars, ctxDone, panicked,
                   nClosed, nDrained, tally>>

CloseLock(c) ==
    /\ cpc[c] = "lock"
    /\ MutexFree
    /\ publishMu' = c
    /\ cpc' = [cpc EXCEPT ![c] = "mark"]
    /\ UNCHANGED <<closed, wg, buf, pubVars, ctxDone, panicked, once, nClosed,
                   nDrained, tally>>

\* closed.Store(true); close(done); publishMu.Unlock()
CloseMark(c) ==
    /\ cpc[c] = "mark"
    /\ closed' = TRUE
    /\ publishMu' = None
    /\ cpc' = [cpc EXCEPT ![c] = "wait"]
    /\ UNCHANGED <<wg, buf, pubVars, ctxDone, panicked, once, nClosed, nDrained, tally>>

\* wg.Wait()
CloseWait(c) ==
    /\ cpc[c] = "wait"
    /\ PublishersGone
    /\ cpc' = [cpc EXCEPT ![c] = "close"]
    /\ UNCHANGED <<publishMu, closed, wg, buf, pubVars, ctxDone, panicked, once,
                   nClosed, nDrained, tally>>

\* close(mb.inbound), ... one channel after the other.
CloseChannel(c) ==
    /\ cpc[c] = "close"
    /\ nClosed < NumStreams
    /\ nClosed' = nClosed + 1
    /\ cpc' = [cpc EXCEPT ![c] = IF nClosed + 1 = NumStreams THEN "drain" ELSE "close"]
    /\ UNCHANGED <<publishMu, closed, wg, buf, pubVars, ctxDone, panicked, once,
                   nDrained, tally>>

\* for range mb.inbound { drained++ }: the loop competes with the consumers.
DrainOne(c) ==
    LET s == nDrained + 1 IN
    /\ cpc[c] = "drain"
    /\ nDrained < NumStreams
    /\ buf[s] > 0
    /\ buf' = [buf EXCEPT ![s] = @ - 1]
    /\ drained' = [drained EXCEPT ![s] = @ + 1]
    /\ UNCHANGED <<publishMu, closed, wg, pubVars, ctxDone, panicked, closeVars,
                   accepted, received>>

\* The range loop over a closed channel ends when the buffer is empty.
DrainNext(c) ==
    /\ cpc[c] = "drain"
    /\ nDrained < NumStreams
    /\ buf[nDrained + 1] = 0
    /\ nDrained' = nDrained + 1
    /\ UNCHANGED <<publishMu, closed, wg, buf, pubVars, ctxDone, panicked, once, cpc,
                   nClosed, tally>>

CloseReturn(c) ==
    /\ \/ cpc[c] = "drain" /\ nDrained = NumStreams
       \/ cpc[c] = "blocked" /\ ClosedByOther
    /\ once' = "done"
    /\ cpc' = [cpc EXCEPT ![c] = "returned"]
    /\ UNCHANGED <<publishMu, closed, wg, buf, pubVars, ctxDone, panicked,
                   nClosed, nDrained, tally>>

-----------------------------------------------------------------------------
\* A step of publish after the call was made; none of them waits on a consumer
\* once the bus is closed.
PublishStep(p) ==
    \/ EnterLock(p) \/ EnterCheck(p) \/ EnterAdd(p)
    \/ SelectSend(p) \/ SelectCanceled(p) \/ SelectClosed(p) \/ SelectTimeout(p)
    \/ PublishReturn(p)

CloseStep(c) ==
    \/ CloseLock(c) \/ CloseMark(c) \/ CloseWait(c) \/ CloseChannel(c)
    \/ DrainOne(c) \/ DrainNext(c) \/ CloseReturn(c)

Next ==
    \/ \E p \in Publishers, s \in Streams : PublishCall(p, s)
    \/ \E p \in Publishers : PublishStep(p) \/ Cancel(p)
    \/ \E s \in Streams : Receive(s)
    \/ \E c \in Closers : CloseCall(c) \/ CloseStep(c)

\* The goroutines inside the bus run: nothing is assumed of the consumers, of
\* the callers or of contexts.  The mutex is taken in turn by whoever waits
\* (sync.Mutex starves no waiter), hence strong fairness on taking it.
Fairness ==
    /\ \A p \in Publishers : WF_vars(PublishStep(p)) /\ SF_vars(EnterLock(p))
    /\ \A c \in Closers : WF_vars(CloseStep(c)) /\ SF_vars(CloseLock(c))

Spec == Init /\ [][Next]_vars /\ Fairness

-----------------------------------------------------------------------------
(* Properties                                                              *)

InFlight == {p \in Publishers : pc[p] \in {"select", "return"}}

\* Sends that are in a channel, or beyond it, and whose publish call has not
\* returned yet.
Unreturned(s) == {p \in Publishers : /\ pc[p] = "return"
                                     /\ result[p] = "nil"
                                     /\ stream[p] = s}

\* The variables have their types; in particular the WaitGroup counter is never
\* negative (sync panics on that) and no channel exceeds its buffer.
TypeOK ==
    /\ publishMu \in Publishers \cup Closers \cup {None}
    /\ closed \in BOOLEAN
    /\ wg \in Nat
    /\ buf \in [Streams -> Nat]
    /\ \A s \in Streams : buf[s] <= Cap[s]
    /\ nClosed \in 0 .. NumStreams
    /\ nDrained \in 0 .. NumStreams
    /\ once \in {"new", "running", "done"}
    /\ pc \in [Publishers -> PubStates]
    /\ stream \in [Publishers -> 0 .. NumStreams]
    /\ \A p \in Publishers : pc[p] # "idle" => stream[p] \in Streams
    /\ result \in [Publishers -> Results]
    /\ calls \in [Publishers -> 0 .. MaxCalls]
    /\ ctxDone \subseteq Publishers
    /\ cpc \in [Closers -> CloseStates]
    /\ panicked \in BOOLEAN
    /\ accepted \in [Streams -> Nat]
    /\ received \in [Streams -> Nat]
    /\ drained \in [Streams -> Nat]

\* No publisher ever reaches a closed channel: Close closes the channels only
\* after every call that passed enterPublish has left its select.
NoSendOnClosed ==
    /\ ~panicked
    /\ \A p \in Publishers : pc[p] = "select" => ~IsClosed(stream[p])

\* Whoever returns from Close, the goroutine that ran its body or one that came
\* second, finds all channels closed, and every message whose publish call
\* returned nil either received by a consumer or counted by the drain loops.
CloseAccountsForAll ==
    (\E c \in Closers : cpc[c] = "returned") =>
        \A s \in Streams : /\ IsClosed(s)
                           /\ buf[s] = 0
                           /\ accepted[s] = received[s] + drained[s]

\* Once the bus is marked closed no publish call enters any more: the counter
\* wg.Wait() waits for only falls (an Add during Wait is a WaitGroup misuse).
NoLateEntry == [][closed => wg' <= wg]_vars

\* A bus whose Close has returned to anybody is at rest: no publish call succeeds any
\* more, also none that was already under way, and no consumer gets a message.
AtRestOnceClosed ==
    [][(\E c \in Closers : cpc[c] = "returned") => UNCHANGED <<buf, nClosed, tally>>]_vars

\* Close returns although no consumer reads any more and publishers are blocked
\* on full channels.
CloseReturns == \A c \in Closers : cpc[c] # "idle" ~> cpc[c] = "returned"

\* After Close has marked the bus closed every publish call returns, also one
\* that was blocked on a full channel.
PublishersReturn == \A p \in Publishers : closed /\ pc[p] # "idle" ~> pc[p] = "idle"
=============================================================================
