-------------------------- MODULE MessageBusProofs --------------------------
(***************************************************************************)
(* Proofs about MessageBus, for any number of publishers, closers, streams *)
(* and calls.  The inductive invariant adds to the types: who holds the    *)
(* mutex, how far the one goroutine that runs the body of Close has come,  *)
(* that nobody is in a send once the channels begin to be closed, and the  *)
(* two counts (the WaitGroup counter, and the messages of each stream).    *)
(***************************************************************************)
EXTENDS MessageBus, FiniteSetTheorems, TLAPS

\* The mutex is held exactly between Lock and Unlock, and nobody who found the
\* bus open under it can see it closed before the wg.Add.
MutexInv ==
    /\ \A p \in Publishers : pc[p] \in {"check", "add"} <=> publishMu = p
    /\ \A c \in Closers : cpc[c] = "mark" <=> publishMu = c
    /\ \A p \in Publishers : pc[p] = "add" => ~closed

InBody(c) == cpc[c] \in {"lock", "mark", "wait", "close", "drain"}

\* closeOnce lets one goroutine into the body, and the body advances in order.
CloseInv ==
    /\ \A c, d \in Closers : InBody(c) /\ InBody(d) => c = d
    /\ \A c \in Closers : InBody(c) => once = "running"
    /\ \A c \in Closers : cpc[c] = "returned" => once = "done"
    /\ \A c \in Closers : cpc[c] \in {"wait", "close", "drain"} => closed
    /\ \A c \in Closers : cpc[c] \in {"lock", "mark", "wait"} => nClosed = 0
    /\ \A c \in Closers : cpc[c] \in {"lock", "mark", "wait", "close"} => nDrained = 0
    /\ \A c \in Closers : cpc[c] = "close" => nClosed < NumStreams
    /\ \A c \in Closers : cpc[c] = "drain" => nClosed = NumStreams
    /\ once = "new" => nClosed = 0 /\ nDrained = 0
    /\ once = "done" => nClosed = NumStreams /\ nDrained = NumStreams
    /\ nDrained > 0 => nClosed = NumStreams
    /\ \A s \in Streams : s <= nDrained => buf[s] = 0

\* From the moment wg.Wait() returns no publish call is past enterPublish.
QuietInv ==
    /\ ~panicked
    /\ nClosed > 0 => closed /\ InFlight = {}
    /\ \A c \in Closers : cpc[c] \in {"close", "drain"} => InFlight = {}

CountInv ==
    /\ wg = Cardinality(InFlight)
    /\ \A s \in Streams :
          accepted[s] + Cardinality(Unreturned(s)) = received[s] + buf[s] + drained[s]

Inv == TypeOK /\ MutexInv /\ CloseInv /\ QuietInv /\ CountInv

-----------------------------------------------------------------------------
LEMMA StreamNumbers ==
    /\ NumStreams \in Nat /\ NumStreams > 0
    /\ \A s \in Streams : s \in 0 .. NumStreams /\ s \in Nat /\ s > 0 /\ Cap[s] \in Nat /\ Cap[s] > 0
BY StreamsAssumption DEF Streams

\* The sets that are counted are finite.
LEMMA Counted ==
    /\ IsFiniteSet(InFlight) /\ Cardinality(InFlight) \in Nat
    /\ \A s \in Streams : /\ IsFiniteSet(Unreturned(s))
                          /\ Cardinality(Unreturned(s)) \in Nat
BY GoroutinesAssumption, FS_Subset, FS_CardinalityType DEF InFlight, Unreturned

\* The invariant holds initially.
LEMMA InitInv == Init => Inv
<1> SUFFICES ASSUME Init PROVE Inv
    OBVIOUS
<1>1. TypeOK
  <2>1. 0 \in 0 .. NumStreams /\ 0 \in 0 .. MaxCalls
    BY StreamsAssumption
  <2>2. \A s \in Streams : buf[s] \in Nat /\ buf[s] <= Cap[s]
    BY StreamNumbers DEF Init
  <2> QED BY <2>1, <2>2 DEF Init, TypeOK, PubStates, CloseStates, Results
<1>2. MutexInv /\ CloseInv
    BY GoroutinesAssumption, StreamsAssumption DEF Init, MutexInv, CloseInv, InBody, Streams
<1>3. InFlight = {} /\ \A s \in Streams : Unreturned(s) = {}
    BY DEF Init, InFlight, Unreturned
<1>4. QuietInv
    BY <1>3 DEF Init, QuietInv
<1>5. CountInv
    BY <1>3, FS_EmptySet DEF Init, CountInv
<1> QED BY <1>1, <1>2, <1>4, <1>5 DEF Inv

-----------------------------------------------------------------------------
\* Steps of publishers that change neither set that is counted.
LEMMA CallStep ==
    ASSUME Inv, NEW p \in Publishers, NEW s \in Streams, PublishCall(p, s)
    PROVE  Inv'
<1> USE DEF PublishCall, closeVars, tally
<1>1. TypeOK'
    BY StreamNumbers, StreamsAssumption DEF Inv, TypeOK, PubStates
<1>2. MutexInv' /\ CloseInv'
    BY DEF Inv, TypeOK, MutexInv, CloseInv, InBody
<1>3. InFlight' = InFlight
    BY DEF Inv, TypeOK, InFlight
<1>4. \A t \in Streams : Unreturned(t)' = Unreturned(t)
    BY DEF Inv, TypeOK, Unreturned
<1>5. QuietInv' /\ CountInv'
    BY <1>3, <1>4 DEF Inv, QuietInv, CountInv
<1> QED BY <1>1, <1>2, <1>5 DEF Inv

LEMMA EnterLockStep ==
    ASSUME Inv, NEW p \in Publishers, EnterLock(p)
    PROVE  Inv'
<1> USE DEF EnterLock, MutexFree, closeVars, tally
<1>1. TypeOK'
    BY DEF Inv, TypeOK, PubStates
<1>2. MutexInv' /\ CloseInv'
    BY GoroutinesAssumption DEF Inv, TypeOK, MutexInv, CloseInv, InBody
<1>3. InFlight' = InFlight
    BY DEF Inv, TypeOK, InFlight
<1>4. \A t \in Streams : Unreturned(t)' = Unreturned(t)
    BY DEF Inv, TypeOK, Unreturned
<1>5. QuietInv' /\ CountInv'
    BY <1>3, <1>4 DEF Inv, QuietInv, CountInv
<1> QED BY <1>1, <1>2, <1>5 DEF Inv

LEMMA EnterCheckStep ==
    ASSUME Inv, NEW p \in Publishers, EnterCheck(p)
    PROVE  Inv'
<1> USE DEF EnterCheck, closeVars, tally
<1>1. TypeOK'
    BY StreamNumbers DEF Inv, TypeOK, PubStates
<1>2. MutexInv' /\ CloseInv'
    BY GoroutinesAssumption DEF Inv, TypeOK, MutexInv, CloseInv, InBody
<1>3. InFlight' = InFlight
    BY DEF Inv, TypeOK, InFlight
<1>4. \A t \in Streams : Unreturned(t)' = Unreturned(t)
    BY DEF Inv, TypeOK, Unreturned
<1>5. QuietInv' /\ CountInv'
    BY <1>3, <1>4 DEF Inv, QuietInv, CountInv
<1> QED BY <1>1, <1>2, <1>5 DEF Inv

\* wg.Add(1): the bus is open, so the channels are.
LEMMA EnterAddStep ==
    ASSUME Inv, NEW p \in Publishers, EnterAdd(p)
    PROVE  Inv'
<1> USE DEF EnterAdd, closeVars, tally
<1>1. TypeOK'
    BY DEF Inv, TypeOK, PubStates
<1>2. MutexInv' /\ CloseInv'
    BY GoroutinesAssumption DEF Inv, TypeOK, MutexInv, CloseInv, InBody
<1>3. InFlight' = InFlight \cup {p} /\ p \notin InFlight
    BY DEF Inv, TypeOK, InFlight
<1>4. \A t \in Streams : Unreturned(t)' = Unreturned(t)
    BY DEF Inv, TypeOK, Unreturned
<1>5. ~closed
    BY DEF Inv, MutexInv
<1>6. QuietInv'
    BY <1>5 DEF Inv, QuietInv, CloseInv
<1>7. CountInv'
    BY <1>3, <1>4, Counted, FS_AddElement DEF Inv, CountInv
<1> QED BY <1>1, <1>2, <1>6, <1>7 DEF Inv

\* A message enters a channel and is not yet acknowledged.
LEMMA SelectSendStep ==
    ASSUME Inv, NEW p \in Publishers, SelectSend(p)
    PROVE  Inv'
<1> USE DEF SelectSend, Leave, HasRoom, closeVars, tally
<1> DEFINE s == stream[p]
<1>0. s \in Streams /\ p \in InFlight
    BY DEF Inv, TypeOK, InFlight
<1>a. ~IsClosed(s)
    BY <1>0, StreamNumbers DEF Inv, QuietInv, TypeOK, IsClosed
<1>b. buf' = [buf EXCEPT ![s] = @ + 1] /\ ~panicked' /\ buf[s] < Cap[s]
    BY <1>a
<1>1. TypeOK'
  <2>1. buf' \in [Streams -> Nat] /\ \A t \in Streams : buf'[t] <= Cap[t]
    BY <1>0, <1>b, StreamNumbers DEF Inv, TypeOK
  <2>2. panicked' \in BOOLEAN
    BY DEF IsClosed
  <2>3. /\ pc' \in [Publishers -> PubStates]
        /\ result' \in [Publishers -> Results]
        /\ \A q \in Publishers : pc'[q] # "idle" => stream[q] \in Streams
    BY <1>0 DEF Inv, TypeOK, PubStates, Results
  <2> HIDE DEF HasRoom, s
  <2> QED BY <2>1, <2>2, <2>3 DEF Inv, TypeOK
<1>2. MutexInv'
    BY DEF Inv, TypeOK, MutexInv
<1>3. nClosed = 0 /\ nDrained = 0
    BY <1>0, StreamNumbers DEF Inv, QuietInv, TypeOK, CloseInv
<1>4. CloseInv'
    BY <1>3, StreamsAssumption DEF Inv, TypeOK, CloseInv, InBody, Streams
<1>5. InFlight' = InFlight
    BY DEF Inv, TypeOK, InFlight
<1>6. Unreturned(s)' = Unreturned(s) \cup {p} /\ p \notin Unreturned(s)
    BY DEF Inv, TypeOK, Unreturned
<1>7. \A t \in Streams \ {s} : Unreturned(t)' = Unreturned(t)
    BY DEF Inv, TypeOK, Unreturned
<1>8. Cardinality(Unreturned(s)') = Cardinality(Unreturned(s)) + 1
    BY <1>0, <1>6, Counted, FS_AddElement
<1>9. QuietInv'
    BY <1>5, <1>b DEF Inv, QuietInv
<1>10. CountInv'
  <2>1. wg' = Cardinality(InFlight)'
    BY <1>5 DEF Inv, CountInv
  <2>2. ASSUME NEW t \in Streams
        PROVE  (accepted[t] + Cardinality(Unreturned(t)) = received[t] + buf[t] + drained[t])'
    <3>1. CASE t = s
      <4>1. accepted[t] \in Nat /\ received[t] \in Nat /\ drained[t] \in Nat /\ buf[t] \in Nat
        BY DEF Inv, TypeOK
      <4>2. buf'[t] = buf[t] + 1
        BY <3>1, <1>0, <1>b DEF Inv, TypeOK
      <4>3. accepted[t] + Cardinality(Unreturned(t)) = received[t] + buf[t] + drained[t]
        BY DEF Inv, CountInv
      <4>4. Cardinality(Unreturned(t))' = Cardinality(Unreturned(t)) + 1
        BY <3>1, <1>8
      <4> QED BY <4>1, <4>2, <4>3, <4>4, Counted
    <3>2. CASE t # s
      BY <3>2, <1>7, <1>b DEF Inv, TypeOK, CountInv
    <3> QED BY <3>1, <3>2
  <2> QED BY <2>1, <2>2 DEF CountInv
<1> QED BY <1>1, <1>2, <1>4, <1>9, <1>10 DEF Inv

LEMMA SelectLeaveStep ==
    ASSUME Inv, NEW p \in Publishers,
           SelectCanceled(p) \/ SelectClosed(p) \/ SelectTimeout(p)
    PROVE  Inv'
<1> USE DEF SelectCanceled, SelectClosed, SelectTimeout, Leave, DoneReady, closeVars, tally
<1>0. p \in InFlight
    BY DEF Inv, InFlight
<1>1. TypeOK'
    BY DEF Inv, TypeOK, PubStates, Results
<1>2. MutexInv' /\ CloseInv'
    BY DEF Inv, TypeOK, MutexInv, CloseInv, InBody
<1>3. InFlight' = InFlight
    BY DEF Inv, TypeOK, InFlight
<1>4. \A t \in Streams : Unreturned(t)' = Unreturned(t)
    BY DEF Inv, TypeOK, Unreturned
<1>5. QuietInv' /\ CountInv'
    BY <1>3, <1>4 DEF Inv, QuietInv, CountInv
<1> QED BY <1>1, <1>2, <1>5 DEF Inv

\* wg.Done(): an acknowledged message moves from "unreturned" to "accepted".
LEMMA ReturnStep ==
    ASSUME Inv, NEW p \in Publishers, PublishReturn(p)
    PROVE  Inv'
<1> USE DEF PublishReturn, WgAfter, closeVars, tally
<1> DEFINE s == stream[p]
<1>0. s \in Streams /\ p \in InFlight
    BY DEF Inv, TypeOK, InFlight
<1>1. InFlight' = InFlight \ {p}
    BY DEF Inv, TypeOK, InFlight
<1>2. wg' = Cardinality(InFlight)' /\ wg' \in Nat
  <2>1. Cardinality(InFlight \ {p}) = Cardinality(InFlight) - 1
    BY <1>0, Counted, FS_RemoveElement
  <2>2. Cardinality(InFlight \ {p}) \in Nat
    BY Counted, FS_RemoveElement, FS_CardinalityType
  <2>3. wg = Cardinality(InFlight)
    BY DEF Inv, CountInv
  <2> QED BY <1>1, <2>1, <2>2, <2>3
<1>3. TypeOK'
  <2>1. accepted' \in [Streams -> Nat]
    BY <1>0 DEF Inv, TypeOK
  <2>2. stream' \in [Publishers -> 0 .. NumStreams]
    BY StreamNumbers DEF Inv, TypeOK
  <2>3. \A q \in Publishers : pc'[q] # "idle" => stream'[q] \in Streams
    BY DEF Inv, TypeOK
  <2> QED BY <1>2, <2>1, <2>2, <2>3 DEF Inv, TypeOK, PubStates, Results
<1>4. MutexInv' /\ CloseInv'
    BY DEF Inv, TypeOK, MutexInv, CloseInv, InBody
<1>5. QuietInv'
    BY <1>1 DEF Inv, QuietInv
<1>6. ASSUME NEW t \in Streams
      PROVE  (accepted[t] + Cardinality(Unreturned(t)) = received[t] + buf[t] + drained[t])'
  <2>1. accepted[t] \in Nat /\ received[t] \in Nat /\ drained[t] \in Nat /\ buf[t] \in Nat
    BY DEF Inv, TypeOK
  <2>2. accepted[t] + Cardinality(Unreturned(t)) = received[t] + buf[t] + drained[t]
    BY DEF Inv, CountInv
  <2>3. CASE t = s /\ result[p] = "nil"
    <3>1. Unreturned(t)' = Unreturned(t) \ {p} /\ p \in Unreturned(t)
        BY <2>3 DEF Inv, TypeOK, Unreturned
    <3>2. Cardinality(Unreturned(t))' = Cardinality(Unreturned(t)) - 1
        BY <3>1, Counted, FS_RemoveElement
    <3>3. accepted'[t] = accepted[t] + 1
        BY <2>3 DEF Inv, TypeOK
    <3> QED BY <2>1, <2>2, <3>2, <3>3, Counted
  <2>4. CASE ~(t = s /\ result[p] = "nil")
    <3>1. Unreturned(t)' = Unreturned(t)
        BY <2>4 DEF Inv, TypeOK, Unreturned
    <3>2. accepted'[t] = accepted[t]
        BY <2>4 DEF Inv, TypeOK
    <3> QED BY <2>2, <3>1, <3>2
  <2> QED BY <2>3, <2>4
<1>7. CountInv'
    BY <1>2, <1>6 DEF CountInv
<1> QED BY <1>3, <1>4, <1>5, <1>7 DEF Inv

-----------------------------------------------------------------------------
\* Steps of the owners of contexts and of consumers.
LEMMA CancelStep ==
    ASSUME Inv, NEW p \in Publishers, Cancel(p)
    PROVE  Inv'
<1> USE DEF Cancel, pubVars, closeVars, tally
<1>1. TypeOK' /\ MutexInv' /\ CloseInv'
    BY DEF Inv, TypeOK, MutexInv, CloseInv, InBody
<1>2. InFlight' = InFlight /\ \A t \in Streams : Unreturned(t)' = Unreturned(t)
    BY DEF InFlight, Unreturned
<1>3. QuietInv' /\ CountInv'
    BY <1>2 DEF Inv, QuietInv, CountInv
<1> QED BY <1>1, <1>3 DEF Inv

LEMMA ReceiveStep ==
    ASSUME Inv, NEW s \in Streams, Receive(s)
    PROVE  Inv'
<1> USE DEF Receive, pubVars, closeVars
<1>1. TypeOK'
    BY StreamNumbers DEF Inv, TypeOK
<1>2. MutexInv' /\ CloseInv'
    BY StreamNumbers DEF Inv, TypeOK, MutexInv, CloseInv, InBody
<1>3. InFlight' = InFlight /\ \A t \in Streams : Unreturned(t)' = Unreturned(t)
    BY DEF InFlight, Unreturned
<1>4. QuietInv'
    BY <1>3 DEF Inv, QuietInv
<1>5. ASSUME NEW t \in Streams
      PROVE  (accepted[t] + Cardinality(Unreturned(t)) = received[t] + buf[t] + drained[t])'
  <2>1. accepted[t] \in Nat /\ received[t] \in Nat /\ drained[t] \in Nat /\ buf[t] \in Nat
    BY DEF Inv, TypeOK
  <2>2. received'[t] + buf'[t] = received[t] + buf[t]
    BY <2>1 DEF Inv, TypeOK
  <2>3. received'[t] \in Nat /\ buf'[t] \in Nat
    BY <1>1 DEF TypeOK
  <2>4. accepted[t] + Cardinality(Unreturned(t)) = received[t] + buf[t] + drained[t]
    BY DEF Inv, CountInv
  <2> QED BY <1>3, <2>1, <2>2, <2>3, <2>4, Counted
<1>6. CountInv'
    BY <1>3, <1>5 DEF Inv, CountInv
<1> QED BY <1>1, <1>2, <1>4, <1>6 DEF Inv

-----------------------------------------------------------------------------
\* Steps of Close.  None of them moves a publisher.
LEMMA CloseCallStep ==
    ASSUME Inv, NEW c \in Closers, CloseCall(c)
    PROVE  Inv'
<1> USE DEF CloseCall, pubVars, tally
<1>1. TypeOK' /\ MutexInv'
    BY DEF Inv, TypeOK, MutexInv, CloseStates
<1>2. CloseInv'
  <2>1. CASE once = "new"
    BY <2>1 DEF Inv, TypeOK, CloseInv, InBody
  <2>2. CASE once # "new"
    BY <2>2 DEF Inv, TypeOK, CloseInv, InBody
  <2> QED BY <2>1, <2>2
<1>3. InFlight' = InFlight /\ \A t \in Streams : Unreturned(t)' = Unreturned(t)
    BY DEF InFlight, Unreturned
<1>4. \A d \in Closers : cpc'[d] \in {"close", "drain"} => cpc[d] \in {"close", "drain"}
    BY DEF Inv, TypeOK
<1>5. QuietInv'
    BY <1>3, <1>4 DEF Inv, QuietInv
<1>6. wg' = wg /\ buf' = buf /\ accepted' = accepted /\ received' = received
                /\ drained' = drained
    OBVIOUS
<1>7. CountInv'
    BY <1>3, <1>6 DEF Inv, CountInv
<1> QED BY <1>1, <1>2, <1>5, <1>7 DEF Inv

LEMMA CloseLockStep ==
    ASSUME Inv, NEW c \in Closers, CloseLock(c)
    PROVE  Inv'
<1> USE DEF CloseLock, MutexFree, pubVars, tally
<1>1. TypeOK' /\ MutexInv' /\ CloseInv'
    BY GoroutinesAssumption DEF Inv, TypeOK, MutexInv, CloseInv, InBody, CloseStates
<1>2. InFlight' = InFlight /\ \A t \in Streams : Unreturned(t)' = Unreturned(t)
    BY DEF InFlight, Unreturned
<1>3. QuietInv' /\ CountInv'
    BY <1>2 DEF Inv, TypeOK, QuietInv, CountInv
<1> QED BY <1>1, <1>3 DEF Inv

\* Holding the mutex, the closer knows that no publisher is about to Add.
LEMMA CloseMarkStep ==
    ASSUME Inv, NEW c \in Closers, CloseMark(c)
    PROVE  Inv'
<1> USE DEF CloseMark, pubVars, tally
<1>1. TypeOK' /\ MutexInv' /\ CloseInv'
    BY GoroutinesAssumption DEF Inv, TypeOK, MutexInv, CloseInv, InBody, CloseStates
<1>2. InFlight' = InFlight /\ \A t \in Streams : Unreturned(t)' = Unreturned(t)
    BY DEF InFlight, Unreturned
<1>3. QuietInv' /\ CountInv'
    BY <1>2 DEF Inv, TypeOK, QuietInv, CountInv
<1> QED BY <1>1, <1>3 DEF Inv

LEMMA CloseWaitStep ==
    ASSUME Inv, NEW c \in Closers, CloseWait(c)
    PROVE  Inv'
<1> USE DEF CloseWait, PublishersGone, pubVars, tally
<1>1. TypeOK' /\ MutexInv' /\ CloseInv'
    BY GoroutinesAssumption, StreamNumbers
    DEF Inv, TypeOK, MutexInv, CloseInv, InBody, CloseStates
<1>2. InFlight' = InFlight /\ \A t \in Streams : Unreturned(t)' = Unreturned(t)
    BY DEF InFlight, Unreturned
<1>3. InFlight = {}
    BY Counted, FS_EmptySet DEF Inv, CountInv
<1>4. QuietInv' /\ CountInv'
    BY <1>2, <1>3 DEF Inv, TypeOK, QuietInv, CountInv
<1> QED BY <1>1, <1>4 DEF Inv

LEMMA CloseChannelStep ==
    ASSUME Inv, NEW c \in Closers, CloseChannel(c)
    PROVE  Inv'
<1> USE DEF CloseChannel, pubVars, tally
<1>1. TypeOK' /\ MutexInv' /\ CloseInv'
    BY GoroutinesAssumption, StreamNumbers
    DEF Inv, TypeOK, MutexInv, CloseInv, InBody, CloseStates
<1>2. InFlight' = InFlight /\ \A t \in Streams : Unreturned(t)' = Unreturned(t)
    BY DEF InFlight, Unreturned
<1>3. QuietInv' /\ CountInv'
    BY <1>2 DEF Inv, TypeOK, QuietInv, CloseInv, CountInv
<1> QED BY <1>1, <1>3 DEF Inv

LEMMA DrainOneStep ==
    ASSUME Inv, NEW c \in Closers, DrainOne(c)
    PROVE  Inv'
<1> USE DEF DrainOne, pubVars, closeVars
<1>0. nDrained + 1 \in Streams
    BY StreamNumbers DEF Inv, TypeOK, Streams
<1>1. TypeOK'
    BY <1>0, StreamNumbers DEF Inv, TypeOK
<1>2. MutexInv' /\ CloseInv'
    BY <1>0, StreamNumbers DEF Inv, TypeOK, MutexInv, CloseInv, InBody
<1>3. InFlight' = InFlight /\ \A t \in Streams : Unreturned(t)' = Unreturned(t)
    BY DEF InFlight, Unreturned
<1>4. QuietInv' /\ CountInv'
    BY <1>0, <1>3, Counted DEF Inv, TypeOK, QuietInv, CountInv
<1> QED BY <1>1, <1>2, <1>4 DEF Inv

LEMMA DrainNextStep ==
    ASSUME Inv, NEW c \in Closers, DrainNext(c)
    PROVE  Inv'
<1> USE DEF DrainNext, pubVars, tally
<1>1. TypeOK' /\ MutexInv'
    BY StreamNumbers DEF Inv, TypeOK, MutexInv
<1>2. \A s \in Streams : s <= nDrained + 1 => s <= nDrained \/ s = nDrained + 1
    BY StreamNumbers DEF Inv, TypeOK
<1>3. CloseInv'
    BY <1>2, StreamNumbers DEF Inv, TypeOK, CloseInv, InBody
<1>4. InFlight' = InFlight /\ \A t \in Streams : Unreturned(t)' = Unreturned(t)
    BY DEF InFlight, Unreturned
<1>5. QuietInv' /\ CountInv'
    BY <1>4 DEF Inv, TypeOK, QuietInv, CountInv
<1> QED BY <1>1, <1>3, <1>5 DEF Inv

LEMMA CloseReturnStep ==
    ASSUME Inv, NEW c \in Closers, CloseReturn(c)
    PROVE  Inv'
<1> USE DEF CloseReturn, ClosedByOther, pubVars, tally
<1>1. TypeOK' /\ MutexInv' /\ CloseInv'
    BY DEF Inv, TypeOK, MutexInv, CloseInv, InBody, CloseStates
<1>2. InFlight' = InFlight /\ \A t \in Streams : Unreturned(t)' = Unreturned(t)
    BY DEF InFlight, Unreturned
<1>3. QuietInv' /\ CountInv'
    BY <1>2 DEF Inv, TypeOK, QuietInv, CountInv
<1> QED BY <1>1, <1>3 DEF Inv

-----------------------------------------------------------------------------
\* Every step preserves the invariant.
LEMMA NextInv == Inv /\ [Next]_vars => Inv'
<1> SUFFICES ASSUME Inv, [Next]_vars PROVE Inv'
    OBVIOUS
<1>1. CASE UNCHANGED vars
    BY <1>1 DEF vars, Inv, TypeOK, MutexInv, CloseInv, QuietInv, CountInv,
                InBody, InFlight, Unreturned
<1>2. ASSUME NEW p \in Publishers, NEW s \in Streams, PublishCall(p, s) PROVE Inv'
    BY <1>2, CallStep
<1>3. ASSUME NEW p \in Publishers, PublishStep(p) PROVE Inv'
    BY <1>3, EnterLockStep, EnterCheckStep, EnterAddStep, SelectSendStep,
       SelectLeaveStep, ReturnStep DEF PublishStep
<1>4. ASSUME NEW c \in Closers, CloseStep(c) PROVE Inv'
    BY <1>4, CloseLockStep, CloseMarkStep, CloseWaitStep, CloseChannelStep,
       DrainOneStep, DrainNextStep, CloseReturnStep DEF CloseStep
<1> QED
    BY <1>1, <1>2, <1>3, <1>4, CancelStep, ReceiveStep, CloseCallStep DEF Next

LEMMA Invariance == Spec => []Inv
<1>1. Inv /\ [Next]_vars => Inv'
    BY NextInv
<1> QED BY <1>1, InitInv, PTL DEF Spec

-----------------------------------------------------------------------------
(* The theorems                                                            *)

\* The bus is type correct; its WaitGroup counter is never negative and no
\* channel exceeds its buffer.
THEOREM TypeCorrect == Spec => []TypeOK
<1>1. Inv => TypeOK
    BY DEF Inv
<1> QED BY <1>1, Invariance, PTL

\* No publish call ever sends on a closed channel, which would panic.
THEOREM NeverSendsOnClosed == Spec => []NoSendOnClosed
<1>1. Inv => NoSendOnClosed
  <2> SUFFICES ASSUME Inv, NEW p \in Publishers, pc[p] = "select", IsClosed(stream[p])
               PROVE  FALSE
    BY DEF NoSendOnClosed, Inv, QuietInv
  <2>1. p \in InFlight /\ stream[p] \in Streams
    BY DEF Inv, TypeOK, InFlight
  <2>2. nClosed > 0
    BY <2>1, StreamNumbers DEF Inv, TypeOK, IsClosed
  <2> QED BY <2>1, <2>2 DEF Inv, QuietInv
<1> QED BY <1>1, Invariance, PTL

\* When any caller of Close returns, every accepted message has been received or
\* counted as drained, and the channels are closed and empty.
THEOREM CloseIsComplete == Spec => []CloseAccountsForAll
<1>1. Inv => CloseAccountsForAll
  <2> SUFFICES ASSUME Inv, NEW c \in Closers, cpc[c] = "returned", NEW s \in Streams
               PROVE  /\ IsClosed(s)
                      /\ buf[s] = 0
                      /\ accepted[s] = received[s] + drained[s]
    BY DEF CloseAccountsForAll
  <2>1. nClosed = NumStreams /\ nDrained = NumStreams
    BY DEF Inv, CloseInv
  <2>2. IsClosed(s) /\ buf[s] = 0
    BY <2>1, StreamNumbers DEF Inv, CloseInv, IsClosed
  <2>3. InFlight = {}
    BY <2>1, StreamNumbers DEF Inv, QuietInv
  <2>4. Unreturned(s) = {}
    BY <2>3 DEF Unreturned, InFlight
  <2>5. Cardinality(Unreturned(s)) = 0
    BY <2>4, FS_EmptySet
  <2> QED BY <2>2, <2>5 DEF Inv, TypeOK, CountInv
<1> QED BY <1>1, Invariance, PTL

\* Nothing registers with the WaitGroup once Close has marked the bus closed.
THEOREM NoAddDuringWait == Spec => NoLateEntry
<1>1. Inv /\ [Next]_vars => [closed => wg' <= wg]_vars
  <2> SUFFICES ASSUME Inv, Next, closed PROVE wg' <= wg
    OBVIOUS
  <2>1. wg \in Nat
    BY DEF Inv, TypeOK
  <2> USE DEF pubVars, closeVars, tally
  <2>2. ASSUME NEW p \in Publishers, PublishStep(p) PROVE wg' = wg \/ wg' = wg - 1
    <3>1. ~EnterAdd(p)
        BY DEF EnterAdd, Inv, MutexInv
    <3>2. CASE PublishReturn(p)
        BY <3>2 DEF PublishReturn, WgAfter
    <3>3. CASE ~PublishReturn(p)
        BY <2>2, <3>1, <3>3 DEF PublishStep, EnterLock, EnterCheck, SelectSend,
              SelectCanceled, SelectClosed, SelectTimeout, Leave
    <3> QED BY <3>2, <3>3
  <2>3. ASSUME NEW c \in Closers, CloseStep(c) PROVE wg' = wg
    BY <2>3 DEF CloseStep, CloseLock, CloseMark, CloseWait, CloseChannel,
                DrainOne, DrainNext, CloseReturn
  <2>4. wg' = wg \/ wg' = wg - 1
    BY <2>2, <2>3 DEF Next, PublishCall, Cancel, Receive, CloseCall
  <2> QED BY <2>1, <2>4
<1> QED BY <1>1, Invariance, PTL DEF Spec, NoLateEntry

\* Once Close has returned to anybody, nothing moves through the bus: whatever publishers
\* and consumers do, the channels stay closed and empty and the counts of accepted,
\* received and drained messages stay as they are.
THEOREM RestsOnceClosed == Spec => AtRestOnceClosed
<1> DEFINE A == (\E c \in Closers : cpc[c] = "returned") => UNCHANGED <<buf, nClosed, tally>>
<1>1. Inv /\ [Next]_vars => [A]_vars
  <2> SUFFICES ASSUME Inv, Next, NEW d \in Closers, cpc[d] = "returned"
               PROVE  UNCHANGED <<buf, nClosed, tally>>
    OBVIOUS
  <2>1. once = "done" /\ nClosed = NumStreams /\ nDrained = NumStreams
    BY DEF Inv, CloseInv
  <2>2. InFlight = {} /\ \A s \in Streams : buf[s] = 0
    BY <2>1, StreamNumbers DEF Inv, QuietInv, CloseInv
  <2>3. ASSUME NEW p \in Publishers, PublishStep(p)
        PROVE  UNCHANGED <<buf, nClosed, tally>>
    <3>1. pc[p] \notin {"select", "return"}
        BY <2>2 DEF InFlight
    <3> QED
        BY <2>3, <3>1 DEF PublishStep, EnterLock, EnterCheck, EnterAdd, SelectSend,
              SelectCanceled, SelectClosed, SelectTimeout, PublishReturn, closeVars
  <2>4. ASSUME NEW s \in Streams PROVE ~Receive(s)
    BY <2>2 DEF Receive
  <2>5. ASSUME NEW c \in Closers, CloseCall(c) \/ CloseStep(c)
        PROVE  UNCHANGED <<buf, nClosed, tally>>
    <3>1. ~InBody(c)
        BY <2>1 DEF Inv, CloseInv
    <3> QED
        BY <2>5, <3>1 DEF InBody, CloseCall, CloseStep, CloseLock, CloseMark, CloseWait,
              CloseChannel, DrainOne, DrainNext, CloseReturn
  <2> QED
    BY <2>3, <2>4, <2>5 DEF Next, PublishCall, Cancel, closeVars
<1> QED BY <1>1, Invariance, PTL DEF Spec, AtRestOnceClosed
=============================================================================
