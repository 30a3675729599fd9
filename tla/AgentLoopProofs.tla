--------------------------- MODULE AgentLoopProofs ---------------------------
(***************************************************************************)
(* Proofs about AgentLoop, for any sessions, number of slots, size of the  *)
(* steering queue and number of messages.  The inductive invariant adds to *)
(* the checked ones: messages that have not arrived have no worker, the    *)
(* main loop has a message in hand when it queues or stops, and a worker   *)
(* whose turn panicked is on its way out.                                  *)
(***************************************************************************)
EXTENDS AgentLoop, FiniteSetTheorems, TLAPS

HoldingMessage == {"prepare", "stopClear", "stopLoad", "stopCheck", "stopMark"}

\* What is known of the arrival order.
ArrivalInv ==
    /\ \A w \in Msgs : w > nMsgs => pc[w] = "none"
    /\ main.at \in HoldingMessage => nMsgs \in Msgs

\* A worker that panicked runs nothing but its deferred calls.
PanicInv ==
    \A w \in Msgs :
        outcome[w] = "panic" => pc[w] \in {"clear", "clearDelete", "exit", "cleanup",
                                           "cleanupDelete", "done"}

Inv == TypeOK /\ ArrivalInv /\ PanicInv /\ SlotsExact /\ NoOrphanEntry

\* What is queued has arrived, and is not the message the main loop has in hand, which
\* has no worker; the rest is the checked property.
QueueInv ==
    /\ main.at \in HoldingMessage => pc[nMsgs] = "none"
    /\ \A s \in Sessions : \A i \in DOMAIN queue[s] :
          /\ queue[s][i] <= nMsgs
          /\ main.at \in HoldingMessage => queue[s][i] < nMsgs
    /\ QueuedInOrder

Busy == {w \in Msgs : pc[w] \in Holding}

-----------------------------------------------------------------------------
LEMMA BusyFinite == IsFiniteSet(Busy) /\ Cardinality(Busy) \in Nat
<1>1. IsFiniteSet(Msgs)
    BY BoundsAssumption, FS_Interval DEF Msgs
<1> QED BY <1>1, FS_Subset, FS_CardinalityType DEF Busy

\* A poll takes at least the oldest message of a non-empty queue.
LEMMA PollShortens ==
    ASSUME NEW q \in Seq(Msgs), q # <<>>
    PROVE  /\ Remaining(q) \in Seq(Msgs)
           /\ Len(Remaining(q)) <= Len(q)
BY DEF Remaining

LEMMA EntryKinds ==
    /\ NoEntry \in Entries
    /\ \A w \in Msgs : /\ Placeholder(w) \in Entries \ {NoEntry}
                       /\ Continuation(w) \in Entries \ {NoEntry}
                       /\ Turn(w) \in Entries \ {NoEntry}
    /\ \A v, w \in Msgs : /\ Placeholder(v) # Continuation(w)
                          /\ Placeholder(v) # Turn(w)
                          /\ Continuation(v) # Turn(w)
                          /\ Placeholder(v) = Placeholder(w) => v = w
                          /\ Continuation(v) = Continuation(w) => v = w
                          /\ Turn(v) = Turn(w) => v = w
<1>1. 0 \notin Msgs
    BY DEF Msgs
<1> QED BY <1>1 DEF Entries, NoEntry, Placeholder, Continuation, Turn

\* Only the entries of turns are aborted.
LEMMA TurnOwner ==
    ASSUME NEW e \in Entries, e.is = "turn"
    PROVE  e.owner \in Msgs
BY DEF Entries, NoEntry

LEMMA PendingKinds ==
    ASSUME NEW w \in Msgs
    PROVE  IsPending(Placeholder(w)) /\ IsPending(Continuation(w))
BY DEF IsPending, Placeholder, Continuation

LEMMA InitInv == Init => Inv
<1> SUFFICES ASSUME Init PROVE Inv
    OBVIOUS
<1>1. TypeOK
  <2>1. (CHOOSE s \in Sessions : TRUE) \in Sessions
    BY SessionsAssumption
  <2>2. \A s \in Sessions : queue[s] \in Seq(Msgs) /\ Len(queue[s]) <= QueueCap
    BY BoundsAssumption DEF Init
  <2> QED
    BY <2>1, <2>2, BoundsAssumption, SlotsAssumption
    DEF Init, TypeOK, Kinds, Entries, WorkerStates, Outcomes, LoopStates
<1>2. ArrivalInv /\ PanicInv /\ NoOrphanEntry
    BY EntryKinds DEF Init, ArrivalInv, PanicInv, NoOrphanEntry, HoldingMessage
<1>3. SlotsExact
  <2>1. {w \in Msgs : pc[w] \in Holding} = {}
    BY DEF Init, Holding
  <2>2. slots = Cardinality({w \in Msgs : pc[w] \in Holding})
    BY <2>1, FS_EmptySet DEF Init
  <2> QED BY <2>2, SlotsAssumption DEF Init, SlotsExact
<1> QED BY <1>1, <1>2, <1>3 DEF Inv

-----------------------------------------------------------------------------
(* The main loop                                                           *)

\* No step of the main loop moves a worker that holds a slot.
LEMMA SlotsKept ==
    ASSUME Inv, slots' = slots, \A w \in Msgs : pc'[w] \in Holding <=> pc[w] \in Holding
    PROVE  SlotsExact'
BY DEF Inv, SlotsExact

LEMMA ReceiveStep ==
    ASSUME Inv, NEW s \in Sessions, NEW k \in Kinds, Receive(s, k)
    PROVE  Inv'
<1> USE DEF Receive, MainGoto, turnVars
<1> DEFINE m == nMsgs + 1
<1>0. /\ nMsgs \in Nat /\ m \in Msgs
      /\ pc[m] = "none" /\ outcome[m] # "panic"
  <2>1. nMsgs \in Nat /\ m \in Msgs
    BY BoundsAssumption DEF Inv, TypeOK, Msgs
  <2>2. pc[m] = "none"
    BY <2>1 DEF Inv, ArrivalInv
  <2> QED BY <2>1, <2>2 DEF Inv, PanicInv
<1>a. /\ nMsgs' = m
      /\ sess' = [sess EXCEPT ![m] = s]
      /\ UNCHANGED <<shutdown, pendingStop, queue, slots, cont, abort, outcome, stoppedBy>>
    OBVIOUS
<1>b. CASE active[s] = NoEntry
  <2>0. /\ kind' = [kind EXCEPT ![m] = k]
        /\ active' = [active EXCEPT ![s] = Placeholder(m)]
        /\ pc' = [pc EXCEPT ![m] = "acquire"]
        /\ main' = main
    BY <1>b
  <2> HIDE DEF Receive, m
  <2>1. TypeOK'
    <3>1. nMsgs' \in 0 .. MaxMsgs
        BY <1>0, <1>a, BoundsAssumption DEF Msgs
    <3> QED BY <1>0, <1>a, <2>0, <3>1, EntryKinds DEF Inv, TypeOK, WorkerStates
  <2>2. ArrivalInv'
    BY <1>0, <1>a, <2>0, BoundsAssumption DEF Inv, TypeOK, ArrivalInv, Msgs, m
  <2>3. PanicInv'
    BY <1>0, <1>a, <2>0 DEF Inv, TypeOK, PanicInv
  <2>4. SlotsExact'
    BY <1>0, <1>a, <2>0, SlotsKept DEF Inv, TypeOK, Holding
  <2>5. NoOrphanEntry'
    <3>1. active'[s] = Placeholder(m) /\ pc'[m] = "acquire" /\ sess'[m] = s
        BY <1>0, <1>a, <2>0 DEF Inv, TypeOK
    <3>2. \A t \in Sessions \ {s} : active'[t] = active[t]
        BY <2>0 DEF Inv, TypeOK
    <3>3. \A w \in Msgs \ {m} : sess'[w] = sess[w] /\ pc'[w] = pc[w]
        BY <1>0, <1>a, <2>0 DEF Inv, TypeOK
    <3> QED BY <1>0, <1>a, <3>1, <3>2, <3>3, EntryKinds DEF Inv, NoOrphanEntry
  <2> QED BY <2>1, <2>2, <2>3, <2>4, <2>5 DEF Inv
<1>c. CASE active[s] # NoEntry
  <2>0. /\ \E l \in {"stopClear", "prepare"} : main' = [at |-> l, cleared |-> FALSE]
        /\ UNCHANGED <<kind, active, pc>>
    BY <1>c
  <2> HIDE DEF Receive, m
  <2>1. TypeOK'
    <3>1. nMsgs' \in 0 .. MaxMsgs
        BY <1>0, <1>a, BoundsAssumption DEF Msgs
    <3>2. main' \in [at : LoopStates, cleared : BOOLEAN]
        BY <2>0 DEF LoopStates
    <3> QED BY <1>0, <1>a, <2>0, <3>1, <3>2 DEF Inv, TypeOK
  <2>2. ArrivalInv'
    BY <1>0, <1>a, <2>0, BoundsAssumption DEF Inv, TypeOK, ArrivalInv, Msgs, m
  <2>3. PanicInv' /\ SlotsExact'
    BY <1>a, <2>0 DEF Inv, PanicInv, SlotsExact
  <2>4. NoOrphanEntry'
    <3>1. \A w \in Msgs \ {m} : sess'[w] = sess[w]
        BY <1>0, <1>a DEF Inv, TypeOK
    <3> QED BY <1>0, <1>a, <2>0, <3>1 DEF Inv, NoOrphanEntry
  <2> QED BY <2>1, <2>2, <2>3, <2>4 DEF Inv
<1> QED BY <1>b, <1>c

\* What the steps of the main loop share after a message has arrived.
LEMMA OwnersKept ==
    ASSUME Inv, UNCHANGED <<sess, active, pc, outcome>>
    PROVE  NoOrphanEntry' /\ PanicInv'
BY DEF Inv, NoOrphanEntry, PanicInv

LEMMA ReceiveSystemStep ==
    ASSUME Inv, ReceiveSystem
    PROVE  Inv'
<1> USE DEF ReceiveSystem, MainGoto, turnVars
<1>1. TypeOK'
    BY DEF Inv, TypeOK, LoopStates
<1>2. ArrivalInv'
    BY DEF Inv, ArrivalInv, HoldingMessage
<1>3. NoOrphanEntry' /\ PanicInv'
    BY OwnersKept
<1>4. SlotsExact'
    BY SlotsKept
<1> QED BY <1>1, <1>2, <1>3, <1>4 DEF Inv

LEMMA SystemDoneStep ==
    ASSUME Inv, SystemDone
    PROVE  Inv'
<1> USE DEF SystemDone, MainGoto, turnVars
<1>1. TypeOK'
    BY DEF Inv, TypeOK, LoopStates
<1>2. ArrivalInv'
    BY DEF Inv, ArrivalInv, HoldingMessage
<1>3. NoOrphanEntry' /\ PanicInv'
    BY OwnersKept
<1>4. SlotsExact'
    BY SlotsKept
<1> QED BY <1>1, <1>2, <1>3, <1>4 DEF Inv

\* A steering message enters the queue only where there is room.
LEMMA EnqueueStep ==
    ASSUME Inv, Enqueue
    PROVE  Inv'
<1> USE DEF Enqueue, MainGoto, turnVars
<1>0. Held \in Msgs /\ HeldSession \in Sessions
    BY DEF Inv, TypeOK, ArrivalInv, HoldingMessage, Held, HeldSession
<1>1. TypeOK'
  <2>1. queue' \in [Sessions -> Seq(Msgs)]
    BY <1>0 DEF Inv, TypeOK
  <2>2. ASSUME NEW s \in Sessions PROVE Len(queue'[s]) <= QueueCap
    <3>1. CASE HasRoom(HeldSession) /\ s = HeldSession
      <4>1. queue'[s] = Append(queue[s], Held)
        BY <3>1, <1>0 DEF Inv, TypeOK
      <4>2. queue[s] \in Seq(Msgs) /\ Len(queue[s]) < QueueCap
        BY <3>1 DEF Inv, TypeOK, HasRoom
      <4>3. Len(queue'[s]) = Len(queue[s]) + 1
        BY <4>1, <4>2, <1>0
      <4> QED BY <4>2, <4>3, BoundsAssumption
    <3>2. CASE ~(HasRoom(HeldSession) /\ s = HeldSession)
        BY <3>2, <1>0 DEF Inv, TypeOK
    <3> QED BY <3>1, <3>2
  <2> QED BY <2>1, <2>2 DEF Inv, TypeOK, LoopStates
<1>2. ArrivalInv'
    BY DEF Inv, ArrivalInv, HoldingMessage
<1>3. NoOrphanEntry' /\ PanicInv'
    BY OwnersKept
<1>4. SlotsExact'
    BY SlotsKept
<1> QED BY <1>1, <1>2, <1>3, <1>4 DEF Inv

LEMMA StopClearStep ==
    ASSUME Inv, StopClear
    PROVE  Inv'
<1> USE DEF StopClear, MainGoto, turnVars
<1>0. Held \in Msgs /\ HeldSession \in Sessions
    BY DEF Inv, TypeOK, ArrivalInv, HoldingMessage, Held, HeldSession
<1>1. TypeOK'
  <2>1. /\ queue' \in [Sessions -> Seq(Msgs)]
        /\ \A s \in Sessions : Len(queue'[s]) <= QueueCap
    BY <1>0, BoundsAssumption DEF Inv, TypeOK
  <2> QED BY <2>1 DEF Inv, TypeOK, LoopStates
<1>2. ArrivalInv'
    BY DEF Inv, ArrivalInv, HoldingMessage
<1>3. NoOrphanEntry' /\ PanicInv'
    BY OwnersKept
<1>4. SlotsExact'
    BY SlotsKept
<1> QED BY <1>1, <1>2, <1>3, <1>4 DEF Inv

LEMMA StopLoadStep ==
    ASSUME Inv, StopLoad
    PROVE  Inv'
<1> USE DEF StopLoad, MainGoto, turnVars
<1>0. Held \in Msgs /\ HeldSession \in Sessions
    BY DEF Inv, TypeOK, ArrivalInv, HoldingMessage, Held, HeldSession
<1>1. TypeOK'
  <2>1. abort' \in [Msgs -> BOOLEAN]
    BY <1>0, TurnOwner DEF Inv, TypeOK, HardAbort
  <2>2. main' \in [at : LoopStates, cleared : BOOLEAN]
    BY DEF LoopStates
  <2> QED BY <2>1, <2>2 DEF Inv, TypeOK
<1>2. ArrivalInv'
    BY DEF Inv, ArrivalInv, HoldingMessage
<1>3. NoOrphanEntry' /\ PanicInv'
    BY OwnersKept
<1>4. SlotsExact'
    BY SlotsKept
<1> QED BY <1>1, <1>2, <1>3, <1>4 DEF Inv

LEMMA StopCheckStep ==
    ASSUME Inv, StopCheck
    PROVE  Inv'
<1> USE DEF StopCheck, MainGoto, turnVars
<1>1. TypeOK'
    BY DEF Inv, TypeOK, LoopStates
<1>2. ArrivalInv'
    BY DEF Inv, ArrivalInv, HoldingMessage
<1>3. NoOrphanEntry' /\ PanicInv'
    BY OwnersKept
<1>4. SlotsExact'
    BY SlotsKept
<1> QED BY <1>1, <1>2, <1>3, <1>4 DEF Inv

LEMMA StopMarkStep ==
    ASSUME Inv, StopMark
    PROVE  Inv'
<1> USE DEF StopMark, MainGoto, turnVars
<1>0. Held \in Msgs /\ HeldSession \in Sessions
    BY DEF Inv, TypeOK, ArrivalInv, HoldingMessage, Held, HeldSession
<1>1. TypeOK'
    BY <1>0 DEF Inv, TypeOK, LoopStates, Msgs
<1>2. ArrivalInv'
    BY DEF Inv, ArrivalInv, HoldingMessage
<1>3. NoOrphanEntry' /\ PanicInv'
    BY OwnersKept
<1>4. SlotsExact'
    BY SlotsKept
<1> QED BY <1>1, <1>2, <1>3, <1>4 DEF Inv

LEMMA LeaveStep ==
    ASSUME Inv, Leave
    PROVE  Inv'
<1> USE DEF Leave, MainGoto, turnVars
<1>1. TypeOK'
    BY DEF Inv, TypeOK, LoopStates
<1>2. ArrivalInv'
    BY DEF Inv, ArrivalInv, HoldingMessage
<1>3. NoOrphanEntry' /\ PanicInv'
    BY OwnersKept
<1>4. SlotsExact'
    BY SlotsKept
<1> QED BY <1>1, <1>2, <1>3, <1>4 DEF Inv

LEMMA ShutdownStep ==
    ASSUME Inv, NEW how \in {"stop", "cancel"}, Shutdown(how)
    PROVE  Inv'
<1> USE DEF Shutdown, turnVars
<1>1. TypeOK'
    BY DEF Inv, TypeOK
<1>2. ArrivalInv' /\ NoOrphanEntry' /\ PanicInv' /\ SlotsExact'
    BY OwnersKept, SlotsKept DEF Inv, ArrivalInv
<1> QED BY <1>1, <1>2 DEF Inv

-----------------------------------------------------------------------------
(* The workers                                                             *)

\* A worker that runs has a session, and its message has arrived.
LEMMA WorkerMoves ==
    ASSUME Inv, NEW w \in Msgs, NEW l \in WorkerStates,
           pc[w] # "none", Goto(w, l), UNCHANGED <<main, nMsgs>>
    PROVE  /\ pc' \in [Msgs -> WorkerStates]
           /\ ArrivalInv'
           /\ sess[w] \in Sessions
BY DEF Inv, TypeOK, ArrivalInv, Goto

LEMMA SlotsStay ==
    ASSUME Inv, NEW w \in Msgs, NEW l, Goto(w, l), slots' = slots,
           pc[w] \in Holding <=> l \in Holding
    PROVE  SlotsExact'
BY SlotsKept DEF Inv, TypeOK, Goto

\* A worker moves while the entries stay: only an entry of its own matters.
LEMMA OwnersAfterMove ==
    ASSUME Inv, NEW w \in Msgs, NEW l, Goto(w, l), UNCHANGED <<sess, active>>,
           \A v \in Msgs \ {w} : outcome'[v] = outcome[v],
           active[sess[w]] = Placeholder(w) => l \notin {"none", "done"},
           active[sess[w]] = Continuation(w) =>
               l \in {"take", "register"} \/ outcome'[w] = "panic",
           active[sess[w]] = Turn(w) => l \in {"checkStop", "turn", "clear", "clearDelete"}
    PROVE  NoOrphanEntry'
<1>1. \A v \in Msgs \ {w} : pc'[v] = pc[v]
    BY DEF Goto, Inv, TypeOK
<1>2. pc'[w] = l
    BY DEF Goto, Inv, TypeOK
<1> SUFFICES ASSUME NEW s \in Sessions, NEW v \in Msgs
             PROVE  /\ active[s] \in {Placeholder(v), Continuation(v), Turn(v)} => sess[v] = s
                    /\ active[s] = Placeholder(v) => pc'[v] \notin {"none", "done"}
                    /\ active[s] = Continuation(v) =>
                          pc'[v] \in {"take", "register"} \/ outcome'[v] = "panic"
                    /\ active[s] = Turn(v) =>
                          pc'[v] \in {"checkStop", "turn", "clear", "clearDelete"}
    BY DEF NoOrphanEntry, Placeholder, Continuation, Turn
<1>3. CASE v = w
    BY <1>2, <1>3 DEF Inv, NoOrphanEntry
<1>4. CASE v # w
    BY <1>1, <1>4 DEF Inv, NoOrphanEntry
<1> QED BY <1>3, <1>4

\* A worker deletes the entry of its session, whoever owns it.
LEMMA OwnersAfterDelete ==
    ASSUME Inv, NEW w \in Msgs, NEW l, Goto(w, l), SetEntry(w, NoEntry), UNCHANGED sess,
           outcome' = outcome
    PROVE  NoOrphanEntry' /\ active' \in [Sessions -> Entries]
<1>0. sess[w] \in Sessions
    BY DEF Inv, TypeOK
<1>1. active' \in [Sessions -> Entries] /\ active'[sess[w]] = NoEntry
    BY <1>0, EntryKinds DEF Inv, TypeOK, SetEntry
<1>2. \A s \in Sessions \ {sess[w]} : active'[s] = active[s]
    BY DEF Inv, TypeOK, SetEntry
<1>3. \A v \in Msgs \ {w} : pc'[v] = pc[v]
    BY DEF Goto, Inv, TypeOK
<1> QED BY <1>0, <1>1, <1>2, <1>3, EntryKinds DEF Inv, NoOrphanEntry

\* A worker replaces the entry of its session by one of its own.
LEMMA OwnersAfterSet ==
    ASSUME Inv, NEW w \in Msgs, NEW l, NEW e, Goto(w, l), SetEntry(w, e), UNCHANGED sess,
           \A v \in Msgs \ {w} : outcome'[v] = outcome[v],
           \/ e = Continuation(w) /\ l = "take"
           \/ e = Turn(w) /\ l = "checkStop"
    PROVE  NoOrphanEntry' /\ active' \in [Sessions -> Entries]
<1>0. sess[w] \in Sessions
    BY DEF Inv, TypeOK
<1>1. active' \in [Sessions -> Entries] /\ active'[sess[w]] = e
    BY <1>0, EntryKinds DEF Inv, TypeOK, SetEntry
<1>2. \A s \in Sessions \ {sess[w]} : active'[s] = active[s]
    BY DEF Inv, TypeOK, SetEntry
<1>3. pc'[w] = l /\ \A v \in Msgs \ {w} : pc'[v] = pc[v]
    BY DEF Goto, Inv, TypeOK
<1> QED BY <1>0, <1>1, <1>2, <1>3, EntryKinds DEF Inv, NoOrphanEntry

\* The worker gets a slot.
LEMMA AcquireStep ==
    ASSUME Inv, NEW w \in Msgs, Acquire(w)
    PROVE  Inv'
<1> USE DEF Acquire, SlotFree, loopVars, turnVars
<1>0. "begin" \in WorkerStates /\ "begin" \in Holding /\ "acquire" \notin Holding
    BY DEF WorkerStates, Holding
<1>1. TypeOK' /\ ArrivalInv'
    BY <1>0, WorkerMoves, SlotsAssumption DEF Inv, TypeOK
<1>2. PanicInv'
    BY DEF Inv, TypeOK, PanicInv, Goto
<1>3. NoOrphanEntry'
    BY OwnersAfterMove DEF Inv, NoOrphanEntry, TypeOK
<1>4. SlotsExact'
  <2>1. Busy' = Busy \cup {w} /\ w \notin Busy
    BY <1>0 DEF Inv, TypeOK, Busy, Goto
  <2>2. Cardinality(Busy') = Cardinality(Busy) + 1
    BY <2>1, BusyFinite, FS_AddElement
  <2> QED BY <2>2, SlotsAssumption, BusyFinite DEF Inv, TypeOK, SlotsExact, Busy
<1> QED BY <1>1, <1>2, <1>3, <1>4 DEF Inv

\* The worker gives its slot back.
LEMMA ExitStep ==
    ASSUME Inv, NEW w \in Msgs, Exit(w)
    PROVE  Inv'
<1> USE DEF Exit, SlotsAfter, loopVars
<1>0. "cleanup" \in WorkerStates /\ "cleanup" \notin Holding /\ "exit" \in Holding
    BY DEF WorkerStates, Holding
<1>1. outcome' \in [Msgs -> Outcomes] /\ (outcome'[w] = "panic" <=> outcome[w] = "panic")
    BY DEF Inv, TypeOK, Outcomes
<1>2. SlotsExact' /\ slots' \in 0 .. Slots
  <2>1. Busy' = Busy \ {w} /\ w \in Busy
    BY <1>0 DEF Inv, TypeOK, Busy, Goto
  <2>2. Cardinality(Busy') = Cardinality(Busy) - 1
    BY <2>1, BusyFinite, FS_RemoveElement
  <2>3. IsFiniteSet(Busy') /\ Cardinality(Busy') \in Nat
    BY <2>1, BusyFinite, FS_RemoveElement, FS_CardinalityType
  <2>4. slots = Cardinality(Busy) /\ slots \in 0 .. Slots
    BY DEF Inv, TypeOK, SlotsExact, Busy
  <2> QED BY <2>2, <2>3, <2>4, SlotsAssumption DEF SlotsExact, Busy
<1>3. TypeOK' /\ ArrivalInv'
    BY <1>0, <1>1, <1>2, WorkerMoves DEF Inv, TypeOK
<1>4. PanicInv'
    BY <1>0, <1>1 DEF Inv, TypeOK, PanicInv, Goto
<1>5. NoOrphanEntry'
    BY ZenonT(20), <1>1, OwnersAfterMove DEF Inv, NoOrphanEntry, TypeOK
<1> QED BY <1>2, <1>3, <1>4, <1>5 DEF Inv

\* A poll of a session's queue keeps it a queue.
LEMMA PolledQueue ==
    ASSUME Inv, NEW s \in Sessions, queue[s] # <<>> => queue' = [queue EXCEPT ![s] = Remaining(@)],
           queue[s] = <<>> => queue' = queue
    PROVE  /\ queue' \in [Sessions -> Seq(Msgs)]
           /\ \A t \in Sessions : Len(queue'[t]) <= QueueCap
<1>1. CASE queue[s] = <<>>
    BY <1>1 DEF Inv, TypeOK
<1>2. CASE queue[s] # <<>>
  <2>1. Remaining(queue[s]) \in Seq(Msgs) /\ Len(Remaining(queue[s])) <= Len(queue[s])
    BY <1>2, PollShortens DEF Inv, TypeOK
  <2>2. Len(Remaining(queue[s])) <= QueueCap
    BY <2>1, BoundsAssumption DEF Inv, TypeOK
  <2>3. queue' = [queue EXCEPT ![s] = Remaining(queue[s])]
    BY <1>2
  <2> QED BY <2>1, <2>2, <2>3 DEF Inv, TypeOK
<1> QED BY <1>1, <1>2

\* What the invariant says of a worker whose own entry its session has.
LEMMA OwnEntry ==
    ASSUME Inv, NEW w \in Msgs
    PROVE  /\ active[sess[w]] = Placeholder(w) => pc[w] \notin {"none", "done"}
           /\ active[sess[w]] = Continuation(w) =>
                 \/ pc[w] \in {"take", "register"}
                 \/ /\ outcome[w] = "panic"
                    /\ pc[w] \in {"clear", "clearDelete", "exit", "cleanup",
                                  "cleanupDelete", "done"}
           /\ active[sess[w]] = Turn(w) =>
                 pc[w] \in {"checkStop", "turn", "clear", "clearDelete"}
BY DEF Inv, TypeOK, NoOrphanEntry, PanicInv

LEMMA TurnPollStep ==
    ASSUME Inv, NEW w \in Msgs, TurnPoll(w)
    PROVE  Inv'
<1> USE DEF TurnPoll, loopVars, turnVars
<1>1. sess[w] \in Sessions
    BY DEF Inv, TypeOK
<1>2. TypeOK'
    BY <1>1, PolledQueue DEF Inv, TypeOK
<1>3. ArrivalInv' /\ NoOrphanEntry' /\ PanicInv' /\ SlotsExact'
    BY OwnersKept, SlotsKept DEF Inv, ArrivalInv
<1> QED BY <1>2, <1>3 DEF Inv

LEMMA AcquireCanceledStep ==
    ASSUME Inv, NEW w \in Msgs, AcquireCanceled(w)
    PROVE  Inv'
<1> USE DEF AcquireCanceled, loopVars, turnVars
<1>0. PICK l \in {"done"} : Goto(w, l)
    OBVIOUS
<1>a. l \in WorkerStates /\ pc[w] # "none"
    BY DEF WorkerStates, Holding
<1>b. pc' \in [Msgs -> WorkerStates] /\ ArrivalInv' /\ sess[w] \in Sessions
    BY <1>0, <1>a, WorkerMoves
<1>1. TypeOK'
    BY <1>0, <1>b, OwnersAfterDelete DEF Inv, TypeOK
<1>2. PanicInv'
    BY <1>0 DEF Inv, TypeOK, PanicInv, Goto
<1>3. NoOrphanEntry'
    BY <1>0, OwnersAfterDelete
<1>4. SlotsExact'
    BY <1>0, SlotsStay DEF Holding
<1> QED BY <1>1, <1>2, <1>3, <1>4, <1>b DEF Inv

LEMMA BeginStep ==
    ASSUME Inv, NEW w \in Msgs, Begin(w)
    PROVE  Inv'
<1> USE DEF Begin, loopVars, turnVars
<1>0. PICK l \in {"unclaim", "process"} : Goto(w, l)
    BY DEF AfterTurn, AfterRefusal
<1>a. l \in WorkerStates /\ pc[w] # "none"
    BY DEF WorkerStates, Holding
<1>b. pc' \in [Msgs -> WorkerStates] /\ ArrivalInv' /\ sess[w] \in Sessions
    BY <1>0, <1>a, WorkerMoves
<1>1. TypeOK'
  <2>1. 0 \in 0 .. MaxMsgs /\ pendingStop[sess[w]] \in 0 .. MaxMsgs
    BY <1>b, BoundsAssumption DEF Inv, TypeOK
  <2>2. /\ pendingStop' \in [Sessions -> 0 .. MaxMsgs]
        /\ stoppedBy' \in [Msgs -> 0 .. MaxMsgs]
    BY <2>1 DEF Inv, TypeOK
  <2> QED BY <1>b, <2>2 DEF Inv, TypeOK
<1>2. PanicInv'
    BY <1>0 DEF Inv, TypeOK, PanicInv, Goto
<1>3. NoOrphanEntry'
    BY <1>0, OwnEntry, OwnersAfterMove
<1>4. SlotsExact'
    BY <1>0, SlotsStay DEF Holding
<1> QED BY <1>1, <1>2, <1>3, <1>4, <1>b DEF Inv

LEMMA UnclaimStep ==
    ASSUME Inv, NEW w \in Msgs, Unclaim(w)
    PROVE  Inv'
<1> USE DEF Unclaim, loopVars, turnVars
<1>0. PICK l \in {"drain"} : Goto(w, l)
    OBVIOUS
<1>a. l \in WorkerStates /\ pc[w] # "none"
    BY DEF WorkerStates, Holding
<1>b. pc' \in [Msgs -> WorkerStates] /\ ArrivalInv' /\ sess[w] \in Sessions
    BY <1>0, <1>a, WorkerMoves
<1>1. TypeOK'
    BY <1>0, <1>b, OwnersAfterDelete DEF Inv, TypeOK
<1>2. PanicInv'
    BY <1>0 DEF Inv, TypeOK, PanicInv, Goto
<1>3. NoOrphanEntry'
    BY <1>0, OwnersAfterDelete
<1>4. SlotsExact'
    BY <1>0, SlotsStay DEF Holding
<1> QED BY <1>1, <1>2, <1>3, <1>4, <1>b DEF Inv

LEMMA ProcessStep ==
    ASSUME Inv, NEW w \in Msgs, Process(w)
    PROVE  Inv'
<1> USE DEF Process, loopVars, turnVars
<1>0. PICK l \in {"register", "drain", "stopping", "exit"} : Goto(w, l)
    BY DEF AfterTurn, AfterRefusal
<1>a. l \in WorkerStates /\ pc[w] # "none"
    BY DEF WorkerStates, Holding
<1>b. pc' \in [Msgs -> WorkerStates] /\ ArrivalInv' /\ sess[w] \in Sessions
    BY <1>0, <1>a, WorkerMoves
<1>c. \/ outcome' = outcome
      \/ outcome' = [outcome EXCEPT ![w] = "panic"] /\ Goto(w, "exit")
    OBVIOUS
<1>d. \A v \in Msgs \ {w} : outcome'[v] = outcome[v]
    BY <1>c DEF Inv, TypeOK
<1>1. TypeOK'
  <2>0. queue' \in {queue, [queue EXCEPT ![sess[w]] = <<>>]}
    OBVIOUS
  <2> HIDE DEF Process
  <2>1. /\ queue' \in [Sessions -> Seq(Msgs)]
        /\ \A s \in Sessions : Len(queue'[s]) <= QueueCap
    <3>1. <<>> \in Seq(Msgs) /\ Len(<<>>) <= QueueCap
        BY BoundsAssumption
    <3>2. CASE queue' = queue
        BY <3>2 DEF Inv, TypeOK
    <3>3. CASE queue' = [queue EXCEPT ![sess[w]] = <<>>]
        BY <1>b, <3>1, <3>3 DEF Inv, TypeOK
    <3> QED BY <2>0, <3>2, <3>3
  <2> USE DEF Process
  <2>2. outcome' \in [Msgs -> Outcomes]
    BY DEF Inv, TypeOK, Outcomes
  <2> QED BY <1>b, <2>1, <2>2 DEF Inv, TypeOK
<1>2. PanicInv'
    BY <1>0, <1>c DEF Inv, TypeOK, PanicInv, Goto
<1>3. NoOrphanEntry'
    BY <1>0, <1>d, OwnEntry, OwnersAfterMove
<1>4. SlotsExact'
    BY <1>0, SlotsStay DEF Holding
<1> QED BY <1>1, <1>2, <1>3, <1>4, <1>b DEF Inv

LEMMA ProcessStopStep ==
    ASSUME Inv, NEW w \in Msgs, ProcessStop(w)
    PROVE  Inv'
<1> USE DEF ProcessStop, loopVars, turnVars
<1>0. PICK l \in {"drain"} : Goto(w, l)
    OBVIOUS
<1>a. l \in WorkerStates /\ pc[w] # "none"
    BY DEF WorkerStates, Holding
<1>b. pc' \in [Msgs -> WorkerStates] /\ ArrivalInv' /\ sess[w] \in Sessions
    BY <1>0, <1>a, WorkerMoves
<1>1. TypeOK'
  <2>1. abort' \in [Msgs -> BOOLEAN]
    BY <1>b, TurnOwner DEF Inv, TypeOK, HardAbort
  <2> QED BY <1>b, <2>1 DEF Inv, TypeOK
<1>2. PanicInv'
    BY <1>0 DEF Inv, TypeOK, PanicInv, Goto
<1>3. NoOrphanEntry'
    BY <1>0, OwnEntry, OwnersAfterMove
<1>4. SlotsExact'
    BY <1>0, SlotsStay DEF Holding
<1> QED BY <1>1, <1>2, <1>3, <1>4, <1>b DEF Inv

\* registerActiveTurn: whatever entry was there, it is now the turn's.
LEMMA RegisterStep ==
    ASSUME Inv, NEW w \in Msgs, Register(w)
    PROVE  Inv'
<1> USE DEF Register, loopVars, turnVars
<1>0. PICK l \in {"checkStop"} : Goto(w, l)
    OBVIOUS
<1>a. l \in WorkerStates /\ pc[w] # "none"
    BY DEF WorkerStates, Holding
<1>b. pc' \in [Msgs -> WorkerStates] /\ ArrivalInv' /\ sess[w] \in Sessions
    BY <1>0, <1>a, WorkerMoves
<1>c. \A v \in Msgs \ {w} : outcome'[v] = outcome[v]
    BY DEF Inv, TypeOK
<1>d. NoOrphanEntry' /\ active' \in [Sessions -> Entries]
    BY <1>0, <1>c, OwnersAfterSet
<1>1. TypeOK'
    BY <1>b, <1>d DEF Inv, TypeOK, Outcomes
<1>2. PanicInv'
    BY <1>0 DEF Inv, TypeOK, PanicInv, Goto
<1>3. NoOrphanEntry'
    BY <1>d
<1>4. SlotsExact'
    BY <1>0, SlotsStay DEF Holding
<1> QED BY <1>1, <1>2, <1>3, <1>4, <1>b DEF Inv

LEMMA RegisterPanicStep ==
    ASSUME Inv, NEW w \in Msgs, RegisterPanic(w)
    PROVE  Inv'
<1> USE DEF RegisterPanic, loopVars, turnVars
<1>0. PICK l \in {"exit"} : Goto(w, l)
    OBVIOUS
<1>a. l \in WorkerStates /\ pc[w] # "none"
    BY DEF WorkerStates, Holding
<1>b. pc' \in [Msgs -> WorkerStates] /\ ArrivalInv' /\ sess[w] \in Sessions
    BY <1>0, <1>a, WorkerMoves
<1>c. /\ outcome'[w] = "panic"
      /\ \A v \in Msgs \ {w} : outcome'[v] = outcome[v]
    BY DEF Inv, TypeOK
<1>1. TypeOK'
    BY <1>b DEF Inv, TypeOK, Outcomes
<1>2. PanicInv'
    BY <1>0 DEF Inv, TypeOK, PanicInv, Goto
<1>3. NoOrphanEntry'
    BY <1>0, <1>c, OwnEntry, OwnersAfterMove
<1>4. SlotsExact'
    BY <1>0, SlotsStay DEF Holding
<1> QED BY <1>1, <1>2, <1>3, <1>4, <1>b DEF Inv

LEMMA CheckStopStep ==
    ASSUME Inv, NEW w \in Msgs, CheckStop(w)
    PROVE  Inv'
<1> USE DEF CheckStop, loopVars, turnVars
<1>0. PICK l \in {"turn"} : Goto(w, l)
    OBVIOUS
<1>a. l \in WorkerStates /\ pc[w] # "none"
    BY DEF WorkerStates, Holding
<1>b. pc' \in [Msgs -> WorkerStates] /\ ArrivalInv' /\ sess[w] \in Sessions
    BY <1>0, <1>a, WorkerMoves
<1>1. TypeOK'
  <2>1. 0 \in 0 .. MaxMsgs /\ pendingStop[sess[w]] \in 0 .. MaxMsgs
    BY <1>b, BoundsAssumption DEF Inv, TypeOK
  <2>2. /\ pendingStop' \in [Sessions -> 0 .. MaxMsgs]
        /\ stoppedBy' \in [Msgs -> 0 .. MaxMsgs]
        /\ abort' \in [Msgs -> BOOLEAN]
    BY ZenonT(20), <2>1 DEF Inv, TypeOK
  <2> QED BY <1>b, <2>2 DEF Inv, TypeOK
<1>2. PanicInv'
    BY <1>0 DEF Inv, TypeOK, PanicInv, Goto
<1>3. NoOrphanEntry'
    BY <1>0, OwnEntry, OwnersAfterMove
<1>4. SlotsExact'
    BY <1>0, SlotsStay DEF Holding
<1> QED BY <1>1, <1>2, <1>3, <1>4, <1>b DEF Inv

LEMMA TurnEndStep ==
    ASSUME Inv, NEW w \in Msgs, NEW o \in Outcomes \ {"none"}, TurnEnd(w, o)
    PROVE  Inv'
<1> USE DEF TurnEnd, loopVars, turnVars
<1>0. PICK l \in {"clear"} : Goto(w, l)
    OBVIOUS
<1>a. l \in WorkerStates /\ pc[w] # "none"
    BY DEF WorkerStates, Holding
<1>b. pc' \in [Msgs -> WorkerStates] /\ ArrivalInv' /\ sess[w] \in Sessions
    BY <1>0, <1>a, WorkerMoves
<1>c. \A v \in Msgs \ {w} : outcome'[v] = outcome[v]
    BY DEF Inv, TypeOK
<1>1. TypeOK'
    BY <1>b DEF Inv, TypeOK
<1>2. PanicInv'
    BY <1>0 DEF Inv, TypeOK, PanicInv, Goto
<1>3. NoOrphanEntry'
  <2>1. active[sess[w]] # Continuation(w)
    BY <1>b DEF Inv, NoOrphanEntry, PanicInv
  <2> QED BY <1>0, <1>c, <2>1, OwnersAfterMove DEF Inv, NoOrphanEntry
<1>4. SlotsExact'
    BY <1>0, SlotsStay DEF Holding
<1> QED BY <1>1, <1>2, <1>3, <1>4, <1>b DEF Inv

LEMMA ClearStep ==
    ASSUME Inv, NEW w \in Msgs, Clear(w)
    PROVE  Inv'
<1> USE DEF Clear, loopVars, turnVars
<1>0. PICK l \in {"clearDelete", "exit", "drain"} : Goto(w, l)
    BY DEF AfterTurn, AfterRefusal
<1>a. l \in WorkerStates /\ pc[w] # "none"
    BY DEF WorkerStates, Holding
<1>b. pc' \in [Msgs -> WorkerStates] /\ ArrivalInv' /\ sess[w] \in Sessions
    BY <1>0, <1>a, WorkerMoves
<1>c. /\ active[sess[w]] = Turn(w) => l = "clearDelete"
      /\ outcome[w] = "panic" => l \in {"clearDelete", "exit"}
  <2>1. Goto(w, l) => l = pc'[w]
    BY DEF Inv, TypeOK, Goto
  <2>2. Goto(w, "clearDelete") => pc'[w] = "clearDelete"
    BY DEF Inv, TypeOK, Goto
  <2>3. Goto(w, AfterTurn(w)) => pc'[w] = AfterTurn(w)
    BY DEF Inv, TypeOK, Goto
  <2>4. CASE active[sess[w]] = Turn(w)
    BY <1>0, <2>1, <2>2, <2>4
  <2>5. CASE active[sess[w]] # Turn(w)
    BY <1>0, <2>1, <2>3, <2>5 DEF AfterTurn
  <2> QED BY <2>4, <2>5
<1>1. TypeOK'
    BY <1>b DEF Inv, TypeOK
<1>2. PanicInv'
    BY <1>0, <1>c DEF Inv, TypeOK, PanicInv, Goto
<1>3. NoOrphanEntry'
    BY <1>0, <1>c, OwnEntry, OwnersAfterMove
<1>4. SlotsExact'
    BY <1>0, SlotsStay DEF Holding
<1> QED BY <1>1, <1>2, <1>3, <1>4, <1>b DEF Inv

LEMMA ClearDeleteStep ==
    ASSUME Inv, NEW w \in Msgs, ClearDelete(w)
    PROVE  Inv'
<1> USE DEF ClearDelete, loopVars, turnVars
<1>0. PICK l \in {"exit", "drain"} : Goto(w, l)
    BY DEF AfterTurn, AfterRefusal
<1>a. l \in WorkerStates /\ pc[w] # "none"
    BY DEF WorkerStates, Holding
<1>b. pc' \in [Msgs -> WorkerStates] /\ ArrivalInv' /\ sess[w] \in Sessions
    BY <1>0, <1>a, WorkerMoves
<1>1. TypeOK'
    BY <1>0, <1>b, OwnersAfterDelete DEF Inv, TypeOK
<1>2. PanicInv'
  <2>1. outcome[w] = "panic" => pc'[w] = "exit"
    BY DEF Inv, TypeOK, Goto, AfterTurn
  <2>2. \A v \in Msgs \ {w} : pc'[v] = pc[v]
    BY <1>0 DEF Inv, TypeOK, Goto
  <2> QED BY <2>1, <2>2 DEF Inv, PanicInv
<1>3. NoOrphanEntry'
    BY <1>0, OwnersAfterDelete
<1>4. SlotsExact'
    BY <1>0, SlotsStay DEF Holding
<1> QED BY <1>1, <1>2, <1>3, <1>4, <1>b DEF Inv

LEMMA DrainStep ==
    ASSUME Inv, NEW w \in Msgs, Drain(w)
    PROVE  Inv'
<1> USE DEF Drain, loopVars, turnVars
<1>0. PICK l \in {"exit", "continue"} : Goto(w, l)
    BY DEF AfterTurn, AfterRefusal
<1>a. l \in WorkerStates /\ pc[w] # "none"
    BY DEF WorkerStates, Holding
<1>b. pc' \in [Msgs -> WorkerStates] /\ ArrivalInv' /\ sess[w] \in Sessions
    BY <1>0, <1>a, WorkerMoves
<1>1. TypeOK'
    BY <1>b DEF Inv, TypeOK
<1>2. PanicInv'
    BY <1>0 DEF Inv, TypeOK, PanicInv, Goto
<1>3. NoOrphanEntry'
    BY <1>0, OwnEntry, OwnersAfterMove
<1>4. SlotsExact'
    BY <1>0, SlotsStay DEF Holding
<1> QED BY <1>1, <1>2, <1>3, <1>4, <1>b DEF Inv

LEMMA ContinueStep ==
    ASSUME Inv, NEW w \in Msgs, Continue(w)
    PROVE  Inv'
<1> USE DEF Continue, loopVars, turnVars
<1>0. PICK l \in {"take", "exit"} : Goto(w, l)
    BY DEF AfterTurn, AfterRefusal
<1>a. l \in WorkerStates /\ pc[w] # "none"
    BY DEF WorkerStates, Holding
<1>b. pc' \in [Msgs -> WorkerStates] /\ ArrivalInv' /\ sess[w] \in Sessions
    BY <1>0, <1>a, WorkerMoves
<1>c. NoOrphanEntry' /\ active' \in [Sessions -> Entries]
  <2>1. CASE active[sess[w]] = NoEntry
    BY <2>1, OwnersAfterSet
  <2>2. CASE active[sess[w]] # NoEntry
    BY <2>2, OwnersAfterMove DEF Inv, TypeOK, NoOrphanEntry, AfterRefusal
  <2> QED BY <2>1, <2>2
<1>1. TypeOK'
    BY <1>b, <1>c DEF Inv, TypeOK
<1>2. PanicInv'
    BY <1>0 DEF Inv, TypeOK, PanicInv, Goto
<1>3. NoOrphanEntry'
    BY <1>c
<1>4. SlotsExact'
    BY <1>0, SlotsStay DEF Holding
<1> QED BY <1>1, <1>2, <1>3, <1>4, <1>b DEF Inv

LEMMA TakeStep ==
    ASSUME Inv, NEW w \in Msgs, Take(w)
    PROVE  Inv'
<1> USE DEF Take, loopVars, turnVars
<1>0. PICK l \in {"exit", "register"} : Goto(w, l)
    BY DEF AfterTurn, AfterRefusal
<1>a. l \in WorkerStates /\ pc[w] # "none"
    BY DEF WorkerStates, Holding
<1>b. pc' \in [Msgs -> WorkerStates] /\ ArrivalInv' /\ sess[w] \in Sessions
    BY <1>0, <1>a, WorkerMoves
<1>c. NoOrphanEntry' /\ active' \in [Sessions -> Entries]
  <2>1. CASE queue[sess[w]] = <<>>
    BY <2>1, OwnersAfterDelete
  <2>2. CASE queue[sess[w]] # <<>>
    BY <2>2, OwnersAfterMove DEF Inv, TypeOK, NoOrphanEntry
  <2> QED BY <2>1, <2>2
<1>1. TypeOK'
  <2>1. /\ queue' \in [Sessions -> Seq(Msgs)]
        /\ \A s \in Sessions : Len(queue'[s]) <= QueueCap
    BY <1>b, PolledQueue
  <2> QED BY <1>b, <1>c, <2>1 DEF Inv, TypeOK
<1>2. PanicInv'
    BY <1>0 DEF Inv, TypeOK, PanicInv, Goto
<1>3. NoOrphanEntry'
    BY <1>c
<1>4. SlotsExact'
    BY <1>0, SlotsStay DEF Holding
<1> QED BY <1>1, <1>2, <1>3, <1>4, <1>b DEF Inv

\* A worker leaves without deleting only when the entry is not its placeholder.
LEMMA CleanupStep ==
    ASSUME Inv, NEW w \in Msgs, Cleanup(w)
    PROVE  Inv'
<1> USE DEF Cleanup, loopVars, turnVars
<1>0. PICK l \in {"cleanupDelete", "done"} : Goto(w, l)
    BY DEF AfterTurn, AfterRefusal
<1>a. l \in WorkerStates /\ pc[w] # "none"
    BY DEF WorkerStates, Holding
<1>b. pc' \in [Msgs -> WorkerStates] /\ ArrivalInv' /\ sess[w] \in Sessions
    BY <1>0, <1>a, WorkerMoves
<1>1. TypeOK'
    BY <1>b DEF Inv, TypeOK
<1>2. PanicInv'
    BY <1>0 DEF Inv, TypeOK, PanicInv, Goto
<1>3. NoOrphanEntry'
  <2>1. active[sess[w]] = Placeholder(w) => MustClean(w)
    BY PendingKinds DEF MustClean
  <2>2. active[sess[w]] = Continuation(w) => outcome[w] = "panic"
    BY <1>b DEF Inv, NoOrphanEntry
  <2>3. active[sess[w]] # Turn(w)
    BY <1>b DEF Inv, NoOrphanEntry
  <2>4. CASE MustClean(w)
    BY <2>2, <2>3, <2>4, OwnersAfterMove
  <2>5. CASE ~MustClean(w)
    BY <2>1, <2>2, <2>3, <2>5, OwnersAfterMove
  <2> QED BY <2>4, <2>5
<1>4. SlotsExact'
    BY <1>0, SlotsStay DEF Holding
<1> QED BY <1>1, <1>2, <1>3, <1>4, <1>b DEF Inv

LEMMA CleanupDeleteStep ==
    ASSUME Inv, NEW w \in Msgs, CleanupDelete(w)
    PROVE  Inv'
<1> USE DEF CleanupDelete, loopVars, turnVars
<1>0. PICK l \in {"done"} : Goto(w, l)
    OBVIOUS
<1>a. l \in WorkerStates /\ pc[w] # "none"
    BY DEF WorkerStates, Holding
<1>b. pc' \in [Msgs -> WorkerStates] /\ ArrivalInv' /\ sess[w] \in Sessions
    BY <1>0, <1>a, WorkerMoves
<1>1. TypeOK'
    BY <1>0, <1>b, OwnersAfterDelete DEF Inv, TypeOK
<1>2. PanicInv'
    BY <1>0 DEF Inv, TypeOK, PanicInv, Goto
<1>3. NoOrphanEntry'
    BY <1>0, OwnersAfterDelete
<1>4. SlotsExact'
    BY <1>0, SlotsStay DEF Holding
<1> QED BY <1>1, <1>2, <1>3, <1>4, <1>b DEF Inv

-----------------------------------------------------------------------------
\* Every step preserves the invariant.
LEMMA NextInv == Inv /\ [Next]_vars => Inv'
<1> SUFFICES ASSUME Inv, [Next]_vars PROVE Inv'
    OBVIOUS
<1>1. CASE UNCHANGED vars
  <2>1. TypeOK' /\ ArrivalInv'
    BY <1>1 DEF vars, Inv, TypeOK, ArrivalInv
  <2> QED BY <1>1, <2>1, OwnersKept, SlotsKept DEF vars, Inv
<1>2. ASSUME NEW s \in Sessions, NEW k \in Kinds, Receive(s, k) PROVE Inv'
    BY <1>2, ReceiveStep
<1>3. CASE MainStep
    BY <1>3, SystemDoneStep, EnqueueStep, StopClearStep, StopLoadStep, StopCheckStep,
       StopMarkStep, LeaveStep DEF MainStep
<1>4. ASSUME NEW w \in Msgs, WorkerStep(w) PROVE Inv'
    BY <1>4, AcquireStep, AcquireCanceledStep, BeginStep, UnclaimStep, ProcessStep,
       ProcessStopStep, RegisterStep, RegisterPanicStep, CheckStopStep, TurnPollStep,
       TurnEndStep, ClearStep, ClearDeleteStep, DrainStep, ContinueStep, TakeStep,
       ExitStep, CleanupStep, CleanupDeleteStep
    DEF WorkerStep
<1> QED BY <1>1, <1>2, <1>3, <1>4, ReceiveSystemStep, ShutdownStep DEF Next

LEMMA Invariance == Spec => []Inv
<1>1. Inv /\ [Next]_vars => Inv'
    BY NextInv
<1> QED BY <1>1, InitInv, PTL DEF Spec

-----------------------------------------------------------------------------
(* The theorems                                                            *)

\* The dispatcher is type correct; no steering queue exceeds MaxQueueSize.
THEOREM TypeCorrect == Spec => []TypeOK
<1>1. Inv => TypeOK
    BY DEF Inv
<1> QED BY <1>1, Invariance, PTL

\* The slots taken in workerSem are those of the workers between acquire and
\* release: none is leaked or given back twice on any way out of a worker.
THEOREM SlotsAreExact == Spec => []SlotsExact
<1>1. Inv => SlotsExact
    BY DEF Inv
<1> QED BY <1>1, Invariance, PTL

\* An entry of activeTurnStates belongs to a worker that will replace or delete
\* it, whatever the interleaving of workers, main loop and shutdown.
THEOREM EntriesAreOwned == Spec => []NoOrphanEntry
<1>1. Inv => NoOrphanEntry
    BY DEF Inv
<1> QED BY <1>1, Invariance, PTL

-----------------------------------------------------------------------------
(* The order of the steering queues                                        *)

\* A poll takes from the front.
LEMMA PollTakesPrefix ==
    ASSUME NEW q \in Seq(Msgs), q # <<>>
    PROVE  \E d \in Nat : \A i \in DOMAIN Remaining(q) :
               i + d \in DOMAIN q /\ Remaining(q)[i] = q[i + d]
<1>1. \A i \in DOMAIN Tail(q) : i + 1 \in DOMAIN q /\ Tail(q)[i] = q[i + 1]
    OBVIOUS
<1>2. DOMAIN <<>> = {}
    OBVIOUS
<1>3. 0 \in Nat /\ 1 \in Nat
    OBVIOUS
<1> QED
    BY ONLY <1>1, <1>2, <1>3 DEF Remaining

\* After the step, queue s is what it was without some messages at its front.
Suffix(s) ==
    \E d \in Nat : \A i \in DOMAIN queue'[s] :
        i \in Nat /\ i + d \in DOMAIN queue[s] /\ queue'[s][i] = queue[s][i + d]

\* A step that starts no worker and only takes from the front of queues.
LEMMA QueuesAfterTaking ==
    ASSUME Inv, QueueInv, UNCHANGED <<main, nMsgs, sess>>,
           \A m \in Msgs : pc[m] = "none" => pc'[m] = "none",
           \A s \in Sessions : Suffix(s)
    PROVE  QueueInv'
<1>1. queue \in [Sessions -> Seq(Msgs)] /\ nMsgs \in Nat
    BY DEF Inv, TypeOK
<1>2. \A s \in Sessions : DOMAIN queue[s] \subseteq Nat /\ \A i \in DOMAIN queue[s] : queue[s][i] \in Msgs
    BY <1>1
<1>3. main.at \in HoldingMessage => nMsgs \in Msgs
    BY DEF Inv, ArrivalInv
<1>4. main'.at \in HoldingMessage => pc'[nMsgs'] = "none"
    BY <1>3 DEF QueueInv
<1>5. ASSUME NEW s \in Sessions, NEW i \in DOMAIN queue'[s]
      PROVE  /\ queue'[s][i] <= nMsgs'
             /\ main'.at \in HoldingMessage => queue'[s][i] < nMsgs'
             /\ sess'[queue'[s][i]] = s /\ pc'[queue'[s][i]] = "none"
  <2>1. PICK j \in DOMAIN queue[s] : queue'[s][i] = queue[s][j]
      BY DEF Suffix
  <2>2. queue[s][j] \in Msgs
      BY <1>2
  <2> QED BY <2>1, <2>2 DEF QueueInv, QueuedInOrder
<1>6. ASSUME NEW s \in Sessions, NEW i \in DOMAIN queue'[s], NEW j \in DOMAIN queue'[s], i < j
      PROVE  queue'[s][i] < queue'[s][j]
  <2>1. PICK e \in Nat : \A k \in DOMAIN queue'[s] :
            k \in Nat /\ k + e \in DOMAIN queue[s] /\ queue'[s][k] = queue[s][k + e]
      BY DEF Suffix
  <2>2. i + e < j + e
      BY <1>6, <2>1
  <2> QED BY <2>1, <2>2 DEF QueueInv, QueuedInOrder
<1> QED BY <1>4, <1>5, <1>6 DEF QueueInv, QueuedInOrder

LEMMA UntouchedSuffix ==
    ASSUME Inv, NEW s \in Sessions, queue'[s] = queue[s]
    PROVE  Suffix(s)
<1>1. queue[s] \in Seq(Msgs)
    BY DEF Inv, TypeOK
<1>2. \A i \in DOMAIN queue[s] : i \in Nat /\ i + 0 = i
    BY <1>1
<1>3. 0 \in Nat /\ \A i \in DOMAIN queue'[s] :
          i \in Nat /\ i + 0 \in DOMAIN queue[s] /\ queue'[s][i] = queue[s][i + 0]
    BY <1>2
<1> QED BY ONLY <1>3 DEF Suffix

\* A worker's step moves that worker and takes from no queue but its session's.
LEMMA WorkerQueueStep ==
    ASSUME Inv, QueueInv, NEW w \in Msgs, WorkerStep(w)
    PROVE  QueueInv'
<1> DEFINE q == queue[sess[w]]
<1>1. /\ queue \in [Sessions -> Seq(Msgs)] /\ pc \in [Msgs -> WorkerStates]
      /\ sess[w] \in Sessions /\ q \in Seq(Msgs)
    BY DEF Inv, TypeOK
<1>2. /\ pc[w] # "none" /\ UNCHANGED <<main, nMsgs, sess>>
      /\ \E l : pc' = [pc EXCEPT ![w] = l]
  <2>1. pc = [pc EXCEPT ![w] = pc[w]]
      BY <1>1
  <2> QED
      BY <2>1 DEF WorkerStep, Acquire, AcquireCanceled, Begin, Unclaim, Process, ProcessStop,
            Register, RegisterPanic, CheckStop, TurnPoll, TurnEnd, Clear, ClearDelete,
            Drain, Continue, Take, Exit, Cleanup, CleanupDelete, Goto, loopVars, turnVars
<1>3. \A m \in Msgs : pc[m] = "none" => pc'[m] = "none"
    BY <1>1, <1>2
<1>4. \/ queue' = queue
      \/ queue' = [queue EXCEPT ![sess[w]] = <<>>]
      \/ q # <<>> /\ queue' = [queue EXCEPT ![sess[w]] = Remaining(q)]
    BY DEF WorkerStep, Acquire, AcquireCanceled, Begin, Unclaim, Process, ProcessStop,
          Register, RegisterPanic, CheckStop, TurnPoll, TurnEnd, Clear, ClearDelete,
          Drain, Continue, Take, Exit, Cleanup, CleanupDelete, loopVars, turnVars
<1>5. \A s \in Sessions : s # sess[w] => queue'[s] = queue[s]
    BY <1>1, <1>4
<1>6. Suffix(sess[w])
  <2>1. CASE queue' = queue
      BY <1>1, <2>1, UntouchedSuffix
  <2>2. CASE queue' = [queue EXCEPT ![sess[w]] = <<>>]
    <3>1. queue'[sess[w]] = <<>> /\ DOMAIN <<>> = {} /\ 0 \in Nat
        BY <1>1, <2>2
    <3> QED BY ONLY <3>1 DEF Suffix
  <2>3. CASE q # <<>> /\ queue' = [queue EXCEPT ![sess[w]] = Remaining(q)]
    <3>1. PICK d \in Nat : \A i \in DOMAIN Remaining(q) :
              i + d \in DOMAIN q /\ Remaining(q)[i] = q[i + d]
        BY <1>1, <2>3, PollTakesPrefix
    <3>2. Remaining(q) \in Seq(Msgs)
        BY <1>1, <2>3, PollShortens
    <3>3. \A i \in DOMAIN Remaining(q) : i \in Nat
        BY <3>2
    <3>4. queue'[sess[w]] = Remaining(q)
        BY <1>1, <2>3
    <3> QED BY ONLY <3>1, <3>3, <3>4, d \in Nat DEF Suffix
  <2> QED BY <1>4, <2>1, <2>2, <2>3
<1>7. \A s \in Sessions : Suffix(s)
    BY <1>5, <1>6, UntouchedSuffix
<1> QED BY <1>2, <1>3, <1>7, QueuesAfterTaking

\* A message joins the queue after all that arrived before it.
LEMMA EnqueueQueueStep ==
    ASSUME Inv, QueueInv, Enqueue
    PROVE  QueueInv'
<1> DEFINE s0 == HeldSession
           q == queue[s0]
<1>1. /\ queue \in [Sessions -> Seq(Msgs)] /\ nMsgs \in Msgs /\ s0 \in Sessions
      /\ q \in Seq(Msgs) /\ sess[nMsgs] = s0 /\ pc[nMsgs] = "none" /\ Held = nMsgs
      /\ main.at \in HoldingMessage
    BY DEF Enqueue, Inv, TypeOK, ArrivalInv, QueueInv, HoldingMessage, HeldSession, Held
<1>2. /\ UNCHANGED <<nMsgs, sess, pc>> /\ main'.at \notin HoldingMessage
    BY DEF Enqueue, MainGoto, HoldingMessage
<1>3. nMsgs \in Nat /\ nMsgs <= nMsgs
    BY <1>1 DEF Msgs
<1>4. CASE queue' = queue
    BY <1>2, <1>4 DEF QueueInv, QueuedInOrder
<1>5. CASE queue' = [queue EXCEPT ![s0] = Append(q, nMsgs)]
  <2> DEFINE t == Append(q, nMsgs)
  <2>1. /\ DOMAIN t = 1 .. Len(q) + 1 /\ DOMAIN q = 1 .. Len(q) /\ Len(q) \in Nat
        /\ t[Len(q) + 1] = nMsgs /\ \A i \in 1 .. Len(q) : t[i] = q[i]
      BY <1>1
  <2>2. \A s \in Sessions : queue'[s] = IF s = s0 THEN t ELSE queue[s]
      BY <1>1, <1>5
  <2> HIDE DEF t
  <2>3. \A i \in DOMAIN t : \/ i \in DOMAIN q /\ t[i] = q[i]
                            \/ i = Len(q) + 1 /\ t[i] = nMsgs
      BY <2>1
  <2>4. \A i \in DOMAIN q : q[i] < nMsgs /\ q[i] <= nMsgs /\ sess[q[i]] = s0 /\ pc[q[i]] = "none"
      BY <1>1 DEF QueueInv, QueuedInOrder
  <2>5. \A i \in DOMAIN t : t[i] <= nMsgs /\ sess[t[i]] = s0 /\ pc[t[i]] = "none"
      BY <1>1, <1>3, <2>3, <2>4
  <2>6. ASSUME NEW i \in DOMAIN t, NEW j \in DOMAIN t, i < j
        PROVE  t[i] < t[j]
    <3>1. i \in DOMAIN q /\ t[i] = q[i]
        BY <2>1, <2>6
    <3>2. CASE j \in DOMAIN q /\ t[j] = q[j]
        BY <1>1, <2>6, <3>1, <3>2 DEF QueueInv, QueuedInOrder
    <3>3. CASE t[j] = nMsgs
        BY <2>4, <3>1, <3>3
    <3> QED BY <2>3, <3>2, <3>3
  <2>7. ASSUME NEW s \in Sessions
        PROVE  /\ \A i \in DOMAIN queue'[s] :
                      queue'[s][i] <= nMsgs /\ sess[queue'[s][i]] = s /\ pc[queue'[s][i]] = "none"
               /\ \A i, j \in DOMAIN queue'[s] : i < j => queue'[s][i] < queue'[s][j]
    <3>1. CASE s = s0
        BY <2>2, <2>5, <2>6, <3>1
    <3>2. CASE s # s0
        BY <2>2, <3>2 DEF QueueInv, QueuedInOrder
    <3> QED BY <3>1, <3>2
  <2> QED BY <1>2, <2>7 DEF QueueInv, QueuedInOrder
<1> QED BY <1>1, <1>4, <1>5 DEF Enqueue

\* A message that arrives is new: no queue has it.
LEMMA ReceiveQueueStep ==
    ASSUME Inv, QueueInv, NEW s \in Sessions, NEW k \in Kinds, Receive(s, k)
    PROVE  QueueInv'
<1>1. /\ queue \in [Sessions -> Seq(Msgs)] /\ pc \in [Msgs -> WorkerStates]
      /\ sess \in [Msgs -> Sessions] /\ nMsgs \in Nat /\ nMsgs + 1 \in Msgs
  <2>1. nMsgs \in 0 .. MaxMsgs /\ nMsgs < MaxMsgs
      BY DEF Receive, Inv, TypeOK
  <2>2. nMsgs \in Nat /\ nMsgs + 1 \in Msgs
      BY BoundsAssumption, <2>1 DEF Msgs
  <2> QED BY <2>2 DEF Inv, TypeOK
<1>2. /\ nMsgs' = nMsgs + 1 /\ queue' = queue
      /\ sess' = [sess EXCEPT ![nMsgs + 1] = s]
      /\ \/ pc' = [pc EXCEPT ![nMsgs + 1] = "acquire"] /\ main' = main
         \/ pc' = pc
    BY DEF Receive
<1>3. main.at \notin HoldingMessage
    BY DEF Receive, HoldingMessage
<1>4. pc[nMsgs + 1] = "none"
    BY <1>1 DEF Inv, ArrivalInv
<1>5. ASSUME NEW r \in Sessions, NEW i \in DOMAIN queue[r]
      PROVE  /\ queue[r][i] < nMsgs + 1 /\ queue[r][i] <= nMsgs + 1
             /\ sess'[queue[r][i]] = r /\ pc'[queue[r][i]] = "none"
  <2>1. queue[r][i] \in Msgs /\ queue[r][i] \in Nat
    <3>1. queue[r] \in Seq(Msgs)
        BY <1>1
    <3>2. queue[r][i] \in Msgs
        BY ONLY <3>1, i \in DOMAIN queue[r]
    <3> QED BY ONLY <3>2 DEF Msgs
  <2>2. queue[r][i] <= nMsgs /\ sess[queue[r][i]] = r /\ pc[queue[r][i]] = "none"
      BY DEF QueueInv, QueuedInOrder
  <2>3. queue[r][i] # nMsgs + 1 /\ queue[r][i] < nMsgs + 1
      BY <1>1, <2>1, <2>2
  <2> QED BY <1>1, <1>2, <2>1, <2>2, <2>3
<1>6. main'.at \in HoldingMessage => pc'[nMsgs + 1] = "none"
    BY <1>2, <1>3, <1>4
<1>7. \A r \in Sessions : \A i, j \in DOMAIN queue[r] : i < j => queue[r][i] < queue[r][j]
    BY DEF QueueInv, QueuedInOrder
<1> QED BY <1>2, <1>5, <1>6, <1>7 DEF QueueInv, QueuedInOrder

\* Steps of the main loop and of its environment that queue nothing.
LEMMA MainQueueStep ==
    ASSUME Inv, QueueInv,
           \/ ReceiveSystem \/ SystemDone \/ StopClear \/ StopLoad \/ StopCheck \/ StopMark
           \/ Leave \/ \E how \in {"stop", "cancel"} : Shutdown(how)
    PROVE  QueueInv'
<1>1. UNCHANGED <<nMsgs, sess, pc>>
    BY DEF ReceiveSystem, SystemDone, StopClear, StopLoad, StopCheck, StopMark, Leave, Shutdown
<1>2. main'.at \in HoldingMessage => main.at \in HoldingMessage
    BY DEF ReceiveSystem, SystemDone, StopClear, StopLoad, StopCheck, StopMark, Leave, Shutdown,
           MainGoto, HoldingMessage
<1>3. queue \in [Sessions -> Seq(Msgs)] /\ DOMAIN <<>> = {}
    BY DEF Inv, TypeOK
<1>4. \A s \in Sessions : queue'[s] = queue[s] \/ queue'[s] = <<>>
    BY <1>3 DEF ReceiveSystem, SystemDone, StopClear, StopLoad, StopCheck, StopMark, Leave, Shutdown
<1> QED BY <1>1, <1>2, <1>3, <1>4 DEF QueueInv, QueuedInOrder

LEMMA InitQueueInv == Init => QueueInv
<1> SUFFICES ASSUME Init PROVE QueueInv
    OBVIOUS
<1>1. \A s \in Sessions : DOMAIN queue[s] = {}
    BY DEF Init
<1>2. main.at \notin HoldingMessage
    BY DEF Init, HoldingMessage
<1> QED BY <1>1, <1>2 DEF QueueInv, QueuedInOrder

LEMMA NextQueueInv == Inv /\ QueueInv /\ [Next]_vars => QueueInv'
<1> SUFFICES ASSUME Inv, QueueInv, [Next]_vars PROVE QueueInv'
    OBVIOUS
<1>1. CASE UNCHANGED vars
    BY <1>1 DEF vars, QueueInv, QueuedInOrder
<1>2. CASE Next
    BY <1>2, WorkerQueueStep, EnqueueQueueStep, ReceiveQueueStep, MainQueueStep DEF Next, MainStep
<1> QED BY <1>1, <1>2

\* What waits in a steering queue (pushScope, enqueueSteeringMessage; steering.go) has
\* no worker of its own, belongs to the session, and waits in the order of arrival,
\* although it is pushed long after the main loop decided to queue it.
THEOREM QueuesKeepOrder == Spec => []QueuedInOrder
<1>1. QueueInv => QueuedInOrder
    BY DEF QueueInv
<1> QED BY <1>1, Invariance, InitQueueInv, NextQueueInv, PTL DEF Spec
=============================================================================
