------------------------------ MODULE AgentLoop ------------------------------
(***************************************************************************)
(* The dispatcher of the agent (pkg/agent: agent.go, agent_steering.go,    *)
(* agent_stop.go and the parts of steering.go and turn_state.go they use). *)
(*                                                                         *)
(* The main loop reads inbound messages.  The first message of an idle     *)
(* session claims the session in activeTurnStates with a placeholder and   *)
(* gets a worker goroutine; later ones are put in the session's steering   *)
(* queue, or stop the session's turn.  A worker waits for a slot, runs the *)
(* turn of its message, and then continues the session with what was       *)
(* queued meanwhile.  Shutdown, errors and panics may come at any time.    *)
(*                                                                         *)
(* Message m, worker m and the turns of worker m share the number m.  What *)
(* a turn does inside is left to TurnLoop: here it takes messages from the *)
(* queue for a while and ends in one of the ways runTurn can end.          *)
(***************************************************************************)
EXTENDS Integers, Sequences, FiniteSets

CONSTANTS
    Sessions,       \* session keys of routed messages
    Slots,          \* capacity of workerSem (MaxParallelTurns, 1 by default)
    QueueCap,       \* MaxQueueSize of the steering queue (10)
    SteeringMode,   \* "one-at-a-time" or "all": what one poll takes
    MaxMsgs         \* bound: inbound messages, after which no more arrive

ASSUME SessionsAssumption == Sessions # {}
ASSUME SlotsAssumption == Slots \in Nat \ {0}
ASSUME ModeAssumption == SteeringMode \in {"one-at-a-time", "all"}
ASSUME BoundsAssumption == QueueCap \in Nat \ {0} /\ MaxMsgs \in Nat

Msgs  == 1 .. MaxMsgs
Kinds == {"chat", "stop"}   \* "chat" stands for every text but /stop

VARIABLES
    shutdown,       \* "no", "stop": Stop() or a closed bus, "cancel": ctx canceled
    main,           \* control of the main loop, and the message it holds
    nMsgs,          \* messages received so far
    sess,           \* session of each message, once it is received
    kind,           \* kind of each message that was given a worker
    active,         \* activeTurnStates: the entry of each session
    pendingStop,    \* pendingStops: per session 0, or the stop message that armed it
    queue,          \* steering queue of each session
    slots,          \* number of tokens in workerSem
    pc,             \* control of each worker
    cont,           \* the worker's current turn is a continuation (Continue)
    abort,          \* hardAbort of the worker's current turn
    outcome,        \* how the worker's current turn ended
    stoppedBy       \* the armed stop the worker took, 0 if none

loopVars == <<shutdown, main, nMsgs, sess, kind>>
turnVars == <<cont, abort, outcome, stoppedBy>>
vars     == <<shutdown, main, nMsgs, sess, kind, active, pendingStop, queue,
              slots, pc, cont, abort, outcome, stoppedBy>>

(* Entries of activeTurnStates: the placeholder of the main loop, that of  *)
(* Continue (both have a turn ID with the prefix "pending-"), and a turn.  *)
NoEntry         == [is |-> "none", owner |-> 0]
Placeholder(w)  == [is |-> "claim", owner |-> w]
Continuation(w) == [is |-> "continue", owner |-> w]
Turn(w)         == [is |-> "turn", owner |-> w]

Entries == {NoEntry} \cup [is : {"claim", "continue", "turn"}, owner : Msgs]

IsPending(e) == e.is \in {"claim", "continue"}

Holding == {"begin", "unclaim", "process", "stopping", "register", "checkStop", "turn",
            "clear", "clearDelete", "drain", "continue", "take", "exit"}

WorkerStates == Holding \cup {"none", "acquire", "cleanup", "cleanupDelete", "done"}

Outcomes == {"none", "ok", "aborted", "error", "canceled", "panic"}

LoopStates == {"receive", "sync", "prepare", "stopClear", "stopLoad", "stopCheck",
               "stopMark", "exited"}

Init ==
    /\ shutdown = "no"
    /\ main = [at |-> "receive", cleared |-> FALSE]
    /\ nMsgs = 0
    /\ sess = [m \in Msgs |-> CHOOSE s \in Sessions : TRUE]
    /\ kind = [m \in Msgs |-> "chat"]
    /\ active = [s \in Sessions |-> NoEntry]
    /\ pendingStop = [s \in Sessions |-> 0]
    /\ queue = [s \in Sessions |-> <<>>]
    /\ slots = 0
    /\ pc = [w \in Msgs |-> "none"]
    /\ cont = [w \in Msgs |-> FALSE]
    /\ abort = [w \in Msgs |-> FALSE]
    /\ outcome = [w \in Msgs |-> "none"]
    /\ stoppedBy = [w \in Msgs |-> 0]


-----------------------------------------------------------------------------
(* Tests and updates of the code, each after a mutant that states it as a  *)
(* plausible bug would leave it; no specification here uses the mutants.   *)

\* pushScope accepts a message.
HasRoom(s) == Len(queue[s]) < QueueCap

\* workerSem has a free slot; the mutant lets in one more.
SlotFreeMutant == slots <= Slots
SlotFree       == slots < Slots

\* workerSem after the deferred release; the mutant skips it on a panic.
SlotsAfterMutant(w) == IF outcome[w] = "panic" THEN slots ELSE slots - 1
SlotsAfter(w) == slots - 1

\* The deferred cleanup deletes the session's entry: after a panic only this
\* worker's placeholder, otherwise any entry with the prefix "pending-".  The
\* mutant has no safety net for a worker that ran no turn.
MustCleanMutant(w) == outcome[w] = "panic" /\ active[sess[w]] = Placeholder(w)
MustClean(w) ==
    LET e == active[sess[w]] IN
    IF outcome[w] = "panic" THEN e = Placeholder(w) ELSE IsPending(e)

\* Where a worker goes whose Continue found the session claimed: the error ends
\* the drain loop.  The mutant retries.
AfterRefusalMutant == "drain"
AfterRefusal == "exit"

-----------------------------------------------------------------------------
(* The main loop: AgentLoop.Run                                            *)

\* The message the main loop holds, and its session.
Held        == nMsgs
HeldSession == sess[Held]

MainGoto(l) == main' = [at |-> l, cleared |-> FALSE]

\* A routed message arrives: LoadOrStore claims the session or finds an entry.
Receive(s, k) ==
    LET m == nMsgs + 1 IN
    /\ main.at = "receive"
    /\ nMsgs < MaxMsgs
    /\ nMsgs' = m
    /\ sess' = [sess EXCEPT ![m] = s]
    /\ IF active[s] = NoEntry
       THEN /\ kind' = [kind EXCEPT ![m] = k]
            /\ active' = [active EXCEPT ![s] = Placeholder(m)]
            /\ pc' = [pc EXCEPT ![m] = "acquire"]
            /\ UNCHANGED main
       ELSE /\ MainGoto(IF k = "stop" THEN "stopClear" ELSE "prepare")
            /\ UNCHANGED <<kind, active, pc>>
    /\ UNCHANGED <<shutdown, pendingStop, queue, slots, turnVars>>

\* A message that routes to no session (channel "system") is processed by the
\* main loop itself; its turn runs on a key no routed message has.
ReceiveSystem ==
    /\ main.at = "receive"
    /\ MainGoto("sync")
    /\ UNCHANGED <<shutdown, nMsgs, sess, kind, active, pendingStop, queue, slots,
                   pc, turnVars>>

SystemDone ==
    /\ main.at = "sync"
    /\ MainGoto("receive")
    /\ UNCHANGED <<shutdown, nMsgs, sess, kind, active, pendingStop, queue, slots,
                   pc, turnVars>>

\* The message was prepared (its audio transcribed, which takes long) and is
\* queued for the turn that was active when it arrived; a full queue drops it.
\* The mutant looks again whether the session is free by now, gives the message a
\* worker and forgets that it is queued as well.
EnqueueMutant ==
    /\ main.at = "prepare"
    /\ MainGoto("receive")
    /\ queue' = IF HasRoom(HeldSession)
                THEN [queue EXCEPT ![HeldSession] = Append(@, Held)]
                ELSE queue
    /\ IF active[HeldSession] = NoEntry
       THEN /\ active' = [active EXCEPT ![HeldSession] = Placeholder(Held)]
            /\ pc' = [pc EXCEPT ![Held] = "acquire"]
       ELSE UNCHANGED <<active, pc>>
    /\ UNCHANGED <<shutdown, nMsgs, sess, kind, pendingStop, slots, turnVars>>

Enqueue ==
    /\ main.at = "prepare"
    /\ MainGoto("receive")
    /\ queue' = IF HasRoom(HeldSession)
                THEN [queue EXCEPT ![HeldSession] = Append(@, Held)]
                ELSE queue
    /\ UNCHANGED <<shutdown, nMsgs, sess, kind, active, pendingStop, slots, pc, turnVars>>

\* /stop for a claimed session: stopActiveTurnForSession clears the queue ...
StopClear ==
    /\ main.at = "stopClear"
    /\ main' = [at |-> "stopLoad", cleared |-> queue[HeldSession] # <<>>]
    /\ queue' = [queue EXCEPT ![HeldSession] = <<>>]
    /\ UNCHANGED <<shutdown, nMsgs, sess, kind, active, pendingStop, slots, pc, turnVars>>

\* HardAbort: the turn that entry e names is told to abort.
HardAbort(e) == abort' = IF e.is = "turn" THEN [abort EXCEPT ![e.owner] = TRUE] ELSE abort

\* ... and aborts the turn it finds.  If it stopped nothing,
\* tryHandleStopCommand looks again for a placeholder.
StopLoad ==
    LET e == active[HeldSession] IN
    /\ main.at = "stopLoad"
    /\ HardAbort(e)
    /\ MainGoto(IF e.is = "turn" \/ (e = NoEntry /\ main.cleared)
                THEN "receive" ELSE "stopCheck")
    /\ UNCHANGED <<shutdown, nMsgs, sess, kind, active, pendingStop, queue, slots, pc,
                   cont, outcome, stoppedBy>>

StopCheck ==
    /\ main.at = "stopCheck"
    /\ MainGoto(IF IsPending(active[HeldSession]) THEN "stopMark" ELSE "receive")
    /\ UNCHANGED <<shutdown, nMsgs, sess, kind, active, pendingStop, queue, slots,
                   pc, turnVars>>

\* markPendingStop: whoever takes the mark next stops.
StopMark ==
    /\ main.at = "stopMark"
    /\ MainGoto("receive")
    /\ pendingStop' = [pendingStop EXCEPT ![HeldSession] = Held]
    /\ UNCHANGED <<shutdown, nMsgs, sess, kind, active, queue, slots, pc, turnVars>>

\* The main loop leaves when ctx is done, when the ticker finds Stop() called, or
\* when the inbound channel is closed.
Leave ==
    /\ main.at = "receive"
    /\ shutdown # "no"
    /\ MainGoto("exited")
    /\ UNCHANGED <<shutdown, nMsgs, sess, kind, active, pendingStop, queue, slots,
                   pc, turnVars>>

Shutdown(how) ==
    /\ shutdown = "no"
    /\ shutdown' = how
    /\ UNCHANGED <<main, nMsgs, sess, kind, active, pendingStop, queue, slots,
                   pc, turnVars>>

MainStep ==
    \/ SystemDone \/ Enqueue \/ StopClear \/ StopLoad \/ StopCheck \/ StopMark \/ Leave

-----------------------------------------------------------------------------
(* A worker goroutine: the closure in Run, and runTurnWithSteering         *)

Goto(w, l) == pc' = [pc EXCEPT ![w] = l]

SetEntry(w, e) == active' = [active EXCEPT ![sess[w]] = e]

\* What one poll takes from a non-empty queue.
Remaining(q) == IF SteeringMode = "all" THEN <<>> ELSE Tail(q)

Acquire(w) ==
    /\ pc[w] = "acquire"
    /\ SlotFree
    /\ slots' = slots + 1
    /\ Goto(w, "begin")
    /\ UNCHANGED <<loopVars, active, pendingStop, queue, turnVars>>

\* ctx is done: whatever entry the session has by now is deleted.
AcquireCanceled(w) ==
    /\ pc[w] = "acquire"
    /\ shutdown = "cancel"
    /\ SetEntry(w, NoEntry)
    /\ Goto(w, "done")
    /\ UNCHANGED <<loopVars, pendingStop, queue, slots, turnVars>>

\* takePendingStop before the message is looked at.
Begin(w) ==
    /\ pc[w] = "begin"
    /\ pendingStop' = [pendingStop EXCEPT ![sess[w]] = 0]
    /\ stoppedBy' = [stoppedBy EXCEPT ![w] = pendingStop[sess[w]]]
    /\ Goto(w, IF pendingStop[sess[w]] # 0 THEN "unclaim" ELSE "process")
    /\ UNCHANGED <<loopVars, active, queue, slots, cont, abort, outcome>>

\* A stopped message: its claim is given up, only the queue is continued.
Unclaim(w) ==
    /\ pc[w] = "unclaim"
    /\ SetEntry(w, NoEntry)
    /\ Goto(w, "drain")
    /\ UNCHANGED <<loopVars, pendingStop, queue, slots, turnVars>>

\* processMessage up to runTurn: a chat message gets a turn; a command is
\* answered without one, and so is a message that cannot be routed; /stop first
\* clears the queue; anything may panic.
Process(w) ==
    /\ pc[w] = "process"
    /\ \/ /\ kind[w] = "chat"
          /\ Goto(w, "register")
          /\ UNCHANGED <<queue, outcome>>
       \/ /\ Goto(w, "drain")
          /\ UNCHANGED <<queue, outcome>>
       \/ /\ kind[w] = "stop"
          /\ queue' = [queue EXCEPT ![sess[w]] = <<>>]
          /\ Goto(w, "stopping")
          /\ UNCHANGED outcome
       \/ /\ Goto(w, "exit")
          /\ outcome' = [outcome EXCEPT ![w] = "panic"]
          /\ UNCHANGED queue
    /\ UNCHANGED <<loopVars, active, pendingStop, slots, cont, abort, stoppedBy>>

\* /stop as the first message of a session: stopActiveTurnForSession normally
\* finds this worker's own placeholder, which it leaves alone.
ProcessStop(w) ==
    /\ pc[w] = "stopping"
    /\ HardAbort(active[sess[w]])
    /\ Goto(w, "drain")
    /\ UNCHANGED <<loopVars, active, pendingStop, queue, slots, cont, outcome, stoppedBy>>

\* runTurn: registerActiveTurn stores the turn over whatever is there.
Register(w) ==
    /\ pc[w] = "register"
    /\ SetEntry(w, Turn(w))
    /\ abort' = [abort EXCEPT ![w] = FALSE]
    /\ outcome' = [outcome EXCEPT ![w] = "none"]
    /\ Goto(w, "checkStop")
    /\ UNCHANGED <<loopVars, pendingStop, queue, slots, cont, stoppedBy>>

\* A panic between the claim and registerActiveTurn.
RegisterPanic(w) ==
    /\ pc[w] = "register"
    /\ outcome' = [outcome EXCEPT ![w] = "panic"]
    /\ Goto(w, "exit")
    /\ UNCHANGED <<loopVars, active, pendingStop, queue, slots, cont, abort, stoppedBy>>

\* runTurn: takePendingStop after the turn is registered.
CheckStop(w) ==
    /\ pc[w] = "checkStop"
    /\ pendingStop' = [pendingStop EXCEPT ![sess[w]] = 0]
    /\ IF pendingStop[sess[w]] # 0
       THEN /\ abort' = [abort EXCEPT ![w] = TRUE]
            /\ stoppedBy' = [stoppedBy EXCEPT ![w] = pendingStop[sess[w]]]
       ELSE UNCHANGED <<abort, stoppedBy>>
    /\ Goto(w, "turn")
    /\ UNCHANGED <<loopVars, active, queue, slots, cont, outcome>>

\* The running turn polls its session's steering queue.
TurnPoll(w) ==
    /\ pc[w] = "turn"
    /\ queue[sess[w]] # <<>>
    /\ queue' = [queue EXCEPT ![sess[w]] = Remaining(@)]
    /\ UNCHANGED <<loopVars, active, pendingStop, slots, pc, turnVars>>

\* runTurn returns or panics.  An abort may come too late to be noticed.
TurnEnd(w, o) ==
    /\ pc[w] = "turn"
    /\ o = "aborted" => abort[w]
    /\ o = "canceled" => shutdown = "cancel"
    /\ outcome' = [outcome EXCEPT ![w] = o]
    /\ Goto(w, "clear")
    /\ UNCHANGED <<loopVars, active, pendingStop, queue, slots, cont, abort, stoppedBy>>

\* Where the worker goes on: runTurnWithSteering returns on a canceled context
\* and drains otherwise; the drain loop itself ends on an error and on an empty
\* response (an aborted turn has one); a panic ends the worker.
AfterTurn(w) ==
    IF outcome[w] \in {"canceled", "panic"} \/ (cont[w] /\ outcome[w] # "ok")
    THEN "exit" ELSE "drain"

\* clearActiveTurn: Load and compare, then Delete, in two steps.
Clear(w) ==
    /\ pc[w] = "clear"
    /\ Goto(w, IF active[sess[w]] = Turn(w) THEN "clearDelete" ELSE AfterTurn(w))
    /\ UNCHANGED <<loopVars, active, pendingStop, queue, slots, turnVars>>

ClearDelete(w) ==
    /\ pc[w] = "clearDelete"
    /\ SetEntry(w, NoEntry)
    /\ Goto(w, AfterTurn(w))
    /\ UNCHANGED <<loopVars, pendingStop, queue, slots, turnVars>>

\* drainQueuedSteeringContinuations: the test of its loop.
Drain(w) ==
    /\ pc[w] = "drain"
    /\ Goto(w, IF queue[sess[w]] = <<>> \/ shutdown = "cancel" THEN "exit" ELSE "continue")
    /\ UNCHANGED <<loopVars, active, pendingStop, queue, slots, turnVars>>

\* Continue: claims the session, or fails on the entry it finds.
Continue(w) ==
    /\ pc[w] = "continue"
    /\ IF active[sess[w]] = NoEntry
       THEN /\ SetEntry(w, Continuation(w))
            /\ Goto(w, "take")
       ELSE /\ Goto(w, AfterRefusal)
            /\ UNCHANGED active
    /\ UNCHANGED <<loopVars, pendingStop, queue, slots, turnVars>>

\* Continue: dequeues; with nothing left the session's entry is deleted.
Take(w) ==
    /\ pc[w] = "take"
    /\ IF queue[sess[w]] = <<>>
       THEN /\ SetEntry(w, NoEntry)
            /\ Goto(w, "exit")
            /\ UNCHANGED <<queue, cont>>
       ELSE /\ queue' = [queue EXCEPT ![sess[w]] = Remaining(@)]
            /\ cont' = [cont EXCEPT ![w] = TRUE]
            /\ Goto(w, "register")
            /\ UNCHANGED active
    /\ UNCHANGED <<loopVars, pendingStop, slots, abort, outcome, stoppedBy>>

\* runTurnWithSteering has returned, or a panic passed it; of its state only the
\* panic counts.  The deferred calls: the slot is given back first ...
Exit(w) ==
    /\ pc[w] = "exit"
    /\ slots' = SlotsAfter(w)
    /\ cont' = [cont EXCEPT ![w] = FALSE]
    /\ abort' = [abort EXCEPT ![w] = FALSE]
    /\ outcome' = [outcome EXCEPT ![w] = IF @ = "panic" THEN @ ELSE "none"]
    /\ Goto(w, "cleanup")
    /\ UNCHANGED <<loopVars, active, pendingStop, queue, stoppedBy>>

\* ... then the session's entry.  Load and Delete again are two steps.
Cleanup(w) ==
    /\ pc[w] = "cleanup"
    /\ Goto(w, IF MustClean(w) THEN "cleanupDelete" ELSE "done")
    /\ UNCHANGED <<loopVars, active, pendingStop, queue, slots, turnVars>>

CleanupDelete(w) ==
    /\ pc[w] = "cleanupDelete"
    /\ SetEntry(w, NoEntry)
    /\ Goto(w, "done")
    /\ UNCHANGED <<loopVars, pendingStop, queue, slots, turnVars>>

WorkerStep(w) ==
    \/ Acquire(w) \/ AcquireCanceled(w) \/ Begin(w) \/ Unclaim(w)
    \/ Process(w) \/ ProcessStop(w)
    \/ Register(w) \/ RegisterPanic(w) \/ CheckStop(w)
    \/ TurnPoll(w) \/ \E o \in Outcomes \ {"none"} : TurnEnd(w, o)
    \/ Clear(w) \/ ClearDelete(w)
    \/ Drain(w) \/ Continue(w) \/ Take(w)
    \/ Exit(w) \/ Cleanup(w) \/ CleanupDelete(w)

Next ==
    \/ \E s \in Sessions, k \in Kinds : Receive(s, k)
    \/ ReceiveSystem
    \/ MainStep
    \/ \E how \in {"stop", "cancel"} : Shutdown(how)
    \/ \E w \in Msgs : WorkerStep(w)

\* Every goroutine runs, a turn ends (its iterations and its provider calls are
\* bounded), and a goroutine blocked on workerSem gets its turn when slots keep
\* being released (the senders of a Go channel wait in FIFO order).  Nothing is
\* assumed of arrivals and of shutdown.
Fairness ==
    /\ WF_vars(MainStep)
    /\ \A w \in Msgs : WF_vars(WorkerStep(w)) /\ SF_vars(Acquire(w))

Spec == Init /\ [][Next]_vars /\ Fairness

-----------------------------------------------------------------------------
(* Properties                                                              *)

\* The variables have their types; no steering queue exceeds MaxQueueSize.
TypeOK ==
    /\ shutdown \in {"no", "stop", "cancel"}
    /\ main \in [at : LoopStates, cleared : BOOLEAN]
    /\ nMsgs \in 0 .. MaxMsgs
    /\ sess \in [Msgs -> Sessions]
    /\ kind \in [Msgs -> Kinds]
    /\ active \in [Sessions -> Entries]
    /\ pendingStop \in [Sessions -> 0 .. MaxMsgs]
    /\ queue \in [Sessions -> Seq(Msgs)]
    /\ \A s \in Sessions : Len(queue[s]) <= QueueCap
    /\ slots \in 0 .. Slots
    /\ pc \in [Msgs -> WorkerStates]
    /\ cont \in [Msgs -> BOOLEAN]
    /\ abort \in [Msgs -> BOOLEAN]
    /\ outcome \in [Msgs -> Outcomes]
    /\ stoppedBy \in [Msgs -> 0 .. MaxMsgs]

\* Workers past workerSem, turns included, never outnumber MaxParallelTurns, and
\* no way out of a worker (error, stop, panic, cancellation) leaks its slot.
SlotsExact ==
    /\ slots = Cardinality({w \in Msgs : pc[w] \in Holding})
    /\ slots <= Slots

\* No session stays claimed by a worker that is gone (it would queue every later
\* message and answer none): the owner of an entry will still replace or delete
\* it.  The exception is the placeholder of a Continue that panicked before its
\* turn was registered, which no deferred call deletes.
NoOrphanEntry ==
    \A s \in Sessions, w \in Msgs :
        /\ active[s] \in {Placeholder(w), Continuation(w), Turn(w)} => sess[w] = s
        /\ active[s] = Placeholder(w) => pc[w] \notin {"none", "done"}
        /\ active[s] = Continuation(w) =>
              pc[w] \in {"take", "register"} \/ outcome[w] = "panic"
        /\ active[s] = Turn(w) => pc[w] \in {"checkStop", "turn", "clear", "clearDelete"}

\* A steering queue holds messages of its own session, in the order in which they
\* arrived, and no message that has a worker (it would be answered twice): the claim of a
\* session and the decision to queue are far apart from the push, which comes after
\* the audio of the message was transcribed.
QueuedInOrder ==
    \A s \in Sessions :
        /\ \A i \in DOMAIN queue[s] : sess[queue[s][i]] = s /\ pc[queue[s][i]] = "none"
        /\ \A i, j \in DOMAIN queue[s] : i < j => queue[s][i] < queue[s][j]

\* From some time on no message arrives.
ArrivalsStop == <>[][UNCHANGED nMsgs]_vars

\* Once messages stop arriving, every message that claimed a session sees its worker run
\* to the end.  Nothing better can be said: the drain loop (agent_steering.go:74) and the
\* turn loop (turn_coord.go:98) go on for as long as their session's queue is filled, so
\* with a message for every continuation one worker keeps its slot, and with all slots
\* kept so the others wait for ever.
WorkersFinish == ArrivalsStop => \A w \in Msgs : pc[w] = "acquire" ~> pc[w] = "done"

\* Turns of one session.
TurnsOf(s) == {w \in Msgs : sess[w] = s /\ pc[w] \in {"checkStop", "turn", "clear"}}

\* "Atomically claim the session key ... Each placeholder has a unique turnID to
\* prevent cross-worker cleanup issues" (agent.go): never two turns at once in
\* one session.  It holds with one slot only: cleanup deletes by the prefix of the
\* turn ID, so a claim may be lost to the worker before.
OneTurnPerSession == \A s \in Sessions : Cardinality(TurnsOf(s)) <= 1

\* "that placeholder belongs to the other message's worker which hasn't started
\* yet - arm a pending stop so the worker will bail" (agent_stop.go): a stop
\* never hits a message that came after it.
StopSparesLaterMessages == \A w \in Msgs : stoppedBy[w] # 0 => w < stoppedBy[w]
=============================================================================
