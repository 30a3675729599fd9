------------------------------ MODULE SubTurn -------------------------------
(***************************************************************************)
(* Sub-turns (pkg/agent/subturn.go, Finish in turn_state.go): a running    *)
(* turn spawns children, synchronously from a tool or in the background;   *)
(* children take a slot of their parent's semaphore, hold the read lock of *)
(* the agent's model while they run, and hand a background result over to  *)
(* the parent's channel - while a hard abort marks turns finished, closes  *)
(* their channels and cascades, and a model switch waits for the lock.     *)
(*                                                                         *)
(* Turn 0 is the root: runTurn gives it neither a semaphore, nor a channel *)
(* for results, nor the reference (ts.al) a cascade goes through.          *)
(***************************************************************************)
EXTENDS Integers, Sequences, FiniteSets

CONSTANTS
    MaxTurns,       \* bound: sub-turns spawned
    MaxDepth,       \* maxDepth of the sub-turn configuration (3 by default)
    MaxConcurrent,  \* maxConcurrent: slots of a turn's semaphore (5 by default)
    ResultCap,      \* capacity of pendingResults (16 in the code)
    MaxSwitches,    \* bound: model switches
    MaxAborts,      \* bound: calls of HardAbort
    AbortTargets    \* turns whose session key HardAbort is called with

Turns    == 0 .. MaxTurns
Children == 1 .. MaxTurns

ASSUME SubTurnAssumption ==
    /\ MaxTurns \in Nat /\ MaxDepth \in Nat \ {0}
    /\ MaxConcurrent \in Nat \ {0} /\ ResultCap \in Nat \ {0}
    /\ MaxSwitches \in Nat /\ MaxAborts \in Nat
    /\ AbortTargets \subseteq Turns

VARIABLES
    pc,          \* control of the goroutine that runs the turn
    parent,      \* parentTurnState
    async,       \* cfg.Async
    semAcquired, \* semAcquired of spawnSubTurn
    sem,         \* tokens in the turn's concurrencySem
    children,    \* childTurnIDs
    pending,     \* pendingResults: the children whose results wait in it
    fin,         \* Finish: "no", then isFinished, channel closed, finishedChan closed
    canceled,    \* an abort has canceled the turn
    result,      \* what runTurn left: "none", "value", or "nil" after a panic
    fate,        \* history variable: what became of a background result
    writer,      \* the goroutine of SwitchModel at the model lock
    switches,    \* model switches so far
    abort,       \* the turns HardAbort still has to Finish, the first one first
    aborts       \* calls of HardAbort so far

tree     == <<parent, async>>
slots    == <<semAcquired, sem>>
delivery == <<pending, result, fate>>
lock     == <<writer, switches>>
stopping == <<abort, aborts, fin>>
vars     == <<pc, tree, slots, children, delivery, lock, stopping, canceled>>

Init ==
    /\ pc = [t \in Turns |-> IF t = 0 THEN "run" ELSE "free"]
    /\ parent = [t \in Children |-> 0]
    /\ async = [t \in Children |-> FALSE]
    /\ semAcquired = [t \in Children |-> FALSE]
    /\ sem = [t \in Turns |-> 0]
    /\ children = [t \in Turns |-> <<>>]
    /\ pending = [t \in Turns |-> <<>>]
    /\ fin = [t \in Turns |-> "no"]
    /\ canceled = [t \in Turns |-> FALSE]
    /\ result = [t \in Children |-> "none"]
    /\ fate = [t \in Children |-> "none"]
    /\ writer = "idle"
    /\ switches = 0
    /\ abort = <<>>
    /\ aborts = 0

-----------------------------------------------------------------------------
(* Helpers.  A "Mutant" states the next definition as a plausible bug      *)
(* would; no specification here uses it.                                   *)

Goto(t, l) == pc' = [pc EXCEPT ![t] = l]

\* Entries of activeTurnStates: spawnSubTurn stores the child before it runs, and
\* runTurn deletes it when it returns.
Registered(t) == pc[t] \in {"run", "await"} \/ (t # 0 /\ pc[t] \in {"link", "lock"})

\* The read locks of the model: from the start of runTurn to its return; the mutant
\* does not unlock when runTurn panics.
ReadingMutant ==
    {t \in Turns : pc[t] \in {"run", "await"} \/ (t # 0 /\ result[t] = "nil")}
Reading == {t \in Turns : pc[t] \in {"run", "await"}}

\* A sync.RWMutex lets no reader in while a writer holds it or waits for it.
MayRead == writer = "idle"

\* The depth limit: a turn that has MaxDepth ancestors spawns no more.
Depth[t \in Turns] == IF t = 0 THEN 0 ELSE Depth[parent[t]] + 1

\* A slot of the parent is free; the mutant is off by one.
SlotFreeMutant(p) == sem[p] <= MaxConcurrent
SlotFree(p) == sem[p] < MaxConcurrent

\* semAcquired after the slot was released; the mutant forgets to clear it, and the
\* deferred function releases once more.
AfterReleaseMutant == TRUE
AfterRelease == FALSE

\* Where a child goes once runTurn has returned; the mutant delivers a synchronous
\* result as well.
DeliversMutant(c) == TRUE
Delivers(c) == async[c]

\* The parent can no longer take a result, or never could.
NoReader(p) == p = 0 \/ fin[p] # "no"

\* pendingResults is closed, finishedChan is closed.
ChannelClosed(t) == fin[t] \in {"closed", "signalled"}
Finished(t)      == fin[t] = "signalled"

\* The result is reported as an orphan; the nil of a panic is not.
Orphan(c) == fate' = [fate EXCEPT ![c] = IF result[c] = "value" THEN "orphan" ELSE @]

\* The call of spawnSubTurn returns: its deferred function gives back the slot it may
\* still hold, and a tool that waited for it goes on.
Return(c) ==
    /\ pc' = [pc EXCEPT ![c] = "done",
                        ![parent[c]] = IF async[c] THEN @ ELSE "run"]
    /\ IF semAcquired[c]
         THEN /\ sem' = [sem EXCEPT ![parent[c]] = @ - 1]
              /\ semAcquired' = [semAcquired EXCEPT ![c] = FALSE]
         ELSE UNCHANGED slots

-----------------------------------------------------------------------------
(* spawnSubTurn.                                                           *)

\* A tool of turn p spawns: in the background (spawn), or waiting for the result
\* (subagent, delegate).
Spawn(p, c) ==
    /\ pc[p] = "run" /\ pc[c] = "free"
    /\ \A d \in Children : pc[d] = "free" => c <= d
    /\ parent' = [parent EXCEPT ![c] = p]
    /\ \E a \in BOOLEAN :
          /\ async' = [async EXCEPT ![c] = a]
          /\ pc' = [pc EXCEPT ![c] = IF p = 0 THEN "check" ELSE "sem",
                              ![p] = IF a THEN @ ELSE "await"]
    /\ UNCHANGED <<slots, children, delivery, lock, stopping, canceled>>

AcquireSlot(c) ==
    /\ pc[c] = "sem" /\ SlotFree(parent[c])
    /\ sem' = [sem EXCEPT ![parent[c]] = @ + 1]
    /\ semAcquired' = [semAcquired EXCEPT ![c] = TRUE]
    /\ Goto(c, "check")
    /\ UNCHANGED <<tree, children, delivery, lock, stopping, canceled>>

\* concurrencyTimeout, or the context of the caller is done.
NoSlot(c) ==
    /\ pc[c] = "sem"
    /\ Return(c)
    /\ UNCHANGED <<tree, children, delivery, lock, stopping, canceled>>

\* The depth limit, a missing model or an unknown agent: the deferred function gives
\* the slot back.  Otherwise the child is registered.
Check(c) ==
    /\ pc[c] = "check"
    /\ \/ Depth[parent[c]] < MaxDepth /\ Goto(c, "link") /\ UNCHANGED slots
       \/ Return(c)
    /\ UNCHANGED <<tree, children, delivery, lock, stopping, canceled>>

\* The child is appended to its parent's list, which a cascade reads.
Link(c) ==
    /\ pc[c] = "link"
    /\ children' = [children EXCEPT ![parent[c]] = Append(@, c)]
    /\ Goto(c, "lock")
    /\ UNCHANGED <<tree, slots, delivery, lock, stopping, canceled>>

-----------------------------------------------------------------------------
(* runTurn, as far as it is about other turns.                             *)

LockModel(t) ==
    /\ pc[t] = "lock" /\ MayRead
    /\ Goto(t, "run")
    /\ UNCHANGED <<tree, slots, children, delivery, lock, stopping, canceled>>

\* A turn polls its channel, once per iteration and once per tool call; a nil is
\* received and ignored.
Poll(t) ==
    /\ pc[t] = "run" /\ pending[t] # <<>>
    /\ LET c == Head(pending[t])
       IN  fate' = [fate EXCEPT ![c] = IF result[c] = "value" THEN "consumed" ELSE @]
    /\ pending' = [pending EXCEPT ![t] = Tail(@)]
    /\ UNCHANGED <<pc, tree, slots, children, result, lock, stopping, canceled>>

\* runTurn returns, with an answer or an error (also that of a context that timed out
\* or was canceled), or it panics: its deferred calls clear the entry and unlock the
\* model.
RunEnds(t) ==
    /\ pc[t] = "run"
    /\ IF t = 0
         THEN Goto(t, "done") /\ UNCHANGED result
         ELSE \E panics \in BOOLEAN :
                 /\ result' = [result EXCEPT ![t] = IF panics THEN "nil" ELSE "value"]
                 /\ Goto(t, IF panics THEN "cleanup" ELSE "ran")
    /\ UNCHANGED <<tree, slots, children, pending, fate, lock, stopping, canceled>>

-----------------------------------------------------------------------------
(* The end of spawnSubTurn.                                                *)

\* The slot is released as soon as runTurn has returned; after a panic only the
\* last deferred function does it.
ReleaseSlot(c) ==
    /\ pc[c] = "ran"
    /\ IF semAcquired[c]
         THEN /\ sem' = [sem EXCEPT ![parent[c]] = @ - 1]
              /\ semAcquired' = [semAcquired EXCEPT ![c] = AfterRelease]
         ELSE UNCHANGED slots
    /\ Goto(c, "cleanup")
    /\ UNCHANGED <<tree, children, delivery, lock, stopping, canceled>>

\* deliverSubTurnResult reads the state of the parent under its lock.
Deliver(c) ==
    /\ pc[c] = "cleanup"
    /\ \/ ~Delivers(c) /\ Return(c) /\ UNCHANGED fate
       \/ Delivers(c) /\ NoReader(parent[c]) /\ Return(c) /\ Orphan(c)
       \/ /\ Delivers(c) /\ ~NoReader(parent[c])
          /\ Goto(c, "select") /\ UNCHANGED <<fate, slots>>
    /\ UNCHANGED <<tree, children, pending, result, lock, stopping, canceled>>

SendResult(c) ==
    /\ pc[c] = "select"
    /\ ~ChannelClosed(parent[c]) /\ Len(pending[parent[c]]) < ResultCap
    /\ pending' = [pending EXCEPT ![parent[c]] = Append(@, c)]
    /\ fate' = [fate EXCEPT ![c] = IF result[c] = "value" THEN "sent" ELSE @]
    /\ Return(c)
    /\ UNCHANGED <<tree, children, result, lock, stopping, canceled>>

\* The channel was closed: the send panics, which is recovered, or finishedChan is
\* seen first.  Either way the result is an orphan.
SendFails(c) ==
    /\ pc[c] = "select"
    /\ ChannelClosed(parent[c]) \/ Finished(parent[c])
    /\ Orphan(c)
    /\ Return(c)
    /\ UNCHANGED <<tree, children, pending, result, lock, stopping, canceled>>

-----------------------------------------------------------------------------
(* HardAbort and Finish(true); SwitchModel.                                *)

HardAbort(t) ==
    /\ Registered(t) /\ abort = <<>> /\ aborts < MaxAborts
    /\ aborts' = aborts + 1
    /\ abort' = <<t>>
    /\ canceled' = [canceled EXCEPT ![t] = TRUE]
    /\ UNCHANGED <<pc, tree, slots, children, delivery, lock, fin>>

\* isFinished, the channel, finishedChan: three steps; a turn that was finished
\* before skips them (closeOnce).
Finish ==
    /\ abort # <<>> /\ fin[Head(abort)] # "signalled"
    /\ fin' = [fin EXCEPT ![Head(abort)] =
                   CASE @ = "no" -> "marked"
                     [] @ = "marked" -> "closed"
                     [] @ = "closed" -> "signalled"]
    /\ UNCHANGED <<pc, tree, slots, children, delivery, lock, abort, aborts, canceled>>

\* The children a cascade goes to; the root has no reference to look them up with.
Cascade(t) == IF t = 0 THEN <<>> ELSE children[t]

\* The context of the turn is canceled, then its children are finished, and theirs:
\* the next one is the first that is registered now.
FinishCascade ==
    /\ abort # <<>> /\ fin[Head(abort)] = "signalled"
    /\ canceled' = [canceled EXCEPT ![Head(abort)] = TRUE]
    /\ LET rest == Cascade(Head(abort)) \o Tail(abort)
       IN  \/ /\ \A i \in DOMAIN rest : ~Registered(rest[i])
              /\ abort' = <<>>
           \/ \E i \in DOMAIN rest :
                 /\ Registered(rest[i]) /\ \A j \in 1 .. i - 1 : ~Registered(rest[j])
                 /\ abort' = SubSeq(rest, i, Len(rest))
    /\ UNCHANGED <<pc, tree, slots, children, delivery, lock, aborts, fin>>

\* SwitchModel, and Close of the agent, lock the model for writing.
WriterWaits ==
    /\ writer = "idle" /\ switches < MaxSwitches
    /\ writer' = "waiting"
    /\ switches' = switches + 1
    /\ UNCHANGED <<pc, tree, slots, children, delivery, stopping, canceled>>

\* The writer gets the lock, switches the model and unlocks.
WriterSwitches ==
    /\ writer = "waiting" /\ Reading = {}
    /\ writer' = "idle"
    /\ UNCHANGED <<pc, tree, slots, children, delivery, switches, stopping, canceled>>

-----------------------------------------------------------------------------
ChildStep(c) ==
    \/ AcquireSlot(c) \/ NoSlot(c) \/ Check(c) \/ Link(c)
    \/ ReleaseSlot(c) \/ Deliver(c) \/ SendResult(c) \/ SendFails(c)

TurnStep(t) == LockModel(t) \/ RunEnds(t)

Next ==
    \/ \E c \in Children : ChildStep(c)
    \/ \E t \in Turns : TurnStep(t) \/ Poll(t) \/ (\E c \in Children : Spawn(t, c))
    \/ \E t \in AbortTargets : HardAbort(t)
    \/ Finish \/ FinishCascade
    \/ WriterWaits \/ WriterSwitches

\* Goroutines run on, and a turn returns: its iterations are bounded and its context
\* times out.  Nobody is obliged to spawn, to abort or to switch models.
Fairness ==
    /\ WF_vars(TurnStep(0))
    /\ \A c \in Children : WF_vars(ChildStep(c) \/ TurnStep(c))
    /\ WF_vars(Finish \/ FinishCascade)
    /\ WF_vars(WriterSwitches)

Spec == Init /\ [][Next]_vars /\ Fairness

-----------------------------------------------------------------------------
(* Properties.                                                             *)

\* The variables keep their types; no semaphore has more tokens and no channel more
\* results than it has room for.
TypeOK ==
    /\ pc \in [Turns -> {"free", "sem", "check", "link", "lock", "run", "await", "ran",
                         "cleanup", "select", "done"}]
    /\ parent \in [Children -> Turns] /\ async \in [Children -> BOOLEAN]
    /\ semAcquired \in [Children -> BOOLEAN] /\ sem \in [Turns -> 0 .. MaxConcurrent]
    /\ children \in [Turns -> Seq(Children)]
    /\ pending \in [Turns -> Seq(Children)]
    /\ \A t \in Turns : Len(pending[t]) <= ResultCap
    /\ fin \in [Turns -> {"no", "marked", "closed", "signalled"}]
    /\ canceled \in [Turns -> BOOLEAN]
    /\ result \in [Children -> {"none", "value", "nil"}]
    /\ fate \in [Children -> {"none", "sent", "consumed", "orphan"}]
    /\ writer \in {"idle", "waiting"} /\ switches \in 0 .. MaxSwitches
    /\ abort \in Seq(Turns) /\ aborts \in 0 .. MaxAborts

\* A semaphore (subturn.go:292) holds one token for each child that believes it has a slot, and a
\* child that has returned has none, whichever way it ended: no slot, depth limit,
\* error, panic, abort.
SlotsExact ==
    /\ \A p \in Turns :
          sem[p] = Cardinality({c \in Children : parent[c] = p /\ semAcquired[c]})
    /\ \A c \in Children : pc[c] \in {"free", "sem", "done"} => ~semAcquired[c]

\* What a background sub-turn has answered (deliverSubTurnResult) is in its parent's
\* channel, or was taken from it, or was reported as an orphan: exactly one of them, and the
\* last only if the parent is the root or has been aborted.  A full channel makes no orphan,
\* although the comment of the code says so (see FullIsOrphan): the sender waits.  A
\* synchronous result, which the tool returns, never goes through the channel.
ResultsAccounted ==
    \A c \in Children :
        LET waiting == {p \in Turns : \E i \in DOMAIN pending[p] : pending[p][i] = c}
        IN  /\ pc[c] = "done" /\ async[c] /\ result[c] = "value"
                 => fate[c] \in {"sent", "consumed", "orphan"}
            /\ result[c] = "value" => (fate[c] = "sent" <=> waiting = {parent[c]})
            /\ fate[c] # "sent" /\ result[c] = "value" => waiting = {}
            /\ fate[c] = "orphan" => parent[c] = 0 \/ fin[parent[c]] # "no"
            /\ ~async[c] => fate[c] = "none" /\ waiting = {}

\* A result is answered for once: what was reported as an orphan is never consumed as
\* well, what a parent took is never reported, and nothing that was sent is reported
\* although the parent may be finished while it waits in the channel.
FateIsFinal ==
    [][\A c \in Children :
          \/ fate'[c] = fate[c]
          \/ fate[c] = "none" /\ fate'[c] \in {"sent", "orphan"}
          \/ fate[c] = "sent" /\ fate'[c] = "consumed"]_vars

\* A child blocked on the full channel of a parent that ended without Finish.
Leaked(c) ==
    /\ pc[c] = "select" /\ ~Registered(parent[c])
    /\ Len(pending[parent[c]]) = ResultCap

\* A turn holds the read lock and waits for a child that waits for it, behind a
\* writer that waits for the turn.
ModelDeadlock ==
    writer = "waiting" /\ \E c \in Children : pc[c] = "lock" /\ pc[parent[c]] = "await"

\* Every sub-turn returns, and with it the tool that waits for it, but for two named
\* ways to hang: a parent that ended while its channel was full, and a model switch
\* between the lock of a turn and that of its synchronous child.
SubTurnsReturn ==
    <>[](ModelDeadlock \/ \A c \in Children : pc[c] \in {"free", "done"} \/ Leaked(c))

\* The comment of deliverSubTurnResult (subturn.go:529, 536): a result that finds the channel
\* of its running parent full is reported as an orphan.  It does not hold: the select has
\* no default, so the sender waits, and its result is sent once there is room.
FullIsOrphan ==
    [][\A c \in Children :
          /\ pc[c] = "cleanup" /\ pc'[c] # "cleanup" /\ Delivers(c) /\ result[c] = "value"
          /\ Len(pending[parent[c]]) = ResultCap
          => fate'[c] = "orphan"]_vars

\* HardAbort's comment (steering.go:505): the cancellation cascades to all child
\* sub-turns.  It does not hold: the root has no reference to cascade through.
AbortCascades ==
    abort = <<>> =>
        \A t \in Turns : fin[t] = "signalled" =>
            \A i \in DOMAIN children[t] :
                Registered(children[t][i]) => canceled[children[t][i]]

=============================================================================
