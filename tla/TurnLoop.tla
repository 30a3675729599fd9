------------------------------ MODULE TurnLoop ------------------------------
(***************************************************************************)
(* One root turn (pkg/agent: turn_coord.go and the pipeline files): the    *)
(* loop that calls the model, runs the tools it asks for, takes steering   *)
(* messages in between and leaves a session history that must make sense   *)
(* to the next turn - while users steer, interrupt and abort the turn from *)
(* other goroutines, and while calls fail and are retried.                 *)
(*                                                                         *)
(* A message of the history is a triple: who says it, which one, and the   *)
(* number of tool calls it makes or answers.                               *)
(***************************************************************************)
EXTENDS Integers, Sequences, FiniteSets, SequencesExt

CONSTANTS
    MaxIterations,  \* MaxIterations of the agent
    MaxRetries,     \* max_llm_retries (2 by default)
    SteeringMode,   \* "one-at-a-time" or "all"
    MaxCalls,       \* bound: tool calls of one response
    MaxSteer        \* bound: steering messages, after which no more are sent

ASSUME LimitsAssumption ==
    /\ MaxIterations \in Nat \ {0} /\ MaxRetries \in Nat
    /\ MaxCalls \in Nat /\ MaxSteer \in Nat
    /\ SteeringMode \in {"one-at-a-time", "all"}

User(m)      == <<"user", m, 0>>        \* 0: the turn's own message; m > 0: steering
Calls(i, n)  == <<"calls", i, n>>       \* iteration i asks for n tool calls
Result(i, c) == <<"tool", i, c>>        \* the answer to its call c
Reply(i)     == <<"assistant", i, 0>>

\* The session before the turn.
OldLog == <<User(-2), Reply(-2), User(-1), Reply(-1)>>

VARIABLES
    pc,             \* control of the turn's goroutine
    iteration,      \* ts.iteration
    exec,           \* exec.pendingMessages: steering taken, not yet injected
    local,          \* pendingMessages of runTurn: what the next injection takes
    msgs,           \* exec.messages without the system prompt: what the model sees
    log,            \* the persisted history of the session
    persisted,      \* ts.persistedMessages: what this turn appended
    restore,        \* ts.restorePointHistory
    compacted,      \* history variable: this turn has compacted the session
    queue,          \* the session's steering queue
    nSteer,         \* steering messages sent so far
    nCalls,         \* tool calls of the current response
    call,           \* the call ExecuteTools is at
    handled,        \* exec.allResponsesHandled
    graceful,       \* graceful interrupt: "no", "requested" or "used"
    terminal,       \* exec.gracefulTerminal
    retry,          \* retry of the LLM call
    hardAbort,      \* ts.hardAbort
    stopper,        \* control of a goroutine in HardAbort
    snap,           \* the prefix of the history it read
    outcome         \* how the turn ended

pending   == <<exec, local, queue, nSteer>>
history   == <<msgs, log, persisted, restore, compacted>>
toolVars  == <<nCalls, call, handled>>
llmVars   == <<terminal, retry>>
interrupt == <<graceful, hardAbort, stopper, snap>>
vars      == <<pc, iteration, pending, history, toolVars, llmVars, interrupt, outcome>>

\* A continuation begins with the steering messages Continue took.
InitialSteering ==
    {[i \in 1 .. k |-> i] : k \in {n \in 0 .. MaxSteer : SteeringMode = "all" \/ n <= 1}}

Init ==
    /\ pc = "start"
    /\ iteration = 0
    /\ exec \in InitialSteering
    /\ local = exec
    /\ nSteer = Len(exec)
    /\ msgs = <<>>
    /\ log = OldLog
    /\ persisted = <<>>
    /\ restore = OldLog
    /\ compacted = FALSE
    /\ queue = <<>>
    /\ nCalls = 0
    /\ call = 1
    /\ handled = FALSE
    /\ graceful = "no"
    /\ terminal = FALSE
    /\ retry = 0
    /\ hardAbort = FALSE
    /\ stopper = "idle"
    /\ snap = <<>>
    /\ outcome = "none"

-----------------------------------------------------------------------------
(* Compaction and the helpers of the pipeline.  A "Mutant" states the next *)
(* definition as a plausible bug would; no specification here uses it.     *)

Drop(h, k) == SubSeq(h, k + 1, Len(h))

\* parseTurnBoundaries: a user message opens a turn of the history.
Boundaries(h) == {p \in DOMAIN h : h[p][1] = "user"}

\* The turn before which as many begin as half of them.
MiddleTurn(h) ==
    Max({p \in Boundaries(h) :
            Cardinality({q \in Boundaries(h) : q < p}) <= Cardinality(Boundaries(h)) \div 2})

\* forceCompression: keeps the younger half of the turns; a single turn is cut
\* before its user message, or down to it.
Compress(h) ==
    LET k == IF Boundaries(h) = {} THEN Len(h) \div 2 ELSE MiddleTurn(h) - 1
    IN  IF Len(h) <= 2 THEN h
        ELSE IF k = 0 THEN <<h[Max(Boundaries(h))]>> ELSE Drop(h, k)

\* trimHistoryToFitContextWindow: whole turns are dropped, all if need be.
Trimmed(h) == {h, <<>>} \cup {Drop(h, p - 1) : p \in Boundaries(h)}

\* matchingTurnMessageTail: how much of the end of h this turn has written.
MatchingTail(h, own) ==
    CHOOSE k \in 0 .. Len(own) :
        /\ k <= Len(h) /\ Drop(h, Len(h) - k) = Drop(own, Len(own) - k)
        /\ \A j \in k + 1 .. Len(own) :
              j <= Len(h) => Drop(h, Len(h) - j) # Drop(own, Len(own) - j)

\* splitHistoryForActiveTurn: the end that must not be trimmed, and the rest.  The
\* mutant protects nothing.
ProtectedMutant(h) == <<>>
Protected(h) == Drop(h, Len(h) - MatchingTail(h, persisted))
Stable(h)    == SubSeq(h, 1, Len(h) - MatchingTail(h, persisted))

\* The restore point of a turn whose first message is u; the mutant takes it after
\* the message was persisted.
RestorePointMutant(h, u) == h \o u
RestorePoint(h, u) == h

\* The loop goes on; the mutant forgets the pending steering messages.
MoreMutant == iteration < MaxIterations \/ graceful = "requested"
More == iteration < MaxIterations \/ exec # <<>> \/ graceful = "requested"

\* Another attempt is allowed; the mutant is off by one.
MayRetryMutant == retry <= MaxRetries
MayRetry == retry < MaxRetries

\* The retry counter of the next attempt; the mutant forgets to count.
NextRetryMutant == retry
NextRetry == retry + 1

\* The answers to the tool calls that are skipped; the mutant leaves them out.
SkippedMutant == <<>>
Skipped == [j \in 1 .. nCalls - call |-> Result(iteration, call + j)]

\* One poll of the steering queue.
Taken(q)     == IF q = <<>> \/ SteeringMode = "all" THEN q ELSE <<Head(q)>>
Remaining(q) == IF q = <<>> \/ SteeringMode = "all" THEN <<>> ELSE Tail(q)

\* Messages appended to the session, and to what the model sees.
Persist(h) == /\ log' = log \o h
              /\ persisted' = persisted \o h
              /\ UNCHANGED <<restore, compacted>>
Say(h)     == Persist(h) /\ msgs' = msgs \o h

\* The turn is over; what only it used is dead.
End(o) ==
    /\ pc' = "done"
    /\ outcome' = o
    /\ msgs' = <<>>
    /\ nCalls' = 0 /\ call' = 1 /\ handled' = FALSE
    /\ terminal' = FALSE /\ retry' = 0

-----------------------------------------------------------------------------
(* runTurn: setup, the head of the loop and the injection of steering.     *)

Begin ==
    /\ pc = "start"
    /\ pc' = IF hardAbort THEN "abort" ELSE "setup"
    /\ UNCHANGED <<iteration, pending, history, toolVars, llmVars, interrupt, outcome>>

\* SetupTurn: an over-budget session is compacted first, then the user message of
\* the turn is persisted; a continuation has none.
Setup ==
    /\ pc = "setup"
    /\ pc' = "loop"
    /\ LET own == IF exec = <<>> THEN <<User(0)>> ELSE <<>>
       IN  \E over \in BOOLEAN :
              LET h == IF over THEN Compress(log) ELSE log
              IN  /\ log' = h \o own
                  /\ restore' = RestorePoint(h, own)
                  /\ compacted' = (h # log)
                  /\ \E t \in (IF over THEN Trimmed(h) ELSE {h}) : msgs' = t \o own
                  /\ persisted' = own
    /\ UNCHANGED <<iteration, pending, toolVars, llmVars, interrupt, outcome>>

\* The head of the loop; the first iteration polls the queue, unless the turn is a
\* continuation, the others take what the tools or the direct answer left.
LoopHead ==
    /\ pc = "loop" /\ More
    /\ IF hardAbort
         THEN pc' = "abort" /\ UNCHANGED <<iteration, pending>>
         ELSE /\ pc' = "inject"
              /\ iteration' = iteration + 1
              /\ IF iteration > 0
                   THEN local' = local \o exec /\ exec' = <<>> /\ UNCHANGED queue
                   ELSE /\ UNCHANGED exec
                        /\ IF exec = <<>>
                             THEN local' = local \o Taken(queue) /\ queue' = Remaining(queue)
                             ELSE UNCHANGED <<local, queue>>
              /\ UNCHANGED nSteer
    /\ UNCHANGED <<history, toolVars, llmVars, interrupt, outcome>>

LoopExit ==
    /\ pc = "loop" /\ ~More
    /\ pc' = IF hardAbort THEN "abort" ELSE "final"
    /\ UNCHANGED <<iteration, pending, history, toolVars, llmVars, interrupt, outcome>>

Inject ==
    /\ pc = "inject"
    /\ pc' = "call"
    /\ Say([i \in DOMAIN local |-> User(local[i])])
    /\ exec' = IF local = <<>> THEN exec ELSE <<>>
    /\ UNCHANGED <<iteration, local, queue, nSteer, toolVars, llmVars, interrupt, outcome>>

-----------------------------------------------------------------------------
(* CallLLM.                                                                *)

\* A pending graceful interrupt makes this the last call, without tools.
Call ==
    /\ pc = "call"
    /\ pc' = "llm"
    /\ terminal' = (graceful = "requested")
    /\ graceful' = IF graceful = "requested" THEN "used" ELSE graceful
    /\ retry' = 0
    /\ UNCHANGED <<iteration, pending, history, toolVars, hardAbort, stopper, snap, outcome>>

\* The model answers, with some tool calls.
Respond ==
    /\ pc = "llm"
    /\ pc' = "answered"
    /\ nCalls' \in 0 .. MaxCalls
    /\ retry' = 0
    /\ UNCHANGED <<iteration, pending, history, call, handled, terminal, interrupt, outcome>>

\* The call fails for good; also a hook, or the media route, that fails the call.
CallFails ==
    /\ pc \in {"call", "llm", "backoff"}
    /\ End("error")
    /\ UNCHANGED <<iteration, pending, log, persisted, restore, compacted, interrupt>>

\* The abort has canceled the call.
LLMCanceled ==
    /\ pc = "llm" /\ hardAbort
    /\ pc' = "abort"
    /\ UNCHANGED <<iteration, pending, history, toolVars, llmVars, interrupt, outcome>>

LLMTransient ==
    /\ pc = "llm" /\ MayRetry
    /\ pc' = "backoff"
    /\ UNCHANGED <<iteration, pending, history, toolVars, llmVars, interrupt, outcome>>

Retry ==
    /\ pc = "backoff"
    /\ pc' = "llm"
    /\ retry' = NextRetry
    /\ UNCHANGED <<iteration, pending, history, toolVars, terminal, interrupt, outcome>>

\* The abort ends the backoff: ControlBreak, with abortedByHardAbort left unset.
BackoffAborted ==
    /\ pc = "backoff" /\ hardAbort
    /\ pc' = "final"
    /\ local' = exec
    /\ UNCHANGED <<iteration, exec, queue, nSteer, history, toolVars, llmVars, interrupt,
                   outcome>>

\* The context does not fit: the session is compacted, the restore point moved, and
\* what the model sees rebuilt; the call is repeated unless it still does not fit.
LLMOverflow ==
    /\ pc = "llm" /\ MayRetry
    /\ LET h == Compress(log)
       IN  /\ log' = h
           /\ restore' = Stable(h)
           /\ compacted' = (compacted \/ h # log)
           /\ \/ /\ pc' = "llm"
                 /\ retry' = NextRetry
                 /\ \E t \in Trimmed(Stable(h)) : msgs' = t \o Protected(h)
                 /\ UNCHANGED <<terminal, toolVars, outcome>>
              \/ End("error")
    /\ UNCHANGED <<iteration, pending, persisted, interrupt>>

\* No tool calls: steering that has arrived meanwhile continues the turn, and the
\* answer is dropped; otherwise it is the final one.
Direct ==
    /\ pc = "answered" /\ (terminal \/ nCalls = 0)
    /\ exec' = exec \o Taken(queue)
    /\ local' = exec'
    /\ queue' = Remaining(queue)
    /\ pc' = IF queue # <<>> THEN "loop" ELSE "final"
    /\ nCalls' = 0
    /\ UNCHANGED <<iteration, nSteer, history, call, handled, llmVars, interrupt, outcome>>

Ask ==
    /\ pc = "answered" /\ ~terminal /\ nCalls > 0
    /\ pc' = "tool"
    /\ Say(<<Calls(iteration, nCalls)>>)
    /\ handled' = TRUE
    /\ call' = 1
    /\ local' = exec
    /\ UNCHANGED <<iteration, exec, queue, nSteer, nCalls, llmVars, interrupt, outcome>>

-----------------------------------------------------------------------------
(* ExecuteTools.                                                           *)

ToolAborted ==
    /\ pc \in {"tool", "executed"} /\ hardAbort
    /\ pc = "tool" => call <= nCalls
    /\ pc' = "abort"
    /\ UNCHANGED <<iteration, pending, history, toolVars, llmVars, interrupt, outcome>>

\* The profile, a hook or the approver denies the call: no poll afterwards.
ToolDenied ==
    /\ pc = "tool" /\ call <= nCalls /\ ~hardAbort
    /\ Say(<<Result(iteration, call)>>)
    /\ handled' = FALSE
    /\ call' = call + 1
    /\ UNCHANGED <<pc, iteration, pending, nCalls, llmVars, interrupt, outcome>>

ToolRun ==
    /\ pc = "tool" /\ call <= nCalls /\ ~hardAbort
    /\ pc' = "running"
    /\ UNCHANGED <<iteration, pending, history, toolVars, llmVars, interrupt, outcome>>

ToolRan ==
    /\ pc = "running"
    /\ pc' = IF hardAbort THEN "abort" ELSE "executed"
    /\ UNCHANGED <<iteration, pending, history, toolVars, llmVars, interrupt, outcome>>

\* The result of the tool, or of a hook that answers in its place.
ToolResult ==
    /\ \/ pc = "executed"
       \/ pc = "tool" /\ call <= nCalls /\ ~hardAbort
    /\ pc' = "poll"
    /\ Say(<<Result(iteration, call)>>)
    /\ handled' \in {handled, FALSE}
    /\ UNCHANGED <<iteration, pending, nCalls, call, llmVars, interrupt, outcome>>

\* Steering, or a graceful interrupt, skips the remaining calls.
ToolPoll ==
    /\ pc = "poll"
    /\ pc' = "tool"
    /\ exec' = exec \o Taken(queue)
    /\ queue' = Remaining(queue)
    /\ IF exec' # <<>> \/ graceful = "requested"
         THEN Say(Skipped) /\ call' = nCalls + 1
         ELSE UNCHANGED history /\ call' = call + 1
    /\ UNCHANGED <<iteration, local, nSteer, nCalls, handled, llmVars, interrupt, outcome>>

\* After the calls: pending or new steering continues the turn; results that were
\* all delivered to the user end it; else the model is asked again.
ToolsDone ==
    /\ pc = "tool" /\ call > nCalls
    /\ LET polls == exec = <<>>
           taken == IF polls THEN Taken(queue) ELSE <<>>
       IN  /\ exec' = exec \o taken
           /\ queue' = IF polls THEN Remaining(queue) ELSE queue
           /\ IF exec' = <<>> /\ handled
                THEN pc' = "finalHandled" /\ Persist(<<Reply(iteration)>>) /\ UNCHANGED msgs
                ELSE pc' = "loop" /\ UNCHANGED history
    /\ nCalls' = 0 /\ call' = 1 /\ handled' = FALSE
    /\ UNCHANGED <<iteration, local, nSteer, llmVars, interrupt, outcome>>

-----------------------------------------------------------------------------
(* The ends of the turn.                                                   *)

\* A hook around the model or a tool fails the turn: nothing is restored.
HookAbort ==
    /\ \/ pc \in {"answered", "executed"}
       \/ pc = "tool" /\ call <= nCalls /\ ~hardAbort
    /\ End("error")
    /\ UNCHANGED <<iteration, pending, log, persisted, restore, compacted, interrupt>>

HookHardAbort ==
    /\ \/ pc \in {"call", "answered", "executed"}
       \/ pc = "tool" /\ call <= nCalls /\ ~hardAbort
    /\ hardAbort' = TRUE
    /\ pc' = "abort"
    /\ UNCHANGED <<iteration, pending, history, toolVars, llmVars, graceful, stopper, snap,
                   outcome>>

\* Finalize when the tools have delivered everything.
FinalHandled ==
    /\ pc = "finalHandled"
    /\ IF hardAbort
         THEN pc' = "abort" /\ UNCHANGED <<msgs, toolVars, llmVars, outcome>>
         ELSE End("completed")
    /\ UNCHANGED <<iteration, pending, log, persisted, restore, compacted, interrupt>>

\* Finalize: the answer is persisted, whatever has been requested meanwhile; saving
\* the session or ending the stream may fail.
Final ==
    /\ pc = "final"
    /\ Persist(<<Reply(iteration)>>)
    /\ \E o \in {"completed", "error"} : End(o)
    /\ UNCHANGED <<iteration, pending, interrupt>>

\* abortTurn: the session is restored.
Abort ==
    /\ pc = "abort"
    /\ log' = restore
    /\ End("aborted")
    /\ UNCHANGED <<iteration, pending, persisted, restore, compacted, interrupt>>

-----------------------------------------------------------------------------
(* Other goroutines: Steer, InterruptGraceful, InterruptHard, HardAbort.   *)

Running == pc # "done"

Steer ==
    /\ Running /\ nSteer < MaxSteer
    /\ nSteer' = nSteer + 1
    /\ queue' = Append(queue, nSteer')
    /\ UNCHANGED <<pc, iteration, exec, local, history, toolVars, llmVars, interrupt, outcome>>

\* Once used, a graceful interrupt has no further effect.
InterruptGraceful ==
    /\ Running /\ graceful = "no" /\ ~hardAbort
    /\ graceful' = "requested"
    /\ UNCHANGED <<pc, iteration, pending, history, toolVars, llmVars, hardAbort, stopper,
                   snap, outcome>>

InterruptHard ==
    /\ Running /\ ~hardAbort
    /\ hardAbort' = TRUE
    /\ UNCHANGED <<pc, iteration, pending, history, toolVars, llmVars, graceful, stopper,
                   snap, outcome>>

\* HardAbort requests the abort, then rolls the session back by itself.
HardAbort ==
    /\ Running /\ stopper = "idle"
    /\ hardAbort' = TRUE
    /\ stopper' = "read"
    /\ UNCHANGED <<pc, iteration, pending, history, toolVars, llmVars, graceful, snap, outcome>>

HardAbortRead ==
    /\ stopper = "read"
    /\ IF Len(log) > Len(OldLog)
         THEN stopper' = "write" /\ snap' = SubSeq(log, 1, Len(OldLog))
         ELSE stopper' = "done" /\ UNCHANGED snap
    /\ UNCHANGED <<pc, iteration, pending, history, toolVars, llmVars, graceful, hardAbort,
                   outcome>>

HardAbortWrite ==
    /\ stopper = "write"
    /\ stopper' = "done"
    /\ log' = snap
    /\ snap' = <<>>
    /\ UNCHANGED <<pc, iteration, pending, msgs, persisted, restore, compacted, toolVars,
                   llmVars, graceful, hardAbort, outcome>>

\* The session is left to what comes next.
Done ==
    /\ ~Running /\ stopper \in {"idle", "done"}
    /\ UNCHANGED vars

TurnStep ==
    \/ Begin \/ Setup \/ LoopHead \/ LoopExit \/ Inject
    \/ Call \/ Respond \/ CallFails \/ LLMCanceled \/ LLMTransient \/ Retry
    \/ BackoffAborted \/ LLMOverflow \/ Direct \/ Ask
    \/ ToolAborted \/ ToolDenied \/ ToolRun \/ ToolRan \/ ToolResult \/ ToolPoll
    \/ ToolsDone \/ HookAbort \/ HookHardAbort \/ FinalHandled \/ Final \/ Abort

Next ==
    \/ TurnStep
    \/ Steer \/ InterruptGraceful \/ InterruptHard
    \/ HardAbort \/ HardAbortRead \/ HardAbortWrite
    \/ Done

\* The goroutine of the turn runs on: model calls, hooks and tools end, by their
\* timeouts if not otherwise.
Fairness == WF_vars(TurnStep)

Spec == Init /\ [][Next]_vars /\ Fairness

-----------------------------------------------------------------------------
(* Properties.                                                             *)

Steerings == 1 .. MaxSteer
Roles     == {"user", "calls", "tool", "assistant"}
Messages  == Roles \X Int \X Nat

\* The variables keep their types; a call is retried at most MaxRetries times.
TypeOK ==
    /\ pc \in {"start", "setup", "loop", "inject", "call", "llm", "backoff", "answered",
               "tool", "running", "executed", "poll", "finalHandled", "final", "abort",
               "done"}
    /\ iteration \in Nat
    /\ exec \in Seq(Steerings) /\ local \in Seq(Steerings) /\ queue \in Seq(Steerings)
    /\ nSteer \in 0 .. MaxSteer
    /\ msgs \in Seq(Messages) /\ log \in Seq(Messages)
    /\ persisted \in Seq(Messages) /\ restore \in Seq(Messages) /\ snap \in Seq(Messages)
    /\ compacted \in BOOLEAN
    /\ nCalls \in 0 .. MaxCalls /\ call \in 1 .. MaxCalls + 1 /\ handled \in BOOLEAN
    /\ graceful \in {"no", "requested", "used"} /\ hardAbort \in BOOLEAN
    /\ terminal \in BOOLEAN /\ retry \in 0 .. MaxRetries
    /\ stopper \in {"idle", "read", "write", "done"}
    /\ outcome \in {"none", "completed", "error", "aborted"}

\* Every tool call is followed by its results, in order, and every result follows
\* its call.
WellPaired(h) ==
    \A p \in DOMAIN h :
        /\ h[p][1] = "calls" =>
              \A c \in 1 .. h[p][3] : p + c <= Len(h) /\ h[p + c] = Result(h[p][2], c)
        /\ h[p][1] = "tool" =>
              /\ p > h[p][3]
              /\ h[p - h[p][3]][1] = "calls" /\ h[p - h[p][3]][2] = h[p][2]

\* Providers refuse a history in which a tool call has no result, or the reverse
\* (context.go, sanitizeHistoryForProvider): neither denied or skipped calls,
\* steering, nor any compaction leaves one, in what the model is sent and in what a
\* turn that nothing aborted leaves to the next.
CallsArePaired ==
    (pc = "llm" \/ outcome = "completed") =>
        hardAbort \/ (WellPaired(msgs) /\ WellPaired(log))

\* A steering message that was taken from the queue is not lost: unless the turn is
\* aborted it has been appended to the session, also when the iterations are used up.
SteeringKept ==
    outcome \in {"completed", "error"} =>
        \A m \in 1 .. nSteer :
            \/ \E i \in DOMAIN queue : queue[i] = m
            \/ \E i \in DOMAIN persisted : persisted[i] = User(m)

\* The model sees the end of the session, and all that this turn has added to it,
\* however often the context was rebuilt.
ModelSeesTurn ==
    pc = "llm" /\ ~hardAbort =>
        /\ IsSuffix(msgs, log)
        /\ Len(msgs) >= MatchingTail(log, persisted)

\* An aborted turn leaves the session as it found it (unless it has compacted it),
\* although HardAbort rolls back the same session at the same time.
AbortRestores ==
    outcome = "aborted" /\ ~compacted /\ stopper \in {"idle", "done"} => log = OldLog

\* From some time on no steering message is sent.
SteeringStops == <>[][UNCHANGED nSteer]_vars

\* Once the users stop steering it, the turn ends, whatever the model, the tools and the
\* hooks do.  Nothing better can be said: while messages are pending the loop ignores
\* MaxIterations (turn_coord.go:98), so that one for every iteration keeps the turn alive.
Terminates == SteeringStops => <>(pc = "done")

\* runTurn's comment (turn_coord.go:185): what was injected is cleared, so it is not
\* injected again.  It does not hold: see Direct and LoopHead.
SteeringOnce ==
    \A i, j \in DOMAIN persisted :
        persisted[i] = persisted[j] /\ persisted[i][1] = "user" => i = j

\* HardAbort's comment (steering.go:543): the session is rolled back to the state
\* before the turn.  It does not hold: Final appends after the rollback.
HardAbortRollsBack ==
    pc = "done" /\ stopper = "done" /\ ~compacted => log = OldLog

\* findSafeBoundary's comment (context_budget.go:79): a single turn is not
\* compacted; so the model sees all since the last user message of this turn.  It
\* does not hold: forceCompression cuts the turn down to its user message.
SingleTurnKept ==
    pc = "llm" /\ ~hardAbort =>
        \A p \in Boundaries(persisted) :
            (\A q \in Boundaries(persisted) : q <= p) => IsSuffix(Drop(persisted, p - 1), msgs)

=============================================================================
