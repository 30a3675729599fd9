# IntimClaw: specifications and proofs

This directory holds TLA+ models of the concurrent and crash-prone core of the
agent in `src/`, the TLC configurations that check them, and TLAPS proofs of the
safety of all of them. Paths below are relative to `src/`.

## The system

IntimClaw is a personal assistant that runs as one Go process. Channel adapters
(Telegram, Discord, ...) put inbound messages on a message bus; the agent loop
takes them off, runs one *turn* per message (model calls and tool calls), and
puts the answers back on the bus; sessions are kept in files.

| Part | State | Operations | Interacts with |
|---|---|---|---|
| Message bus, `pkg/bus` | five buffered channels, mutex, closed flag, WaitGroup | publish (blocking or lossy), receive, `Close` | every goroutine of the process |
| Dispatcher, `pkg/agent` (`agent.go`, `agent_steering.go`, `agent_stop.go`, `steering.go`) | `activeTurnStates`, `pendingStops`, steering queues, `workerSem` | receive, claim, enqueue, `/stop`, run worker, continue, clean up, shut down | bus (inbound), turns, users |
| Turn pipeline, `pkg/agent` (`turn_coord.go`, `pipeline_*.go`) | iteration, pending steering, message list, restore point, abort flags | setup, model call and retries, compaction, tool calls, finalize, abort, interrupts | provider, tools, hooks, session store, steering queue |
| Session store, `pkg/memory`, `pkg/session` | a JSONL file and a metadata file per session, sharded locks | append, read, truncate, replace, compact, crash | turn pipeline, gateway |
| Sub-turns, `agent/subturn.go`, `Finish` in `agent/turn_state.go` | parent and child turn states, result channels, semaphores, the model lock | spawn, deliver, finish, cascade | turn pipeline, dispatcher, model switch |
| Cron, `pkg/cron`, the cron tool | jobs in memory and in a file, timer, wake-up channel | add, update, enable, remove, run, reload, restart | turns (the tool), dispatcher (what a job says) |
| Provider fallback, `pkg/providers` | cooldowns and token buckets per candidate | choose a candidate, wait for a token, record the outcome | turns of all sessions |
| Channel manager, `pkg/channels/manager.go` | channels, workers and their queues, configuration hashes, dispatchers | start, dispatch, split, send with retries, reload, stop | bus (outbound), gateway |
| Streamed replies, `pkg/agent` and `pkg/channels/manager.go` | stream of an answer, markers and tombstones of finalized streams | stream, fall back, finalize, publish, skip | turn pipeline, channel manager |
| Event bus, `pkg/events` | subscriptions, queues | publish, subscribe, close | observers |

The remaining packages (configuration, credentials, adapters, tools, the web
console, ...) are pure functions, wiring or I/O; `PROJECT.json` lists each with
the reason it is not modelled.

### What is hard

* **Bus.** `Close` races publishers that have passed the closed check, may be
  blocked on full channels, and may be called twice. Correct: no send on a closed
  channel, all accepted messages accounted for, both sides return.
* **Dispatcher.** The main loop and workers share maps without a common lock; the
  claim of a session is a placeholder that several goroutines replace or delete,
  in Load-then-Delete pairs; a worker can end in a dozen ways. Correct: slots are
  exact, no claim outlives its worker, what is queued stays in order and is answered
  once, a stop hits the message it was meant for, a worker that waits gets its slot
  once messages stop arriving.
* **Turn.** Steering, graceful interrupts and hard aborts arrive from other
  goroutines at any point; calls fail, are retried, or overflow the context and
  have the session compacted under the running turn. Correct: every tool call
  in the history has its result, steering is injected, once, an abort restores
  the session, the loop ends once nobody steers it.
* **Store.** Two files are written one after the other, and an append is not
  atomic. Correct: the order survives, truncation is exact, an acknowledged
  message stays readable.
* **Sub-turns.** A parent may finish, fail or be aborted while a child starts,
  waits for a slot or delivers; a channel is closed under its sender; a read lock
  is taken twice. Correct: slots are exact, each result has one fate, all return.
* **Cron.** Jobs change while the loop sleeps or runs them, a save may fail, two
  services overlap at a reload. Correct: no due time is run twice or forgotten.
* **Fallback.** Executions check, wait, call and record without a common lock.
  Correct: rates and backoffs hold whatever the interleaving, nobody waits forever
  once no newcomers come.
* **Channel manager.** A reload replaces workers that still send, may stop an instance
  in the middle of a post, and waits for some workers under a lock the dispatchers take;
  a post may be accepted and still return an error. Correct: order, nothing shown twice
  but by a retry, nothing stranded, no deadlock.
* **Streamed replies.** An answer reaches the user on two ways, past the queue as a
  stream and through it as a message, of which one must be dropped; the marker that says
  so is stored some time after the answer is on the screen, and a message is sent some
  time after the marker was looked at. Correct: each answer is seen once.

The full list of hazards, each at its line and with the property that covers it,
is in `PROJECT.json`.

## Modules

| Module | Models | Run by |
|---|---|---|
| `MessageBus` | `pkg/bus/bus.go` | `MCMessageBus` |
| `MessageBusProofs` | proofs about `MessageBus` | - |
| `AgentLoop` | the dispatcher | `MCAgentLoop` |
| `AgentLoopProofs` | proofs about `AgentLoop` | - |
| `TurnLoop` | one root turn | `MCTurnLoop` |
| `TurnLoopProofs` | proofs about `TurnLoop` | - |
| `SessionHistory` | abstract session store (`memory/store.go`) | refined by `SessionLog` |
| `SessionLog` | the files of one session (`memory/jsonl.go`) | `MCSessionLog` |
| `SubTurn` | parents, children and the model lock | `MCSubTurn` |
| `SubTurnProofs` | proofs about `SubTurn` | - |
| `Cron` | the scheduler and the cron tool | `MCCron` |
| `StoreProofs` | proofs about `Cron` and `SessionLog` | - |
| `Fallback` | the fallback chain, cooldowns and buckets | `MCFallback` |
| `FallbackProofs` | proofs about `Fallback` | - |
| `ChannelManager` | dispatchers and workers, start, reload and stop | `MCChannelManager` |
| `ChannelManagerProofs` | proofs about `ChannelManager` | - |
| `StreamedReply` | how an answer reaches its user | `MCStreamedReply` |
| `StreamedReplyProofs` | proofs about `StreamedReply` | - |

The modules meet at interfaces that are abstract on both sides: a turn is opaque to
`AgentLoop` and is `TurnLoop`; a tool that spawns is a tool call to `TurnLoop` and is
`SubTurn`; a model call is an outcome to `TurnLoop` and is `Fallback`; `MessageBus`
counts messages where `ChannelManager` and `StreamedReply` have their order.

Definitions named `...Mutant` restate the definition below them the way a
plausible bug would. No specification uses them; each property has one that
breaks it (listed in `PROJECT.json`).

**MessageBus.** `enterPublish` is `EnterLock`, `EnterCheck`, `EnterAdd`; the
`select` of `publish` is one action per case, the deferred `wg.Done` is
`PublishReturn`. `Close` is one action per statement that other goroutines can
see between. A channel is its number of buffered messages, because the bus never
looks at contents. Statistics and log lines are left out.

**AgentLoop.** Message, worker and turn share a number. `Receive` is
`LoadOrStore`; `/stop` of a claimed session is four steps (`StopClear`,
`StopLoad`, `StopCheck`, `StopMark`) as the code holds no lock across them. A
worker goes acquire, begin, process, register, turn, clear, drain, continue, exit
and cleanup; Load-compare-Delete is two steps in `Clear`/`ClearDelete` and
`Cleanup`/`CleanupDelete`. A turn is opaque: it may take steering and ends in one
of the ways `runTurn` ends. Panics are possible wherever code of tools, hooks or
providers runs. Turns of channel `system` run in the main loop on a key of their
own (`ReceiveSystem`).

**TurnLoop.** `pc` follows `runTurn`, `CallLLM`, `ExecuteTools` and `Finalize`.
The model's answer, hook decisions, tool outcomes and token estimates are
nondeterministic. A history is a sequence of triples (kind, iteration, call), so
that pairing, order and duplication are visible. `Steer`, `InterruptGraceful`,
`InterruptHard` and `HardAbort` belong to other goroutines; `HardAbort` reads and
writes the session in two steps. The context manager is the legacy one, on the
default agent; the turn is a root turn, whose `pendingResults` channel is nil, so
polling for sub-turn results never yields anything. `Trimmed` and `CallFails`
allow slightly more than the code (trimming at any turn boundary; failing at any
point of the call).

**SessionLog** and **SessionHistory.** One session under its lock. A torn append
leaves an unterminated last line, parseable or not; `SetHistory` and `Compact`
write metadata and file in two steps with a crash in between. The callers of
`SetHistory` (rollbacks, restore points, forced compression) read the history, make
something of it and write it back without a lock in between: `held` is what was read
last, and anything may happen to the session before it is written back. What a reader
sees of a file is defined by the places of its readable lines, so that it can be reasoned
about. `meta.Count` and summaries are left out: the count is recomputed before it is used.
`SessionHistory` is what remains for a caller: a history, what was read of it, truncated
messages that may reappear after a crash, and a torn flag that makes the next append
lossy. The names of `SessionLog` that `Cron` also has begin with `Log`, so that one
module can prove about both.

**SubTurn.** Turn 0 is the root. A child's `pc` follows `spawnSubTurn`: semaphore,
checks of depth and of the parent, registration, the model's read lock, the run,
the deferred clean-up, the `select` of `deliverSubTurnResult`. `Finish` is marking,
closing the channel, cascading and closing `finishedChan`; `HardAbort` calls it from
another goroutine. A closed channel makes the sender panic, which the code
recovers and reports as an orphan. What a child does is a step.

**Cron.** One `pc` per service for `runLoop`: computing the next wake, arming the
timer, the `select`, and `checkJobs` job by job, which clears the next run, saves (also
when nothing is due), calls the handler and records the result. The clients' calls are
actions of any service the process has started, a stopped one included, as no operation
asks whether its service runs: a turn that is older than a reload writes the old store
over the new one's file. A wake-up reaches only a running loop in its `select`. An update
by the tool is a read of a copy and an `UpdateJob`. The store keeps its jobs in the order of
their ids, so that the due jobs still to execute are a set, whose least is the next. A
save may fail; a stop leaves a loop that is executing alive; a crash leaves the file. The clock ticks.

**Fallback.** `pc` follows `Execute` and `ExecuteCandidate`: check the cooldown, take
or wait for a token, call, record. Tokens are integers, `Minute` to the token, so
that the refill by elapsed time is exact. The clock jumps to the instants the code
compares with: timers, ends of cooldowns. Errors have three classes.

**ChannelManager.** Everything a start or a reload makes has its number as version:
instance, worker, context. A reload is one step under the lock up to its return, and
the goroutine it starts unregisters and registers channel by channel, waiting
for workers. Dispatchers and workers are of two kinds, text and media, with the
same code. A send on a closed queue outside a recovered goroutine ends the process.
A channel's `Send` is two steps: `Send` sees that the instance runs, and then the chunk is
posted, whether or not the instance was stopped between (`Deliver`, which shows the chunk
and returns nothing, a final error or one that is retried; `FailForNow` and `FailForGood`,
which show nothing). The platform shows a post before it returns or never. A chunk that
its channel posts in parts is any one of them. `late` in the history of what is shown
marks a chunk whose instance did not run any more, with the version of its worker.
`Removed` and `Added` compare hashes the way `compareChannels` does. `hidden` is a
history variable: a registration that comes after that of a later reload puts an older
instance into the maps before the one that runs, and no reload stops the latter any
more.

**StreamedReply.** The session's worker is `runTurnWithSteering`: first turn,
continuations, `PublishResponseIfNeeded`; the end of a turn is `Finalize` with its
stream finalized, failed unseen, or failed after it was visible. A finalized stream is
three steps: `FinalizeStream` (the answer is on the screen), `StoreMarker` and
`StoreTombstone`, as the hook calls the channel before it stores them. The channel's
worker is `runWorker`, chunk by chunk, as the marker may change between chunks; `Pass` is
the check of `preSend` and `Show` the `Send` after it, and anything may happen between.
`below` is a history variable: answers with feedback on the screen after them. A
marker carries the answer that set it, which the code's does not, so that the properties
can tell whose message consumed it.

## Runs

| Run | Properties | Shows |
|---|---|---|
| `bus` | `TypeOK`, `NoSendOnClosed`, `CloseAccountsForAll`, `NoLateEntry`, `CloseReturns`, `PublishersReturn` | the shutdown protocol is safe and live |
| `agent` | `TypeOK`, `SlotsExact`, `NoOrphanEntry`, `QueuedInOrder`, `WorkersFinish` | one slot: slots, claims, queue order and progress of workers |
| `turn` | `TypeOK`, `CallsArePaired`, `SteeringKept`, `ModelSeesTurn`, `AbortRestores`, `Terminates` | histories, steering, abort and termination of a turn |
| `session` | `LogTypeOK`, `HistoryInOrder`, `TruncationIsExact`, `Implements` | order, truncation and refinement of `SessionHistory` |
| `subturn` | `TypeOK`, `SlotsExact`, `ResultsAccounted`, `SubTurnsReturn` | slots and results are exact; there are two ways to hang and no third |
| `cron` | `TypeOK`, `NoDoubleRun`, `NoOversleep`, `DueJobRuns` | runs are neither repeated nor forgotten, with two named exceptions |
| `fallback` | `TypeOK`, `RateIsBounded`, `FailureNeverShortens`, `ExecutionsReturn` | rates and backoffs under overlap, and progress |
| `channels` | `TypeOK`, `InOrder`, `NothingStranded`, `WorkersAreOpen`, `Settles` | reloads and shutdown of the outbound side |
| `reply` | `TypeOK`, `ShownOnce` | an answer is shown once unless it meets another's marker |
| `agent_turns` | `OneTurnPerSession`, violated | two slots: cleanup by prefix admits two turns in one session |
| `channels_reload` | `RunningHasWorker`, violated | a reloaded channel runs without a worker, and its messages are skipped |
| `reply_skipped` | `OnlyDuplicatesSkipped`, violated | an answer that was never shown is skipped as a duplicate |

The three violations are disagreements between the code and its own comments; the
quotes are under `findings` in `PROJECT.json`.

### Other comments the models refute

These properties state comments of the source as well and are violated too. They are
not among the runs; each has a configuration beside its MC module.

| Property | Comment | Configuration | What happens |
|---|---|---|---|
| `StopSparesLaterMessages` | `agent_stop.go:24-28` | `MCAgentLoopStop.cfg` | a mark armed too late stops a later message |
| `SteeringOnce` | `turn_coord.go:185` | `MCTurnLoopSteering.cfg` | steering is in two variables and injected from both |
| `HardAbortRollsBack` | `steering.go:543` | `MCTurnLoopAbort.cfg` | a turn that does not end as aborted keeps what it appended after the rollback |
| `SingleTurnKept` | `context_budget.go:81-83` | `MCTurnLoopOverflow.cfg` | compaction drops the running turn's tool results |
| `AckedVisible` | `jsonl.go:63-64` | `MCSessionLogLoss.cfg` | an append onto a torn line is acknowledged and lost |
| `SummarizedBeforeDropped` | `README.md:159` | `MCSessionLogSummary.cfg` | messages added while a summary is written push out others that it does not cover |
| `AbortCascades` | `steering.go:505` | `MCSubTurnAbort.cfg` | the abort of a root turn reaches none of its children |
| `NeverTwice` | `cron/service.go:190` | `MCCronTwice.cfg` | an update from an old copy puts a taken due time back |
| `FullIsOrphan` | `subturn.go:529, 536` | `MCSubTurnFull.cfg` | a sender that finds the parent's channel full is to report an orphan; it waits, and its result is sent later |
| `SkippedWakesSoon` | `cron/service.go:342` | `MCCronSkipped.cfg` | a loop that misses a wake-up is to wake soon anyway; it sleeps for what it had read before |
| `NothingLeaks` | `manager.go:625` | `MCStreamedReplyLeak.cfg` | feedback that passed `preSend` before the marker was stored is shown below its streamed answer |
| `CoolingIsSkipped` | `fallback.go:119` | `MCFallbackWait.cfg` | the last candidate is called in a cooldown that began while it waited for a token |

Six things the models show that no comment denies: an answer whose stream failed
unseen is sent twice, by `Finalize` and by `runTurnWithSteering`; a dispatcher may
send on a queue that a reload or `StopAll` has closed, which ends the process; a
reload whose new configuration of a channel gives no instance starts the old
instance once more, with two workers; and with three reloads in a row the goroutine of
the first may register its instance after the second has (`manager.go:1992-2009`), so
that the third stops the wrong one and two instances of a channel deliver, out of
order. This one was found in the attempt to prove `InOrder`, which two reloads cannot
violate; it now excepts the channels that are `hidden`. The chunk that a worker posts
while a reload stops its instance may land after later messages of the new instance, one
for each kind of message and worker; and a chunk is shown twice when its post was
accepted but returned an error that is retried (`manager.go:1574-1610`).

### Checked beside the runs

Two properties that are proved as well, and three larger instances of runs, kept out of
them for their size; TLC finds no error in them.

| Configuration | Checks | Says |
|---|---|---|
| `MCMessageBusRest.cfg` | `AtRestOnceClosed` | nothing moves through a bus whose `Close` has returned to anybody |
| `MCSubTurnFate.cfg` | `FateIsFinal` | a background result that was reported as an orphan is never consumed, nor the reverse |
| `MCAgentLoopQueue.cfg` | `TypeOK`, `QueuedInOrder` | with a fourth message, a full steering queue refuses one |
| `MCChannelManagerChunks.cfg` | `TypeOK`, `InOrder`, `NothingStranded`, `Settles` | texts of two chunks, with one reload |
| `MCChannelManagerLate.cfg` | `InOrder` | the three reloads that a late registration needs to hide an instance |

### Bounds, and why they are enough

* `bus`: two publishers, one call each, two closers, one stream that blocks and
  one that drops, capacity 1. One publisher can be anywhere in its call while
  another fills the channel; a second closer meets every state of `closeOnce`;
  both kinds of stream occur. The safety properties are also proved for all values.
* `agent`: one session, one slot, queue of 2, three messages. Three messages are a
  running turn and two queued ones, or one of them and a stop. Sessions share nothing but
  the slots, and waiting for a slot also happens between workers of one session. A queue
  that refuses a message needs a fourth one (`MCAgentLoopQueue.cfg`), and so does the
  violation of run `agent_turns`, with a second slot.
  Safety is proved for all values.
* `turn`: two iterations, one retry, up to two tool calls a response, two steering
  messages, one of them possibly taken before the turn (a continuation). This
  reaches an iteration beyond the limit for steering, skipping of a second call,
  a retry after compaction, and an exhausted retry counter.
* `session`: five messages, so that a truncated, a torn, a glued and two readable
  lines coexist with an older history that is written back. The theorems hold for any
  number.
* `subturn`: three sub-turns on two levels, one slot, a channel of one result, one
  abort and one switch: siblings compete for the slot, a child has a child, a
  channel is full, and the lock is taken twice around a waiting writer.
* `cron`: two jobs, for time 3 or every unit, two calls of either service, two services,
  four units of time, and an `Hour` of one: the loop sleeps one unit when it knows of no
  job and two for a job at time 3, past the `Hour` and past the due time of a job whose
  wake-up is lost.
* `fallback`: three executions, two candidates of which one has a bucket of one
  request a minute, half minutes, one cancellation, and one jump of the clock nobody
  waits for. Two executions overlap in all ways while a third holds the token.
* `channels`: one channel, two texts, queues of one, one retry, two reloads. Channels
  share the lock and the dispatchers only, so a second one adds waiting, which the two
  reloads of one channel also do. The media half of the code is started, closed and
  waited for, but sends nothing. Texts of two chunks are in `MCChannelManagerChunks.cfg`,
  with one reload, and three reloads in `MCChannelManagerLate.cfg`; the theorems cover
  any number.
* `reply`: three messages, two tool calls, answers of two chunks: two answers cross
  while a third waits, and a marker may come and go between two chunks.
* Counters that only bound the state space: `MaxCalls` and `MaxMsgs` of the bus and
  the dispatcher, `MaxCalls` and `MaxSteer` of the turn, `MaxMessages` of the
  store, `MaxTurns`, `MaxSwitches` and `MaxAborts` of sub-turns, `MaxJobs`, `MaxTime`,
  `MaxEdits` and `MaxServices` of cron, `MaxExecs`, `MaxCancels` and `MaxJumps` of the
  chain, `Outbox` and `MaxReloads` of the manager, `MaxMessages` and `MaxTools` of the
  reply. `Slots`, `QueueCap`, `MaxIterations`, `MaxRetries` and `Cap` are
  parameters of the code.
* Three of these counters would also decide liveness, as they make arrivals stop:
  `MaxMsgs` of the dispatcher, `MaxSteer` of the turn and `MaxExecs` of the chain. The
  code bounds none of them, so the properties say it themselves: `ArrivalsStop`,
  `SteeringStops` and `NewcomersStop` are the premises of `WorkersFinish`, `Terminates`
  and `ExecutionsReturn`. Without them the properties are false of the code: messages
  that keep coming keep a turn, and its slot, alive (`turn_coord.go:98`,
  `agent_steering.go:74`), and newcomers may take each token before a sleeper wakes
  (`ratelimiter.go:43`). `Settles` is likewise about a manager whose messages and reloads
  come to an end.

Deadlock is checked in the `turn` runs. The other configurations disable it
because the system may stop: the bus is closed, the loop shut down, the messages
used up.

### Fairness

* Bus: each goroutine inside the bus runs (weak fairness of its steps). The mutex
  is `sync.Mutex`, which starves no waiter, hence strong fairness of taking it.
  Nothing is assumed of consumers, callers or contexts.
* Dispatcher: the main loop and each worker run. Senders blocked on a Go channel
  (`workerSem`) are served in order, hence strong fairness of `Acquire`. Messages
  and shutdown need not come; `WorkersFinish` supposes that messages stop coming.
* Turn: weak fairness of the turn's own goroutine; model calls, tools and hooks
  return, by their timeouts if not otherwise. Users need do nothing;
  `Terminates` supposes that they stop steering.
* Sub-turns: each turn's goroutine, that of `HardAbort` and the writer of a model
  switch run; nobody has to spawn, abort or switch.
* Cron: the loop of each service runs and time passes. Clients need do nothing. A lost
  wake-up leaves the loop asleep for what it knew of, which nothing limits
  (`service.go:141-150`); `DueJobRuns` supposes that the clock leaves it that long
  (`Horizon`).
* Fallback: each execution runs, and the clock reaches the timers somebody waits for;
  calls of a provider return. `ExecutionsReturn` supposes that no more executions start.
* Channel manager: dispatchers, workers and the holder of the lock run; sends return.
  Reloads and stops need not come.
* Store and replies: none; they have no liveness property.

## Proofs

TLAPS checks these for every value of the constants, under the named assumptions
of the modules, which TLC evaluates in the runs: `StreamsAssumption` and
`GoroutinesAssumption` (bus); `SessionsAssumption`, `SlotsAssumption`,
`ModeAssumption` and `BoundsAssumption` (dispatcher); `LimitsAssumption` (turn),
`SubTurnAssumption`, `CronAssumption`, `FallbackAssumption`, `ManagerAssumption` and
`ReplyAssumption`, and `MaxMessagesAssumption` of the store. They say that bounds are natural numbers, that capacities the code
makes positive are, and which records schedules, errors and the like are. So the
bounds of the runs are no bounds of the theorems: these hold for any number of
messages, calls, reloads, jobs, turns and ticks.

None of the safety properties is inductive by itself. Each module strengthens them to an
`Inv`, shows `Init => Inv` and, one lemma per action, that a step keeps it; TLC has
checked each `Inv` on the run's instance first.

`MessageBusProofs`: `TypeCorrect`, `NeverSendsOnClosed`, `CloseIsComplete`,
`NoAddDuringWait` and `RestsOnceClosed`. `Inv` adds `MutexInv` (who holds the mutex is in its critical section, so a check of
`closed` and the `Add` after it are not separated by `CloseMark`), `CloseInv` (how
far `Close` has come, as its closer, `closeOnce` and the counters of closed and
drained channels see it), `QuietInv` (once `wg.Wait` has returned no publisher is
in flight) and `CountInv` (the WaitGroup counts the publishers in flight; per
stream, sent = buffered + received + drained). One lemma per action shows that it
keeps `Inv`; the theorems follow from it, `NoLateEntry` and `AtRestOnceClosed` as step
properties: after `Close` nobody is in flight and every channel is drained, so no action
that would move a message is enabled.

`AgentLoopProofs`: `TypeCorrect`, `SlotsAreExact`, `EntriesAreOwned` and
`QueuesKeepOrder`. `Inv` joins the checked invariants with `ArrivalInv` (messages
that have not arrived have no worker; the main loop has a message in hand when it
queues or stops) and `PanicInv` (a worker that panicked is on its way out).
`NoOrphanEntry` is inductive only with the clause that an entry's owner is a
worker of that session: this is what forbids that a delete by one worker leaves
another's entry dangling. The slots are handled by lemmas about the cardinality
of the set of workers past `workerSem`. With `Slots = 1`, the default of
`MaxParallelTurns`, `SlotsExact` also means that no session has two turns: the slot, not
the claim, guarantees it, as run `agent_turns` shows. For
`QueuesKeepOrder`, `QueueInv` adds that what is queued has arrived and that the message
the main loop has in hand has no worker and is newer than all that is queued; a worker
leaves of each queue a suffix (`Suffix`), the main loop only appends or clears.

`TurnLoopProofs`: `TypeCorrect`, `CallsPaired`, `SteeringIsKept`, `ModelSees` and
`AbortRestoresLog`. In the middle of a round of tools the histories are not paired, so
`PairInv` says which answers are still missing and that nothing else is (`Open`), for
the log, for what the turn has persisted and for what the model is sent. `SeenInv`
says that the model's messages are the end of the log and reach back over everything
the turn has written, which a rebuilt context must restore; `SteerInv` places each
steering message in the queue, in one of the two pending variables or in the log, and
says where in the turn the pending ones must be empty; `RestoreInv` says that until a
compaction the log begins with what the turn found, and that this is what the
goroutine of `HardAbort` has read when it writes. Lemmas about `Open`, appending,
trimming at a boundary and the least and greatest of a set carry the steps.

`SubTurnProofs`: `TypeCorrect`, `SlotsAreExact`, `ResultsHaveOneFate` and
`FateDecidedOnce`. `Inv` adds
`TreeInv` (the caller of a synchronous sub-turn waits for it, and so has one),
`ResultInv` (at which points of `spawnSubTurn` a result and its fate exist) and
`QueueInv` (a channel holds results of the parent's own background children, each
once, and all that were sent and not consumed). `FateIsFinal` is a step property: only
`SendResult` and an orphan's report decide a fate, when the result has none, and what
`Poll` takes was sent.

`StoreProofs`, of `Cron`: `TypeCorrect`, `NoJobTwice` and `NeverOversleeps`. `Inv` adds `StoredInv`
(what is stored has a schedule), `ServiceInv` (only the service in use runs, which makes
the overlap of two services harmless), `FiredInv` (no due time is taken before it has
come), `PlanInv` (what the service in use has planned was not taken, but for what an
update put back) and `SleepInv`, which extends `NoOversleep` to the point where the
timer is armed. The proof rests on two lemmas: the next run of a schedule is later than
the time it is computed at, and the minimum of a set of numbers exists.

`StoreProofs`, of `SessionLog`: `LogTypesHold`, `OrderSurvives`, `TruncationKeepsTheLast`
and `FilesImplementHistory`, the refinement of `SessionHistory`. `LogInv` adds `OrderInv`
(the readable lines are in order and none is newer than what was sent, and so are the
history held and the one about to be written) and `WriteInv` (between its two writes an
operation has the offset at zero, and writes what it read or what was made of a history
held). Underneath are lemmas about the places in a set of numbers (as many have a rank as
there are places, each rank one place) and about what is read of a file: appending a line
that parses adds its message and another line nothing, a file read in two parts is the two
parts read, and as many messages follow a place as readable lines. The refinement maps
`AddMessage` and `AppendTorn` to `AddTorn` or, after a torn line, to `AddGlued`;
truncation to `Truncate`, or to nothing when all is kept; the second write to `Replace` or
`Reclaim`, the first to nothing; and an interruption between the two to `Reappear`.

`FallbackProofs`: `TypeCorrect`, `RateBounded` and `FailuresOnlyLengthen`, the last an
action property. `BucketInv` is the argument for the rate: since each earlier grant a
bucket has lost a token for it and for every later one, and gained what the time
refills. `BackoffInv` bounds what is left of a backoff by the failures counted, without
which a failure of the other kind could shorten it; `ExecInv` gives an execution that
runs a candidate.

`ChannelManagerProofs`: `TypeCorrect`, `DeliversInOrder`, `StrandsNothing` and
`WorkersStayOpen`. `FreshInv` says what is known of versions no reload has made yet,
`RestInv`, `DispatchInv` and `LockInv` what a worker, a dispatcher and the holder of the
lock have in hand, `OpenInv` that until `StopAll` only the goroutine that waits for a
worker closes its queues. `RunInv` is the heart of the order: a worker that can send is
the one the maps hold, unless its channel is hidden or shares an instance; with
`QueueInv` and `AheadInv` everything delivered is then before everything that
worker has. `FlightInv` is about the chunk that is being posted: that of a worker whose
instance was stopped belongs to a message before all that the worker that can send has.
`LateInv` says that a worker of which a chunk has come late posts none any more.

`StreamedReplyProofs`: `TypeCorrect` and `EachShownOnce`. `CountInv` counts, for each
answer, what is shown, queued, being sent and still owed; `StreamInv` says that the marker
of a streamed answer keeps its final message off until it meets another's;
`SkipInv`, `EndedInv` and `FeedbackInv` handle skipped finals and feedback, of which none
passes `preSend` once the marker is stored.

### Only model-checked

* The liveness properties (`CloseReturns`, `PublishersReturn`, `WorkersFinish`,
  `Terminates`, `SubTurnsReturn`, `DueJobRuns`, `ExecutionsReturn`, `Settles`): fairness
  and `ENABLED` are out of the prover's reach. Three of them have the premise that
  arrivals stop, and one that the clock goes far enough (see Bounds and Fairness).
* The violations, which are counterexamples.

## Not modelled

* The event bus: observers, on whose events no other state depends.
* Channel and provider adapters, MCP connections, tools, the web console and the
  command lines, which are most of the repository: clients of external services and
  user interfaces, whose state is elsewhere. Their outcomes are the
  nondeterministic inputs of the models.
* The seahorse context manager (off by default; its transactions are SQLite's), skill
  evolution, routing, configuration, credentials and migration: pure functions,
  conversion or offline analysis.
* Heartbeat, pid file, last-channel state and the media store: a timer, a file or a
  map under one mutex each.
* Within the modelled parts: configuration reload of the agent, which builds a new
  fallback chain and forgets its cooldowns; side questions; system turns on a shared
  session key; the fallback of steering to the global queue; `NoHistory` turns;
  background summaries; `sanitizeHistoryForProvider` (the repair of histories torn by
  an abort, when a request is built); session aliases, `RenameSession` and
  `DeleteSession`; a job file edited by another process; typing, reactions,
  placeholders and tool feedback messages on the screen, and messages that are shown by an
  edit of their placeholder; posts that a platform shows after `Send` has returned; the
  order of the parts in which a channel posts one chunk; synchronous sends.

## Plan

Modelled, in order of importance: the bus and the dispatcher, the turn, the session
store, sub-turns, the channel manager, replies, cron and the fallback chain; proved,
the safety of all of them. What is left is outside the models (see above): first a
configuration reload of the agent and system turns on a shared session key. That an
entry of `activeTurnStates` is only deleted by its own worker is not left to be proved:
it is false, as the deferred cleanup goes by the prefix of the turn ID.
