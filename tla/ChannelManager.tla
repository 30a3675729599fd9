--------------------------- MODULE ChannelManager ---------------------------
(***************************************************************************)
(* The outbound half of the channel manager (pkg/channels/manager.go): one *)
(* dispatcher for each kind of message takes messages off the bus and puts *)
(* them in the queue of their channel's worker, whose goroutines split     *)
(* them into chunks and send each with retries; channels are started,      *)
(* reloaded with a changed configuration and stopped meanwhile.            *)
(*                                                                         *)
(* What a channel does with a message (preSend) is module StreamedReply's; *)
(* one that is shown by an edit of its placeholder is left out here.       *)
(* The kinds stand for text and media, whose code is the same twice.       *)
(*                                                                         *)
(* Send of a channel first sees that the instance runs and then posts,     *)
(* with no lock: the instance may be stopped between.  The platform shows  *)
(* a post before it returns or never, whether it returns an error or not.  *)
(* Where Send posts a chunk in parts, the model has any one of them.       *)
(***************************************************************************)
EXTENDS Integers, Sequences, FiniteSets, SequencesExt

CONSTANTS
    Names,          \* names of channels
    Outbox,         \* for each of the kinds, the channels its messages are for
    Chunks,         \* for each kind, the chunks a message is split into
    QueueSize,      \* capacity of a worker's queue (16 in the code)
    MaxRetries,     \* retries of a chunk (3 in the code)
    MaxReloads      \* bound: reloads

Kinds == {"text", "media"}

ASSUME ManagerAssumption ==
    /\ Outbox \in [Kinds -> Seq(Names)] /\ Chunks \in [Kinds -> Nat \ {0}]
    /\ QueueSize \in Nat \ {0} /\ MaxRetries \in Nat /\ MaxReloads \in Nat

\* Everything made by StartAll has version 1, by the n-th reload n + 1: a channel
\* instance, a worker, and the context their goroutines run in.  None is nil.
Versions == 1 .. (MaxReloads + 1)
None     == 0
VersionOrNone == Versions \cup {None}
Workers  == Names \X Versions

\* The holder of m.mu is a reload's goroutine, StopAll, or nobody; the other
\* holders do not block, and each of them is one step.
Free     == 0
Stopping == MaxReloads + 2

Nobody  == CHOOSE n \in Names : TRUE
NoChunk == [no |-> 0, chunk |-> 0, tries |-> 0, posting |-> FALSE]

VARIABLES
    alive,      \* the process has not panicked or given up
    channels,   \* m.channels: the version of the instance
    workers,    \* m.workers: the version of the worker
    hashes,     \* m.channelHashes: the version of the configuration
    running,    \* the instances that are started
    chanOf,     \* w.ch of each worker: the version of the instance
    gen,        \* versions made so far
    task,       \* m.dispatchTask: the context it can cancel
    canceled,   \* the contexts that are canceled
    queue,      \* w.queue and w.mediaQueue of each worker
    closed,     \* those that are closed
    wpc,        \* control of the worker's goroutines
    cur,        \* the chunk a goroutine sends, and whether its Send has seen the instance
                \* run and posts it
    dpc,        \* control of the dispatchers
    next,       \* the next message on the bus
    target,     \* the worker a dispatcher sends to
    mu,         \* the holder of m.mu
    phase,      \* what the holder waits for
    busy,       \* the channel a goroutine unregisters
    unreg,      \* the channels each reload has still to unregister
    rereg,      \* the channels each reload has still to register
    stopped,    \* StopAll was called
    delivered,  \* history variable: chunks shown, for each channel and kind; late is the
                \* worker's version where the instance did not run any more
    ended,      \* history variable: messages that came to an end
    hidden      \* history variable: channels of which a late registration has put an
                \* old instance before the one a later reload had started

maps     == <<channels, workers, hashes, running, chanOf, gen, task>>
work     == <<queue, wpc, cur>>
dispatch == <<dpc, next, target>>
lock     == <<mu, phase, busy, unreg, rereg>>
history  == <<delivered, ended, hidden>>
vars     == <<alive, maps, canceled, closed, work, dispatch, lock, stopped, history>>

\* NewManager: the enabled channels have hashes; some cannot be initialized.
Init ==
    /\ alive = TRUE
    /\ hashes \in [Names -> {None, 1}]
    /\ \E ok \in SUBSET {n \in Names : hashes[n] = 1} :
          channels = [n \in Names |-> IF n \in ok THEN 1 ELSE None]
    /\ workers = [n \in Names |-> None]
    /\ running = {}
    /\ chanOf = [w \in Workers |-> None]
    /\ gen = 0 /\ task = None /\ canceled = {}
    /\ queue = [w \in Workers |-> [k \in Kinds |-> <<>>]]
    /\ closed = {}
    /\ wpc = [w \in Workers |-> [k \in Kinds |-> "none"]]
    /\ cur = [w \in Workers |-> [k \in Kinds |-> NoChunk]]
    /\ dpc = [k \in Kinds |-> "none"]
    /\ next = [k \in Kinds |-> 1]
    /\ target = [k \in Kinds |-> None]
    /\ mu = Free /\ phase = "none" /\ busy = Nobody
    /\ unreg = [v \in Versions |-> {}] /\ rereg = [v \in Versions |-> {}]
    /\ stopped = FALSE
    /\ delivered = [n \in Names |-> [k \in Kinds |-> <<>>]]
    /\ ended = {} /\ hidden = {}

-----------------------------------------------------------------------------
(* Helpers.  A "Mutant" states the next definition as a plausible bug      *)
(* would; no specification here uses it.                                   *)

\* A panic outside of a reload's goroutine, or a start that gives up.
Dies ==
    /\ alive' = FALSE
    /\ UNCHANGED <<maps, canceled, closed, work, dispatch, lock, stopped, history>>

Registered == {n \in Names : workers[n] # None}
WorkerOf(n) == <<n, workers[n]>>

\* The goroutines that are started for the channels in up, as version v.
Started(up, v) ==
    [w \in Workers |->
        IF w[1] \in up /\ w[2] = v THEN [k \in Kinds |-> "idle"] ELSE wpc[w]]

\* The capacity of a Go channel; the mutant is off by one.
HasRoomMutant(q) == Len(q) <= QueueSize
HasRoom(q)       == Len(q) < QueueSize

\* Where a message of kind k goes; the dispatcher reads both maps under the lock.
DestOf(k) == Outbox[k][next[k]]

\* The contexts a reload cancels: none, it only replaces dispatchTask.  The mutant
\* cancels the task it replaces.
ReloadCancelsMutant == canceled \cup {task}
ReloadCancels       == canceled

\* UnregisterChannel deletes the worker with the channel; the mutant does not.
UnregisteredMutant(n) == workers
Unregistered(n)       == [workers EXCEPT ![n] = None]

\* Whether the goroutine of a closed queue returns; the mutant does so only when its
\* context is canceled.
SeesCloseMutant(w, k) == w[2] \in canceled
SeesClose(w, k) == (<<w, k>> \in closed /\ queue[w][k] = <<>>) \/ w[2] \in canceled

-----------------------------------------------------------------------------
(* Starting and stopping.                                                  *)

\* StartAll: channels that do not start stay in the map, without a worker.
StartAll ==
    /\ alive /\ gen = 0
    /\ \E up \in SUBSET {n \in Names : channels[n] # None} :
          IF up = {} /\ \E n \in Names : channels[n] # None
            THEN Dies
            ELSE /\ gen' = 1 /\ task' = 1
                 /\ running' = {<<n, 1>> : n \in up}
                 /\ workers' = [n \in Names |-> IF n \in up THEN 1 ELSE None]
                 /\ chanOf' = [w \in Workers |-> IF w \in running' THEN 1 ELSE None]
                 /\ wpc' = Started(up, 1)
                 /\ dpc' = [k \in Kinds |-> "idle"]
                 /\ UNCHANGED <<alive, channels, hashes, canceled, closed, queue, cur,
                                next, target, lock, stopped, history>>

\* StopAll cancels the task, closes the queues and waits, the texts first.
StopAll ==
    /\ alive /\ mu = Free /\ gen > 0 /\ ~stopped
    /\ stopped' = TRUE
    /\ canceled' = canceled \cup {task} /\ task' = None
    /\ closed' = closed \cup {<<WorkerOf(n), "text">> : n \in Registered}
    /\ mu' = Stopping /\ phase' = "text"
    /\ UNCHANGED <<alive, channels, workers, hashes, running, chanOf, gen, work,
                   dispatch, busy, unreg, rereg, history>>

AllGone(k) == \A n \in Registered : wpc[WorkerOf(n)][k] = "gone"

StopMedia ==
    /\ alive /\ mu = Stopping /\ phase = "text" /\ AllGone("text")
    /\ closed' = closed \cup {<<WorkerOf(n), "media">> : n \in Registered}
    /\ phase' = "media"
    /\ UNCHANGED <<alive, maps, canceled, work, dispatch, mu, busy, unreg, rereg,
                   stopped, history>>

StopEnd ==
    /\ alive /\ mu = Stopping /\ phase = "media" /\ AllGone("media")
    /\ running' = running \ {<<n, channels[n]>> : n \in Names}
    /\ mu' = Free /\ phase' = "none"
    /\ UNCHANGED <<alive, channels, workers, hashes, chanOf, gen, task, canceled,
                   closed, work, dispatch, busy, unreg, rereg, stopped, history>>

-----------------------------------------------------------------------------
(* Reloading.                                                              *)

\* compareChannels: the channels a configuration removes and adds; one that is changed
\* is in both.  The mutant only adds it.
RemovedMutant(list) == {n \in Names : hashes[n] # None /\ list[n] = None}
Removed(list) == {n \in Names : hashes[n] \notin {None, list[n]}}
Added(list)   == {n \in Names : list[n] = gen + 1}

\* Under the lock: the removed channels are stopped, the added ones initialized (those in
\* ok) and started (those in up).  A channel that is nil is a panic.
ReloadTo(list, ok, up) ==
    LET v    == gen + 1
        chan == [n \in Names |-> IF n \in ok THEN v ELSE channels[n]]
    IN  IF \/ \E n \in Removed(list) : channels[n] = None
           \/ \E n \in Added(list) : chan[n] = None
          THEN Dies
          ELSE /\ channels' = chan
               /\ running' = (running \ {<<n, channels[n]>> : n \in Removed(list)})
                             \cup {<<n, chan[n]>> : n \in up}
               /\ workers' = [n \in Names |-> IF n \in up THEN v ELSE workers[n]]
               /\ chanOf' = [w \in Workers |->
                               IF w[1] \in up /\ w[2] = v THEN chan[w[1]] ELSE chanOf[w]]
               /\ wpc' = Started(up, v)
               /\ gen' = v /\ task' = v /\ hashes' = list
               /\ canceled' = ReloadCancels
               /\ unreg' = [unreg EXCEPT ![v] = Removed(list)]
               /\ rereg' = [rereg EXCEPT ![v] = up]
               /\ UNCHANGED <<alive, closed, queue, cur, dispatch, mu, phase, busy,
                              stopped, history>>

\* A goroutine then unregisters the channels that are removed and registers those that
\* have started.
Reload ==
    /\ alive /\ mu = Free /\ gen \in 1 .. MaxReloads /\ ~stopped
    /\ \E list \in [Names -> VersionOrNone] :
          /\ \A n \in Names : list[n] \in {None, hashes[n], gen + 1}
          /\ \E ok \in SUBSET Added(list), up \in SUBSET Added(list) :
                ReloadTo(list, ok, up)

\* UnregisterChannel, called by the goroutine of the reload that made version v.  It
\* looks the worker up by name; a queue that is closed already is a panic there, which
\* ends the goroutine and nothing else.
Unregister(v) ==
    /\ alive /\ mu = Free
    /\ \E n \in unreg[v] :
         IF workers[n] = None
           THEN /\ channels' = [channels EXCEPT ![n] = None]
                /\ unreg' = [unreg EXCEPT ![v] = @ \ {n}]
                /\ UNCHANGED <<closed, mu, phase, busy, rereg>>
           ELSE IF <<WorkerOf(n), "text">> \in closed
           THEN /\ unreg' = [unreg EXCEPT ![v] = {}]
                /\ rereg' = [rereg EXCEPT ![v] = {}]
                /\ UNCHANGED <<channels, closed, mu, phase, busy>>
           ELSE /\ closed' = closed \cup {<<WorkerOf(n), "text">>}
                /\ mu' = v /\ phase' = "text" /\ busy' = n
                /\ UNCHANGED <<channels, unreg, rereg>>
    /\ UNCHANGED <<alive, workers, hashes, running, chanOf, gen, task, canceled, work,
                   dispatch, stopped, history>>

UnregisterMedia(v) ==
    /\ alive /\ mu = v /\ phase = "text" /\ wpc[WorkerOf(busy)]["text"] = "gone"
    /\ closed' = closed \cup {<<WorkerOf(busy), "media">>}
    /\ phase' = "media"
    /\ UNCHANGED <<alive, maps, canceled, work, dispatch, mu, busy, unreg, rereg,
                   stopped, history>>

UnregisterEnd(v) ==
    /\ alive /\ mu = v /\ phase = "media" /\ wpc[WorkerOf(busy)]["media"] = "gone"
    /\ workers' = Unregistered(busy)
    /\ channels' = [channels EXCEPT ![busy] = None]
    /\ unreg' = [unreg EXCEPT ![v] = @ \ {busy}]
    /\ mu' = Free /\ phase' = "none" /\ busy' = Nobody
    /\ UNCHANGED <<alive, hashes, running, chanOf, gen, task, canceled, closed, work,
                   dispatch, rereg, stopped, history>>

\* RegisterChannel puts the instance it was given in the map, and no worker.
Register(v) ==
    /\ alive /\ mu = Free /\ unreg[v] = {}
    /\ \E n \in rereg[v] :
          /\ channels' = [channels EXCEPT ![n] = chanOf[<<n, v>>]]
          /\ rereg' = [rereg EXCEPT ![v] = @ \ {n}]
          /\ hidden' = IF workers[n] \in {None, v} THEN hidden ELSE hidden \cup {n}
    /\ UNCHANGED <<alive, workers, hashes, running, chanOf, gen, task, canceled, closed,
                   work, dispatch, mu, phase, busy, unreg, stopped, delivered, ended>>

-----------------------------------------------------------------------------
(* The dispatchers.                                                        *)

\* A message for a channel that is unknown or has no worker is skipped.
Lookup(k) ==
    /\ alive /\ dpc[k] = "taken" /\ mu = Free
    /\ IF channels[DestOf(k)] = None \/ workers[DestOf(k)] = None
         THEN /\ ended' = ended \cup {<<k, next[k]>>}
              /\ dpc' = [dpc EXCEPT ![k] = "idle"]
              /\ next' = [next EXCEPT ![k] = @ + 1]
              /\ UNCHANGED target
         ELSE /\ dpc' = [dpc EXCEPT ![k] = "send"]
              /\ target' = [target EXCEPT ![k] = workers[DestOf(k)]]
              /\ UNCHANGED <<next, ended>>
    /\ UNCHANGED <<alive, maps, canceled, closed, work, lock, stopped, delivered, hidden>>

Take(k) ==
    /\ alive /\ dpc[k] = "idle" /\ next[k] <= Len(Outbox[k])
    /\ dpc' = [dpc EXCEPT ![k] = "taken"]
    /\ UNCHANGED <<alive, maps, canceled, closed, work, next, target, lock, stopped,
                   history>>

\* The lock is not held any more: the queue may have been closed since.
Enqueue(k) ==
    LET w == <<DestOf(k), target[k]>>
    IN  /\ alive /\ dpc[k] = "send"
        /\ IF <<w, k>> \in closed
             THEN Dies
             ELSE /\ HasRoom(queue[w][k])
                  /\ queue' = [queue EXCEPT ![w][k] = Append(@, next[k])]
                  /\ dpc' = [dpc EXCEPT ![k] = "idle"]
                  /\ next' = [next EXCEPT ![k] = @ + 1]
                  /\ target' = [target EXCEPT ![k] = None]
                  /\ UNCHANGED <<alive, maps, canceled, closed, wpc, cur, lock, stopped,
                                 history>>

\* Both selects may see that the context of StartAll is done.
Quit(k) ==
    /\ alive /\ dpc[k] \in {"idle", "send"} /\ 1 \in canceled
    /\ dpc' = [dpc EXCEPT ![k] = "gone"]
    /\ UNCHANGED <<alive, maps, canceled, closed, work, next, target, lock, stopped,
                   history>>

-----------------------------------------------------------------------------
(* The goroutines of a worker: runWorker and runMediaWorker.               *)

Receive(w, k) ==
    /\ alive /\ wpc[w][k] = "idle" /\ queue[w][k] # <<>>
    /\ wpc' = [wpc EXCEPT ![w][k] = "send"]
    /\ cur' = [cur EXCEPT ![w][k] = [NoChunk EXCEPT !.no = Head(queue[w][k]), !.chunk = 1]]
    /\ queue' = [queue EXCEPT ![w][k] = Tail(@)]
    /\ UNCHANGED <<alive, maps, canceled, closed, dispatch, lock, stopped, history>>

WorkerEnd(w, k) ==
    /\ alive /\ wpc[w][k] = "idle" /\ SeesClose(w, k)
    /\ wpc' = [wpc EXCEPT ![w][k] = "gone"]
    /\ UNCHANGED <<alive, maps, canceled, closed, queue, cur, dispatch, lock, stopped,
                   history>>

\* A chunk is done with, sent or not: the next one follows in either case.
NextChunk(w, k) ==
    IF cur[w][k].chunk < Chunks[k]
      THEN /\ cur' = [cur EXCEPT ![w][k].chunk = @ + 1, ![w][k].tries = 0,
                                  ![w][k].posting = FALSE]
           /\ UNCHANGED <<queue, wpc, ended>>
      ELSE /\ cur' = [cur EXCEPT ![w][k] = NoChunk]
           /\ wpc' = [wpc EXCEPT ![w][k] = "idle"]
           /\ ended' = ended \cup {<<k, cur[w][k].no>>}
           /\ UNCHANGED queue

Runs(w) == <<w[1], chanOf[w]>> \in running

\* ErrRateLimit, ErrTemporary and any other error is tried again, a number of times.
Retry(w, k) ==
    /\ cur[w][k].tries < MaxRetries
    /\ cur' = [cur EXCEPT ![w][k].tries = @ + 1, ![w][k].posting = FALSE]
    /\ UNCHANGED <<queue, wpc, ended>>

\* Send has seen that its instance runs ...
Send(w, k) ==
    /\ alive /\ wpc[w][k] = "send" /\ ~cur[w][k].posting
    /\ Runs(w)
    /\ cur' = [cur EXCEPT ![w][k].posting = TRUE]
    /\ UNCHANGED <<alive, maps, canceled, closed, queue, wpc, dispatch, lock, stopped, history>>

\* What a channel shows of the chunk that is posted.
Posted(w, k) ==
    [no |-> cur[w][k].no, chunk |-> cur[w][k].chunk, tries |-> cur[w][k].tries,
     late |-> IF Runs(w) THEN None ELSE w[2]]

\* ... and the platform shows the chunk.  It returns no error, or one which is final, or
\* one after which the chunk is sent again.
Deliver(w, k) ==
    /\ alive /\ wpc[w][k] = "send" /\ cur[w][k].posting
    /\ delivered' = [delivered EXCEPT ![w[1]][k] = Append(@, Posted(w, k))]
    /\ NextChunk(w, k) \/ Retry(w, k)
    /\ UNCHANGED <<alive, maps, canceled, closed, dispatch, lock, stopped, hidden>>

\* ErrSendFailed, ErrNotRunning from an instance that was stopped, the last retry, or
\* a context that is done while the chunk waits for its turn.
FailForGood(w, k) ==
    /\ alive /\ wpc[w][k] = "send"
    /\ NextChunk(w, k)
    /\ UNCHANGED <<alive, maps, canceled, closed, dispatch, lock, stopped, delivered,
                   hidden>>

\* A post that is not shown, and whose error is not final.
FailForNow(w, k) ==
    /\ alive /\ wpc[w][k] = "send" /\ cur[w][k].posting
    /\ Retry(w, k)
    /\ UNCHANGED <<alive, maps, canceled, closed, dispatch, lock, stopped, delivered,
                   hidden>>

WorkerStep(w, k) ==
    \/ Receive(w, k) \/ WorkerEnd(w, k)
    \/ Send(w, k) \/ Deliver(w, k) \/ FailForGood(w, k) \/ FailForNow(w, k)

DispatchStep(k) == Take(k) \/ Lookup(k) \/ Enqueue(k) \/ Quit(k)

LockStep ==
    \/ StopMedia \/ StopEnd
    \/ \E v \in Versions :
          Unregister(v) \/ UnregisterMedia(v) \/ UnregisterEnd(v) \/ Register(v)

Next ==
    \/ StartAll \/ StopAll \/ Reload
    \/ LockStep
    \/ \E k \in Kinds : DispatchStep(k)
    \/ \E w \in Workers, k \in Kinds : WorkerStep(w, k)

\* Goroutines that can run do run; nobody has to reload or stop.
Fairness ==
    /\ WF_vars(LockStep)
    /\ \A k \in Kinds : WF_vars(DispatchStep(k))
    /\ \A w \in Workers, k \in Kinds : WF_vars(WorkerStep(w, k))

Spec == Init /\ [][Next]_vars /\ Fairness

-----------------------------------------------------------------------------
(* Properties.                                                             *)

Chunk      == [no : Nat, chunk : Nat, tries : 0 .. MaxRetries, posting : BOOLEAN]
ShownChunk == [no : Nat, chunk : Nat, tries : 0 .. MaxRetries, late : VersionOrNone]

\* The variables keep their types; no queue holds more than QueueSize messages and no
\* chunk is tried more than MaxRetries times again.
TypeOK ==
    /\ alive \in BOOLEAN /\ stopped \in BOOLEAN
    /\ channels \in [Names -> VersionOrNone]
    /\ workers \in [Names -> VersionOrNone]
    /\ hashes \in [Names -> VersionOrNone]
    /\ running \subseteq Workers /\ chanOf \in [Workers -> VersionOrNone]
    /\ gen \in VersionOrNone /\ task \in VersionOrNone /\ canceled \subseteq Versions
    /\ closed \subseteq Workers \X Kinds
    /\ queue \in [Workers -> [Kinds -> Seq(Nat)]]
    /\ wpc \in [Workers -> [Kinds -> {"none", "idle", "send", "gone"}]]
    /\ cur \in [Workers -> [Kinds -> Chunk]]
    /\ \A w \in Workers, k \in Kinds :
          /\ Len(queue[w][k]) <= QueueSize
          /\ cur[w][k].no <= Len(Outbox[k]) /\ cur[w][k].chunk <= Chunks[k]
    /\ dpc \in [Kinds -> {"none", "idle", "taken", "send", "gone"}]
    /\ target \in [Kinds -> VersionOrNone]
    /\ next \in [Kinds -> Nat \ {0}]
    /\ \A k \in Kinds : next[k] <= Len(Outbox[k]) + 1
    /\ mu \in VersionOrNone \cup {Stopping} /\ phase \in {"none", "text", "media"}
    /\ (mu = Free) = (phase = "none") /\ busy \in Names \cup {Nobody}
    /\ unreg \in [Versions -> SUBSET Names] /\ rereg \in [Versions -> SUBSET Names]
    /\ delivered \in [Names -> [Kinds -> Seq(ShownChunk)]]
    /\ ended \subseteq Kinds \X Nat /\ hidden \subseteq Names

\* No two workers of a channel share its instance.  A reload makes them do so when the
\* new configuration of a channel gives no instance: it starts the old one once more.
OwnInstance(n) == \A v \in Versions : chanOf[<<n, v>>] \in {None, v}

\* By message, chunk and attempt.
Before(a, b) ==
    \/ a.no < b.no
    \/ a.no = b.no /\ a.chunk < b.chunk
    \/ a.no = b.no /\ a.chunk = b.chunk /\ a.tries < b.tries

\* What a channel shows (runWorker, sendWithRetry) is in the order of the bus, chunks
\* missing perhaps, and one shown again only by a later attempt at it - also while the
\* workers of a channel before and after a reload, which nobody stops, send at the same
\* time, each its instance.  Only the chunk that a worker was posting when its instance
\* was stopped may come late: one for each kind, as the next one sees that it is stopped.
\* An instance that a late registration has hidden is stopped by no reload any more.
InOrder ==
    \A n \in Names \ hidden, k \in Kinds : OwnInstance(n) =>
        \A i, j \in DOMAIN delivered[n][k] : i < j =>
            LET a == delivered[n][k][i]
                b == delivered[n][k][j]
            IN  IF b.late = None THEN Before(a, b) ELSE a.late # b.late

\* Until StopAll, a message taken off the bus has come to an end - sent, failed, or
\* skipped with a warning - or a goroutine that is alive still has it: no reload
\* leaves one in a queue that nobody reads.
NothingStranded ==
    ~stopped =>
        \A k \in Kinds : \A m \in 1 .. next[k] - 1 :
            \/ <<k, m>> \in ended
            \/ \E w \in Workers :
                  /\ wpc[w][k] \in {"idle", "send"}
                  /\ cur[w][k].no = m \/ \E i \in DOMAIN queue[w][k] : queue[w][k][i] = m

\* The worker the manager has for a name takes messages, once the lock is free:
\* unregistering and reloading leave no worker in the map with its queue closed.
WorkersAreOpen ==
    mu = Free /\ ~stopped =>
        \A n \in Registered, k \in Kinds :
            <<WorkerOf(n), k>> \notin closed /\ wpc[WorkerOf(n)][k] \in {"idle", "send"}

\* Nobody holds or wants the lock, and no dispatcher and no worker has work left.
Settled ==
    /\ mu = Free
    /\ \A v \in Versions : unreg[v] = {} /\ rereg[v] = {}
    /\ \A k \in Kinds : dpc[k] \notin {"taken", "send"}
    /\ \A w \in Workers, k \in Kinds :
          wpc[w][k] \in {"none", "gone"} \/ (wpc[w][k] = "idle" /\ queue[w][k] = <<>>)
\* StopAll and the goroutines of reloads, which wait for workers under the lock, get
\* through, and all that was queued is worked off or given up.
Settles == <>[](alive => Settled)

\* SendToChannel's comment (manager.go:2123): a direct send to a channel, for want of
\* a worker, should not happen.  It does for a channel that runs: the goroutine of a
\* reload that changed the channel has closed its new worker.
RunningHasWorker ==
    mu = Free /\ ~stopped /\ (\A v \in Versions : unreg[v] = {} /\ rereg[v] = {}) =>
        \A n \in Names :
            <<n, channels[n]>> \in running => workers[n] # None

=============================================================================
