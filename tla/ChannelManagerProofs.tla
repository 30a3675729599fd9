------------------------- MODULE ChannelManagerProofs -------------------------
(***************************************************************************)
(* Proofs about ChannelManager, for any channels, messages, chunks and     *)
(* reloads.  The inductive invariant says what is known of workers that no *)
(* reload has made yet (FreshInv), what closes a queue (OpenInv), that the *)
(* worker whose instance runs is the one the manager has (RunInv), and     *)
(* that what was delivered, or is still posted for an instance that was    *)
(* stopped, is behind what such a worker has (AheadInv, FlightInv).        *)
(***************************************************************************)
EXTENDS ChannelManager, TLAPS

-----------------------------------------------------------------------------
(* The inductive invariant.                                                *)

Alive(w, k) == wpc[w][k] \in {"idle", "send"}

\* A dispatcher has a message to send, and a worker that was started.
DispatchInv ==
    \A k \in Kinds :
        /\ dpc[k] \in {"taken", "send"} => next[k] <= Len(Outbox[k])
        /\ dpc[k] = "send" => target[k] # None /\ wpc[<<DestOf(k), target[k]>>][k] # "none"

\* Nothing is known of versions that were not made yet; the task is the last one's.
FreshInv ==
    /\ gen > 0 /\ ~stopped => task = gen
    /\ gen = 0 => \A n \in Names : channels[n] # None => channels[n] = 1 /\ hashes[n] # None
    /\ \A n \in Names :
          /\ workers[n] <= gen /\ (hashes[n] <= gen \/ hashes[n] = 1)
          /\ gen > 0 => channels[n] <= gen
    /\ \A w \in Workers : chanOf[w] <= gen
    /\ \A w \in Workers : w[2] > gen =>
          /\ chanOf[w] = None /\ w \notin running
          /\ \A k \in Kinds : wpc[w][k] = "none" /\ <<w, k>> \notin closed
    /\ \A v \in Versions : v > gen => unreg[v] = {} /\ rereg[v] = {}

\* What a worker holds while it has not begun, or waits.
RestInv ==
    /\ \A w \in Workers, k \in Kinds :
          /\ wpc[w][k] = "none" => queue[w][k] = <<>>
          /\ wpc[w][k] # "send" => cur[w][k] = NoChunk
    /\ \A n \in Registered, k \in Kinds : wpc[WorkerOf(n)][k] # "none"

\* The goroutine that holds the lock unregisters a worker that is in the map.
LockInv ==
    mu \in Versions =>
        /\ busy \in Names /\ workers[busy] # None
        /\ phase = "media" => wpc[WorkerOf(busy)]["text"] = "gone"

\* Until StopAll only UnregisterChannel closes queues, of the worker it waits for, and
\* only workers with a closed queue end.
OpenInv ==
    ~stopped =>
        /\ canceled = {} /\ mu # Stopping
        /\ \A n \in Registered, k \in Kinds :
              <<WorkerOf(n), k>> \in closed => mu # Free /\ busy = n
        /\ \A w \in Workers, k \in Kinds : wpc[w][k] = "gone" => <<w, k>> \in closed

\* A worker has its messages in the order of the bus.
QueueInv ==
    \A w \in Workers, k \in Kinds :
        /\ \A i \in DOMAIN queue[w][k] :
              queue[w][k][i] \in 1 .. next[k] - 1 /\ cur[w][k].no < queue[w][k][i]
        /\ \A i, j \in DOMAIN queue[w][k] : i < j => queue[w][k][i] < queue[w][k][j]
        /\ cur[w][k].no < next[k]
        /\ wpc[w][k] = "send" => cur[w][k].no >= 1

\* The worker of version v can send to its channel.
CanSend(n, v, k) == <<n, chanOf[<<n, v>>]>> \in running /\ Alive(<<n, v>>, k)

\* The channels of which InOrder speaks.
Plain(n) == n \notin hidden /\ OwnInstance(n)

\* Only the worker the manager has can send to the channel, with the instance it has.
RunInv ==
    \A n \in Names, v \in Versions, k \in Kinds :
        Plain(n) /\ CanSend(n, v, k) => channels[n] = v /\ workers[n] = v /\ hashes[n] # None

\* What was delivered was taken off the bus, before anything the worker has that can send.
AheadInv ==
    \A n \in Names, k \in Kinds : \A i \in DOMAIN delivered[n][k] :
        /\ delivered[n][k][i].no < next[k]
        /\ \A v \in Versions : Plain(n) /\ CanSend(n, v, k) =>
              /\ \A j \in DOMAIN queue[<<n, v>>][k] :
                    delivered[n][k][i].no < queue[<<n, v>>][k][j]
              /\ wpc[<<n, v>>][k] = "send" => Before(delivered[n][k][i], cur[<<n, v>>][k])

\* A worker posts a chunk, and its instance was stopped since.
InFlight(n, u, k) == cur[<<n, u>>][k].posting /\ ~Runs(<<n, u>>)

\* That chunk is of a message before all that the worker has that can send.
FlightInv ==
    \A n \in Names, u, v \in Versions, k \in Kinds :
        Plain(n) /\ CanSend(n, v, k) /\ InFlight(n, u, k) =>
            /\ \A j \in DOMAIN queue[<<n, v>>][k] :
                  cur[<<n, u>>][k].no < queue[<<n, v>>][k][j]
            /\ wpc[<<n, v>>][k] = "send" => cur[<<n, u>>][k].no < cur[<<n, v>>][k].no

\* A worker of which a chunk was late cannot post any more.
LateInv ==
    \A n \in Names, k \in Kinds, v \in Versions : OwnInstance(n) =>
        \A i \in DOMAIN delivered[n][k] : delivered[n][k][i].late = v =>
            v <= gen /\ ~Runs(<<n, v>>) /\ ~cur[<<n, v>>][k].posting

Inv ==
    /\ TypeOK /\ DispatchInv /\ FreshInv /\ RestInv /\ LockInv /\ OpenInv /\ QueueInv
    /\ RunInv /\ AheadInv /\ FlightInv /\ LateInv /\ NothingStranded /\ InOrder

-----------------------------------------------------------------------------
(* What the steps do.                                                      *)

\* Nothing happens, but for a process that dies.
Still == UNCHANGED <<maps, canceled, closed, work, dispatch, lock, stopped, history>>

LEMMA Types ==
  ASSUME TypeOK
  PROVE  /\ queue \in [Workers -> [Kinds -> Seq(Nat)]]
         /\ wpc \in [Workers -> [Kinds -> {"none", "idle", "send", "gone"}]]
         /\ cur \in [Workers -> [Kinds -> Chunk]]
         /\ \A w \in Workers, k \in Kinds :
               /\ queue[w][k] \in Seq(Nat) /\ DOMAIN queue[w][k] = 1 .. Len(queue[w][k])
               /\ Len(queue[w][k]) \in Nat /\ \A i \in DOMAIN queue[w][k] : queue[w][k][i] \in Nat
               /\ wpc[w][k] \in {"none", "idle", "send", "gone"}
               /\ cur[w][k].no \in Nat /\ cur[w][k].chunk \in Nat
         /\ \A w \in Workers : w[1] \in Names /\ w[2] \in Versions /\ w = <<w[1], w[2]>>
         /\ \A n \in Names, v \in Versions : <<n, v>> \in Workers
         /\ \A n \in Registered : n \in Names /\ workers[n] \in Versions /\ WorkerOf(n) \in Workers
         /\ next \in [Kinds -> Nat \ {0}]
         /\ gen \in Nat /\ MaxReloads \in Nat /\ Versions \subseteq Nat /\ None = 0
         /\ None \notin Versions
<1>1. /\ queue \in [Workers -> [Kinds -> Seq(Nat)]]
      /\ wpc \in [Workers -> [Kinds -> {"none", "idle", "send", "gone"}]]
      /\ cur \in [Workers -> [Kinds -> Chunk]]
      /\ next \in [Kinds -> Nat \ {0}]
  BY DEF TypeOK
<1>2. /\ MaxReloads \in Nat /\ Versions \subseteq Nat /\ None = 0 /\ None \notin Versions
  BY ManagerAssumption DEF Versions, None
<1>3. gen \in Nat
  BY <1>2 DEF TypeOK, VersionOrNone
<1>4. /\ \A w \in Workers : w[1] \in Names /\ w[2] \in Versions /\ w = <<w[1], w[2]>>
      /\ \A n \in Names, v \in Versions : <<n, v>> \in Workers
  BY DEF Workers
<1>5. \A n \in Registered : n \in Names /\ workers[n] \in Versions /\ WorkerOf(n) \in Workers
  BY <1>4 DEF TypeOK, Registered, VersionOrNone, WorkerOf
<1>6. \A w \in Workers, k \in Kinds :
         /\ queue[w][k] \in Seq(Nat) /\ DOMAIN queue[w][k] = 1 .. Len(queue[w][k])
         /\ Len(queue[w][k]) \in Nat /\ \A i \in DOMAIN queue[w][k] : queue[w][k][i] \in Nat
         /\ wpc[w][k] \in {"none", "idle", "send", "gone"}
         /\ cur[w][k].no \in Nat /\ cur[w][k].chunk \in Nat
  <2> SUFFICES ASSUME NEW w \in Workers, NEW k \in Kinds
               PROVE  /\ queue[w][k] \in Seq(Nat) /\ DOMAIN queue[w][k] = 1 .. Len(queue[w][k])
                      /\ Len(queue[w][k]) \in Nat
                      /\ \A i \in DOMAIN queue[w][k] : queue[w][k][i] \in Nat
                      /\ wpc[w][k] \in {"none", "idle", "send", "gone"}
                      /\ cur[w][k].no \in Nat /\ cur[w][k].chunk \in Nat
    OBVIOUS
  <2>1. queue[w][k] \in Seq(Nat) /\ wpc[w][k] \in {"none", "idle", "send", "gone"}
        /\ cur[w][k] \in Chunk
    BY <1>1
  <2> QED
    BY SMTT(20), <2>1 DEF Chunk
<1> QED
  BY <1>1, <1>2, <1>3, <1>4, <1>5, <1>6

LEMMA Numbers ==
  ASSUME TypeOK
  PROVE  /\ gen \in Nat
         /\ \A n \in Names : workers[n] \in Nat /\ hashes[n] \in Nat /\ channels[n] \in Nat
         /\ \A w \in Workers : /\ w[1] \in Names /\ w[2] \in Versions /\ w = <<w[1], w[2]>>
                               /\ chanOf[w] \in Nat /\ w[2] \in Nat
<1>1. VersionOrNone \subseteq Nat
  BY Types DEF VersionOrNone
<1>2. \A n \in Names : workers[n] \in Nat /\ hashes[n] \in Nat /\ channels[n] \in Nat
  BY <1>1 DEF TypeOK
<1>3. \A w \in Workers : chanOf[w] \in Nat
  BY <1>1 DEF TypeOK
<1> QED
  BY <1>2, <1>3, Types

\* The goroutines of the channels in up start, with version v, which is new.
Starts(up, v) ==
    /\ \A n \in Names : workers'[n] = IF n \in up THEN v ELSE workers[n]
    /\ \A n \in Names, u \in Versions :
          u # v \/ n \notin up => /\ chanOf'[<<n, u>>] = chanOf[<<n, u>>]
                                  /\ \A k \in Kinds : wpc'[<<n, u>>][k] = wpc[<<n, u>>][k]
    /\ \A n \in up, k \in Kinds : wpc'[<<n, v>>][k] = "idle"
    /\ gen' = v /\ task' = v
    /\ UNCHANGED <<canceled, closed, queue, cur, next, target, mu, phase, busy, stopped, history>>

StartsAll(up) ==
    /\ gen = 0 /\ up \subseteq Names /\ \A n \in up : channels[n] # None
    /\ Starts(up, 1)
    /\ running' = {<<n, 1>> : n \in up}
    /\ \A n \in up : chanOf'[<<n, 1>>] = 1
    /\ dpc' = [k \in Kinds |-> "idle"]
    /\ UNCHANGED <<channels, hashes, unreg, rereg>>

LEMMA StartAllSays ==
  ASSUME TypeOK, FreshInv, RestInv, StartAll
  PROVE  Still \/ \E up : StartsAll(up)
<1> USE DEF maps, work, dispatch, lock, history
<1>1. CASE Dies
  BY <1>1 DEF Dies, Still
<1>2. CASE ~Dies
  <2>1. PICK up \in SUBSET {n \in Names : channels[n] # None} :
           /\ gen' = 1 /\ task' = 1
           /\ running' = {<<n, 1>> : n \in up}
           /\ workers' = [n \in Names |-> IF n \in up THEN 1 ELSE None]
           /\ chanOf' = [w \in Workers |-> IF w \in running' THEN 1 ELSE None]
           /\ wpc' = Started(up, 1)
           /\ dpc' = [k \in Kinds |-> "idle"]
           /\ UNCHANGED <<alive, channels, hashes, canceled, closed, queue, cur,
                          next, target, lock, stopped, history>>
    BY <1>2 DEF StartAll
  <2>2. gen = 0 /\ up \subseteq Names /\ 1 \in Versions
    BY <2>1, ManagerAssumption DEF StartAll, Versions
  <2>3. \A n \in Names : workers[n] = None
    <3>1. \A n \in Names : workers[n] <= 0 /\ workers[n] \in Nat
      <4>1. workers \in [Names -> Versions \cup {None}]
        BY DEF TypeOK, VersionOrNone
      <4>2. \A n \in Names : workers[n] <= gen
        BY DEF FreshInv
      <4> QED
        BY <2>2, <4>1, <4>2, Types
    <3> QED
      BY <3>1, Types
  <2>4. \A w \in Workers : chanOf[w] = None
    BY <2>2, Types DEF FreshInv, Versions
  <2>5. \A n \in Names, u \in Versions : <<n, u>> \in Workers /\ <<n, u>>[1] = n /\ <<n, u>>[2] = u
    BY Types
  <2>6. \A n \in Names, u \in Versions :
           /\ chanOf'[<<n, u>>] = IF n \in up /\ u = 1 THEN 1 ELSE None
           /\ \A k \in Kinds :
                 wpc'[<<n, u>>][k] = IF n \in up /\ u = 1 THEN "idle" ELSE wpc[<<n, u>>][k]
    BY ZenonT(20), <2>1, <2>5 DEF Started
  <2>7. Starts(up, 1)
    <3>1. \A n \in Names : workers'[n] = IF n \in up THEN 1 ELSE workers[n]
      BY <2>1, <2>3
    <3>2. \A n \in Names, u \in Versions :
             u # 1 \/ n \notin up => /\ chanOf'[<<n, u>>] = chanOf[<<n, u>>]
                                    /\ \A k \in Kinds : wpc'[<<n, u>>][k] = wpc[<<n, u>>][k]
      <4> SUFFICES ASSUME NEW n \in Names, NEW u \in Versions, u # 1 \/ n \notin up
                   PROVE  /\ chanOf'[<<n, u>>] = chanOf[<<n, u>>]
                          /\ \A k \in Kinds : wpc'[<<n, u>>][k] = wpc[<<n, u>>][k]
        OBVIOUS
      <4>1. chanOf'[<<n, u>>] = None /\ chanOf[<<n, u>>] = None
        BY <2>4, <2>5, <2>6
      <4>2. \A k \in Kinds : wpc'[<<n, u>>][k] = wpc[<<n, u>>][k]
        BY <2>6
      <4> QED
        BY <4>1, <4>2
    <3>3. \A n \in up, k \in Kinds : wpc'[<<n, 1>>][k] = "idle"
      BY <2>2, <2>6
    <3>4. UNCHANGED <<canceled, closed, queue, cur, next, target, mu, phase, busy, stopped, history>>
          /\ gen' = 1 /\ task' = 1
      BY <2>1
    <3> QED
      BY <3>1, <3>2, <3>3, <3>4 DEF Starts
  <2> QED
    BY <2>1, <2>2, <2>5, <2>6, <2>7 DEF StartsAll
<1> QED
  BY <1>1, <1>2

Reloads(list, ok, up) ==
    LET v == gen + 1
    IN  /\ gen \in 1 .. MaxReloads /\ mu = Free /\ ~stopped
        /\ list \in [Names -> VersionOrNone] /\ ok \subseteq Names /\ up \subseteq Names
        /\ \A n \in Names : list[n] \in {None, hashes[n], v}
        /\ \A n \in ok \cup up : list[n] = v
        /\ \A n \in Names : hashes[n] \notin {None, list[n]} => channels[n] # None
        /\ \A n \in Names : channels'[n] = IF n \in ok THEN v ELSE channels[n]
        /\ \A n \in up : channels'[n] # None /\ chanOf'[<<n, v>>] = channels'[n]
        /\ Starts(up, v)
        /\ \A n \in Names, u \in VersionOrNone :
              <<n, u>> \in running' <=>
                  \/ <<n, u>> \in running /\ ~(hashes[n] \notin {None, list[n]} /\ u = channels[n])
                  \/ n \in up /\ u = channels'[n]
        /\ hashes' = list
        /\ UNCHANGED dpc
        /\ \A u \in Versions : u # v => unreg'[u] = unreg[u] /\ rereg'[u] = rereg[u]

LEMMA ReloadSays ==
  ASSUME TypeOK, FreshInv, Reload
  PROVE  Still \/ \E list, ok, up : Reloads(list, ok, up)
<1> USE DEF maps, work, dispatch, lock, history
<1>1. PICK list \in [Names -> VersionOrNone] :
         /\ \A n \in Names : list[n] \in {None, hashes[n], gen + 1}
         /\ \E ok \in SUBSET Added(list), up \in SUBSET Added(list) : ReloadTo(list, ok, up)
  BY DEF Reload
<1>2. PICK ok \in SUBSET Added(list), up \in SUBSET Added(list) : ReloadTo(list, ok, up)
  BY <1>1
<1>3. CASE Dies
  BY <1>3 DEF Dies, Still
<1>4. CASE ~Dies
  <2> DEFINE v == gen + 1
  <2>1. /\ mu = Free /\ gen \in 1 .. MaxReloads /\ ~stopped
        /\ list \in [Names -> VersionOrNone] /\ ok \subseteq Names /\ up \subseteq Names
        /\ \A n \in Names : list[n] \in {None, hashes[n], v}
        /\ \A n \in ok \cup up : list[n] = v
    BY <1>1, <1>2 DEF Reload, Added
  <2>2. v \in Versions
    BY <2>1, ManagerAssumption DEF Versions
  <2> DEFINE chan == [n \in Names |-> IF n \in ok THEN v ELSE channels[n]]
  <2>3. /\ \A n \in Removed(list) : channels[n] # None
        /\ \A n \in Added(list) : chan[n] # None
        /\ channels' = chan
        /\ running' = (running \ {<<n, channels[n]>> : n \in Removed(list)})
                      \cup {<<n, chan[n]>> : n \in up}
        /\ workers' = [n \in Names |-> IF n \in up THEN v ELSE workers[n]]
        /\ chanOf' = [w \in Workers |->
                        IF w[1] \in up /\ w[2] = v THEN chan[w[1]] ELSE chanOf[w]]
        /\ wpc' = Started(up, v)
        /\ gen' = v /\ task' = v /\ hashes' = list /\ canceled' = canceled
        /\ unreg' = [unreg EXCEPT ![v] = Removed(list)]
        /\ rereg' = [rereg EXCEPT ![v] = up]
        /\ UNCHANGED <<alive, closed, queue, cur, dispatch, mu, phase, busy, stopped, history>>
    BY <1>2, <1>4 DEF ReloadTo, ReloadCancels
  <2> HIDE DEF v
  <2>4. \A n \in Names, u \in Versions : <<n, u>> \in Workers /\ <<n, u>>[1] = n /\ <<n, u>>[2] = u
    BY Types
  <2>5. Starts(up, v)
    <3>1. \A n \in Names, u \in Versions :
             chanOf'[<<n, u>>] = IF n \in up /\ u = v THEN chan[n] ELSE chanOf[<<n, u>>]
      BY <2>3, <2>4
    <3>2. \A n \in Names, u \in Versions : \A k \in Kinds :
             wpc'[<<n, u>>][k] = IF n \in up /\ u = v THEN "idle" ELSE wpc[<<n, u>>][k]
      BY <2>3, <2>4 DEF Started
    <3>3. \A n \in Names : workers'[n] = IF n \in up THEN v ELSE workers[n]
      BY <2>3
    <3> HIDE DEF chan
    <3> QED
      BY <2>1, <2>2, <2>3, <3>1, <3>2, <3>3 DEF Starts
  <2>6. \A n \in up : channels'[n] # None /\ chanOf'[<<n, v>>] = channels'[n]
    BY <1>2, <2>1, <2>2, <2>3, <2>4
  <2>7. \A n \in Names, u \in VersionOrNone :
           <<n, u>> \in running' <=>
               \/ <<n, u>> \in running /\ ~(hashes[n] \notin {None, list[n]} /\ u = channels[n])
               \/ n \in up /\ u = channels'[n]
    BY <2>1, <2>3 DEF Removed
  <2>8. \A n \in Names : hashes[n] \notin {None, list[n]} => channels[n] # None
    BY <2>3 DEF Removed
  <2>9. \A n \in Names : channels'[n] = IF n \in ok THEN v ELSE channels[n]
    BY <2>3
  <2>10. \A u \in Versions : u # v => unreg'[u] = unreg[u] /\ rereg'[u] = rereg[u]
    BY <2>3 DEF TypeOK
  <2>11. hashes' = list /\ UNCHANGED dpc
    BY <2>3
  <2>12. Reloads(list, ok, up)
    BY <2>1, <2>5, <2>6, <2>7, <2>8, <2>9, <2>10, <2>11 DEF Reloads, v
  <2> QED
    BY <2>12
<1> QED
  BY <1>3, <1>4

\* A step that changes no worker and no dispatcher, and stops instances perhaps.
Locks ==
    /\ StopAll \/ LockStep
    /\ UNCHANGED <<hashes, chanOf, gen, queue, wpc, cur, dispatch, delivered, ended>>
    /\ running' \subseteq running /\ hidden \subseteq hidden'
    /\ stopped => stopped'

LEMMA LocksSays ==
  ASSUME StopAll \/ LockStep
  PROVE  Locks
<1> USE DEF maps, work, dispatch, lock, history, Locks
<1>1. CASE StopAll
  BY <1>1 DEF StopAll
<1>2. CASE StopMedia \/ StopEnd
  BY <1>2 DEF StopMedia, StopEnd
<1>3. ASSUME NEW v \in Versions, Unregister(v) \/ UnregisterMedia(v) \/ UnregisterEnd(v)
      PROVE  Locks
  BY <1>3 DEF Unregister, UnregisterMedia, UnregisterEnd
<1>4. ASSUME NEW v \in Versions, Register(v)
      PROVE  Locks
  BY <1>4 DEF Register
<1> QED
  BY <1>1, <1>2, <1>3, <1>4 DEF LockStep

\* A step of the dispatcher of kind k.
Takes(k) ==
    /\ dpc[k] = "idle" /\ next[k] <= Len(Outbox[k]) /\ dpc'[k] = "taken"
    /\ next'[k] = next[k] /\ UNCHANGED <<queue, ended>>
Skips(k) ==
    /\ dpc[k] = "taken" /\ dpc'[k] = "idle" /\ next'[k] = next[k] + 1
    /\ ended' = ended \cup {<<k, next[k]>>} /\ UNCHANGED queue
Finds(k) ==
    /\ dpc[k] = "taken" /\ dpc'[k] = "send" /\ next'[k] = next[k]
    /\ target'[k] = workers[DestOf(k)] /\ workers[DestOf(k)] # None
    /\ UNCHANGED <<queue, ended>>
Enqueues(k, w) ==
    /\ dpc[k] = "send" /\ dpc'[k] = "idle" /\ next'[k] = next[k] + 1
    /\ w = <<DestOf(k), target[k]>> /\ w \in Workers
    /\ next[k] <= Len(Outbox[k])
    /\ <<w, k>> \notin closed /\ Len(queue[w][k]) < QueueSize
    /\ queue'[w][k] = Append(queue[w][k], next[k])
    /\ \A u \in Workers, j \in Kinds : u # w \/ j # k => queue'[u][j] = queue[u][j]
    /\ UNCHANGED ended
Quits(k) ==
    /\ dpc'[k] = "gone" /\ next'[k] = next[k] /\ UNCHANGED <<queue, ended>>

Dispatches(k) ==
    /\ UNCHANGED <<maps, canceled, closed, wpc, cur, lock, stopped, delivered, hidden>>
    /\ \A j \in Kinds : j # k => dpc'[j] = dpc[j] /\ next'[j] = next[j] /\ target'[j] = target[j]
    /\ Takes(k) \/ Skips(k) \/ Finds(k) \/ Quits(k) \/ \E w : Enqueues(k, w)

LEMMA DispatchSays ==
  ASSUME TypeOK, DispatchInv, NEW k \in Kinds, DispatchStep(k)
  PROVE  Still \/ Dispatches(k)
<1> USE DEF maps, work, dispatch, lock, history
<1>1. CASE Take(k)
  <2>1. Takes(k)
    BY <1>1 DEF Take, Takes, TypeOK
  <2> QED
    BY <1>1, <2>1 DEF Take, Dispatches, TypeOK
<1>2. CASE Lookup(k)
  <2>1. CASE channels[DestOf(k)] = None \/ workers[DestOf(k)] = None
    <3>1. Skips(k)
      BY <1>2, <2>1 DEF Lookup, Skips, TypeOK
    <3> QED
      BY <1>2, <2>1, <3>1 DEF Lookup, Dispatches, TypeOK
  <2>2. CASE ~(channels[DestOf(k)] = None \/ workers[DestOf(k)] = None)
    <3>1. Finds(k)
      BY <1>2, <2>2 DEF Lookup, Finds, TypeOK
    <3> QED
      BY <1>2, <2>2, <3>1 DEF Lookup, Dispatches, TypeOK
  <2> QED
    BY <2>1, <2>2
<1>3. CASE Enqueue(k)
  <2> DEFINE w == <<DestOf(k), target[k]>>
  <2>1. CASE <<w, k>> \in closed
    BY <1>3, <2>1 DEF Enqueue, Dies, Still
  <2>2. CASE <<w, k>> \notin closed
    <3>1. /\ dpc[k] = "send" /\ HasRoom(queue[w][k])
          /\ queue' = [queue EXCEPT ![w][k] = Append(queue[w][k], next[k])]
          /\ dpc' = [dpc EXCEPT ![k] = "idle"]
          /\ next' = [next EXCEPT ![k] = next[k] + 1]
          /\ target' = [target EXCEPT ![k] = None]
          /\ UNCHANGED <<alive, maps, canceled, closed, wpc, cur, lock, stopped, history>>
      BY <1>3, <2>2 DEF Enqueue
    <3>2. next[k] <= Len(Outbox[k]) /\ target[k] # None
      BY <3>1 DEF DispatchInv
    <3>3. DestOf(k) \in Names
      <4>1. Outbox[k] \in Seq(Names) /\ next[k] \in 1 .. Len(Outbox[k])
        BY <3>2, ManagerAssumption, Types
      <4> QED
        BY <4>1 DEF DestOf
    <3>4. w \in Workers
      BY <3>2, <3>3 DEF TypeOK, VersionOrNone, Workers
    <3> HIDE DEF w
    <3>5. /\ queue'[w][k] = Append(queue[w][k], next[k])
          /\ \A u \in Workers, j \in Kinds : u # w \/ j # k => queue'[u][j] = queue[u][j]
      BY <3>1, <3>4, Types
    <3>6. dpc'[k] = "idle" /\ next'[k] = next[k] + 1
          /\ \A j \in Kinds : j # k => dpc'[j] = dpc[j] /\ next'[j] = next[j] /\ target'[j] = target[j]
      BY <3>1 DEF TypeOK
    <3>7. Enqueues(k, w)
      BY <2>2, <3>1, <3>2, <3>4, <3>5, <3>6 DEF Enqueues, HasRoom, w
    <3> QED
      BY <3>1, <3>6, <3>7 DEF Dispatches
  <2> QED
    BY <2>1, <2>2
<1>4. CASE Quit(k)
  <2>1. Quits(k)
    BY <1>4 DEF Quit, Quits, TypeOK
  <2> QED
    BY <1>4, <2>1 DEF Quit, Dispatches, TypeOK
<1> QED
  BY <1>1, <1>2, <1>3, <1>4 DEF DispatchStep

\* A step of the goroutine of worker w for kind k.
Receives(w, k) ==
    /\ wpc[w][k] = "idle" /\ queue[w][k] # <<>> /\ wpc'[w][k] = "send"
    /\ cur'[w][k].no = Head(queue[w][k]) /\ cur'[w][k].chunk = 1 /\ ~cur'[w][k].posting
    /\ queue'[w][k] = Tail(queue[w][k])
    /\ UNCHANGED <<delivered, ended>>
Leaves(w, k) ==
    /\ wpc[w][k] = "idle" /\ wpc'[w][k] = "gone" /\ SeesClose(w, k)
    /\ cur'[w][k] = cur[w][k] /\ queue'[w][k] = queue[w][k]
    /\ UNCHANGED <<delivered, ended>>
Begins(w, k) ==
    /\ wpc'[w][k] = "send" /\ Runs(w) /\ cur'[w][k].posting
    /\ cur'[w][k].no = cur[w][k].no /\ cur'[w][k].chunk = cur[w][k].chunk
    /\ cur'[w][k].tries = cur[w][k].tries
    /\ UNCHANGED <<delivered, ended>>
Again(w, k) ==
    /\ wpc'[w][k] = "send" /\ ~cur'[w][k].posting
    /\ cur'[w][k].no = cur[w][k].no /\ cur'[w][k].chunk = cur[w][k].chunk
    /\ cur'[w][k].tries = cur[w][k].tries + 1
    /\ UNCHANGED ended
GoesOn(w, k) ==
    /\ wpc'[w][k] = "send" /\ ~cur'[w][k].posting
    /\ cur'[w][k].no = cur[w][k].no /\ cur'[w][k].chunk = cur[w][k].chunk + 1
    /\ UNCHANGED ended
Finishes(w, k) ==
    /\ wpc'[w][k] = "idle" /\ cur'[w][k] = NoChunk /\ ended' = ended \cup {<<k, cur[w][k].no>>}
Delivers(w, k) ==
    /\ cur[w][k].posting
    /\ delivered'[w[1]][k] = Append(delivered[w[1]][k], Posted(w, k))
    /\ \A n \in Names, j \in Kinds : n # w[1] \/ j # k => delivered'[n][j] = delivered[n][j]
Sends(w, k) ==
    /\ wpc[w][k] = "send" /\ queue'[w][k] = queue[w][k]
    /\ \/ Begins(w, k)
       \/ /\ Again(w, k) \/ GoesOn(w, k) \/ Finishes(w, k)
          /\ UNCHANGED delivered \/ Delivers(w, k)

Works(w, k) ==
    /\ UNCHANGED <<maps, canceled, closed, dispatch, lock, stopped, hidden>>
    /\ \A u \in Workers, j \in Kinds : u # w \/ j # k =>
          /\ queue'[u][j] = queue[u][j] /\ wpc'[u][j] = wpc[u][j] /\ cur'[u][j] = cur[u][j]
    /\ Receives(w, k) \/ Leaves(w, k) \/ Sends(w, k)

LEMMA NextChunkSays ==
  ASSUME TypeOK, NEW w \in Workers, NEW k \in Kinds, wpc[w][k] = "send", NextChunk(w, k)
  PROVE  /\ queue' = queue
         /\ \A u \in Workers, j \in Kinds : u # w \/ j # k =>
               wpc'[u][j] = wpc[u][j] /\ cur'[u][j] = cur[u][j]
         /\ GoesOn(w, k) \/ Finishes(w, k)
<1>1. CASE cur[w][k].chunk < Chunks[k]
  <2>1. /\ cur' = [cur EXCEPT ![w][k].chunk = cur[w][k].chunk + 1, ![w][k].tries = 0,
                              ![w][k].posting = FALSE]
        /\ queue' = queue /\ wpc' = wpc /\ ended' = ended
    BY <1>1 DEF NextChunk
  <2>2. cur[w][k] \in Chunk
    BY Types
  <2>3. /\ cur'[w][k].no = cur[w][k].no /\ cur'[w][k].chunk = cur[w][k].chunk + 1
        /\ ~cur'[w][k].posting
        /\ \A u \in Workers, j \in Kinds : u # w \/ j # k => cur'[u][j] = cur[u][j]
    BY <2>1, <2>2, Types DEF Chunk
  <2> QED
    BY <2>1, <2>3 DEF GoesOn
<1>2. CASE ~(cur[w][k].chunk < Chunks[k])
  <2>1. /\ cur' = [cur EXCEPT ![w][k] = NoChunk] /\ wpc' = [wpc EXCEPT ![w][k] = "idle"]
        /\ ended' = ended \cup {<<k, cur[w][k].no>>} /\ queue' = queue
    BY <1>2 DEF NextChunk
  <2>2. /\ \A u \in Workers, j \in Kinds : u # w \/ j # k =>
              wpc'[u][j] = wpc[u][j] /\ cur'[u][j] = cur[u][j]
        /\ wpc'[w][k] = "idle" /\ cur'[w][k] = NoChunk
    BY <2>1, Types
  <2> QED
    BY <2>1, <2>2 DEF Finishes
<1> QED
  BY <1>1, <1>2

LEMMA WorkerSays ==
  ASSUME TypeOK, NEW w \in Workers, NEW k \in Kinds, WorkerStep(w, k)
  PROVE  Works(w, k)
<1> USE DEF maps, work, dispatch, lock, history
<1>1. CASE Receive(w, k)
  <2>1. /\ wpc' = [wpc EXCEPT ![w][k] = "send"]
        /\ cur' = [cur EXCEPT ![w][k] = [NoChunk EXCEPT !.no = Head(queue[w][k]), !.chunk = 1]]
        /\ queue' = [queue EXCEPT ![w][k] = Tail(queue[w][k])]
    BY <1>1 DEF Receive
  <2>2. \A u \in Workers, j \in Kinds : u # w \/ j # k =>
           /\ queue'[u][j] = queue[u][j] /\ wpc'[u][j] = wpc[u][j] /\ cur'[u][j] = cur[u][j]
    BY <2>1, Types
  <2>3. Receives(w, k)
    BY <1>1, <2>1, Types DEF Receive, Receives, NoChunk
  <2> QED
    BY <1>1, <2>2, <2>3 DEF Receive, Works
<1>2. CASE WorkerEnd(w, k)
  <2>1. Leaves(w, k)
    BY <1>2, Types DEF WorkerEnd, Leaves
  <2> QED
    BY <1>2, <2>1, Types DEF WorkerEnd, Works
<1>r. ASSUME Retry(w, k), wpc[w][k] = "send"
      PROVE  /\ queue' = queue
             /\ \A u \in Workers, j \in Kinds : u # w \/ j # k =>
                   wpc'[u][j] = wpc[u][j] /\ cur'[u][j] = cur[u][j]
             /\ Again(w, k)
  <2>1. /\ cur' = [cur EXCEPT ![w][k].tries = cur[w][k].tries + 1, ![w][k].posting = FALSE]
        /\ queue' = queue /\ wpc' = wpc /\ ended' = ended
    BY <1>r DEF Retry
  <2>2. cur[w][k] \in Chunk
    BY Types
  <2>3. /\ cur'[w][k].no = cur[w][k].no /\ cur'[w][k].chunk = cur[w][k].chunk
        /\ cur'[w][k].tries = cur[w][k].tries + 1 /\ ~cur'[w][k].posting
        /\ \A u \in Workers, j \in Kinds : u # w \/ j # k => cur'[u][j] = cur[u][j]
    BY <2>1, <2>2, Types DEF Chunk
  <2> QED
    BY <1>r, <2>1, <2>3 DEF Again
<1>3. CASE Deliver(w, k)
  <2>1. delivered' = [delivered EXCEPT ![w[1]][k] = Append(delivered[w[1]][k], Posted(w, k))]
    BY <1>3 DEF Deliver
  <2>2. Delivers(w, k)
    <3>1. delivered \in [Names -> [Kinds -> Seq(ShownChunk)]] /\ w[1] \in Names
      BY Types DEF TypeOK
    <3>2. cur[w][k].posting
      BY <1>3 DEF Deliver
    <3> QED
      BY <2>1, <3>1, <3>2 DEF Delivers
  <2>3. wpc[w][k] = "send" /\ (NextChunk(w, k) \/ Retry(w, k))
    BY <1>3 DEF Deliver
  <2>4. /\ queue' = queue
        /\ \A u \in Workers, j \in Kinds : u # w \/ j # k =>
              wpc'[u][j] = wpc[u][j] /\ cur'[u][j] = cur[u][j]
        /\ Again(w, k) \/ GoesOn(w, k) \/ Finishes(w, k)
    BY <1>r, <2>3, NextChunkSays
  <2>5. Sends(w, k)
    BY <2>2, <2>3, <2>4 DEF Sends
  <2> QED
    BY <1>3, <2>4, <2>5 DEF Deliver, Works
<1>4. CASE FailForGood(w, k)
  <2>1. wpc[w][k] = "send" /\ NextChunk(w, k) /\ UNCHANGED delivered
    BY <1>4 DEF FailForGood
  <2>2. Sends(w, k)
    BY <2>1, NextChunkSays DEF Sends
  <2> QED
    BY <1>4, <2>1, <2>2, NextChunkSays DEF FailForGood, Works
<1>5. CASE FailForNow(w, k)
  <2>1. wpc[w][k] = "send" /\ Retry(w, k) /\ UNCHANGED delivered
    BY <1>5 DEF FailForNow
  <2>2. Sends(w, k)
    BY <1>r, <2>1 DEF Sends
  <2> QED
    BY <1>5, <1>r, <2>1, <2>2 DEF FailForNow, Works
<1>6. CASE Send(w, k)
  <2>1. /\ cur' = [cur EXCEPT ![w][k].posting = TRUE] /\ wpc[w][k] = "send" /\ Runs(w)
        /\ queue' = queue /\ wpc' = wpc /\ delivered' = delivered /\ ended' = ended
    BY <1>6 DEF Send
  <2>2. cur[w][k] \in Chunk
    BY Types
  <2>3. /\ cur'[w][k].no = cur[w][k].no /\ cur'[w][k].chunk = cur[w][k].chunk
        /\ cur'[w][k].tries = cur[w][k].tries /\ cur'[w][k].posting
        /\ \A u \in Workers, j \in Kinds : u # w \/ j # k => cur'[u][j] = cur[u][j]
    BY <2>1, <2>2, Types DEF Chunk
  <2>4. Sends(w, k)
    BY <2>1, <2>3 DEF Sends, Begins
  <2> QED
    BY <1>6, <2>1, <2>3, <2>4 DEF Send, Works
<1> QED
  BY <1>1, <1>2, <1>3, <1>4, <1>5, <1>6 DEF WorkerStep

\* What a step does to what the parts of the invariant speak of.
Step ==
    \/ Still \/ Locks
    \/ \E up : StartsAll(up)
    \/ \E list, ok, up : Reloads(list, ok, up)
    \/ \E k \in Kinds : Dispatches(k)
    \/ \E w \in Workers, k \in Kinds : Works(w, k)

LEMMA NextSays ==
  ASSUME TypeOK, DispatchInv, FreshInv, RestInv, [Next]_vars
  PROVE  Step
<1>1. CASE UNCHANGED vars
  BY <1>1 DEF vars, Step, Still
<1>2. CASE StartAll
  BY <1>2, StartAllSays DEF Step
<1>3. CASE Reload
  BY <1>3, ReloadSays DEF Step
<1>4. CASE StopAll \/ LockStep
  BY <1>4, LocksSays DEF Step
<1>5. ASSUME NEW k \in Kinds, DispatchStep(k)
      PROVE  Step
  BY <1>5, DispatchSays DEF Step
<1>6. ASSUME NEW w \in Workers, NEW k \in Kinds, WorkerStep(w, k)
      PROVE  Step
  BY <1>6, WorkerSays DEF Step
<1> QED
  BY <1>1, <1>2, <1>3, <1>4, <1>5, <1>6 DEF Next


-----------------------------------------------------------------------------
(* Each part of the invariant is kept.                                     *)

\* A worker whose goroutines start is one that nothing is known of.
LEMMA Fresh ==
  ASSUME TypeOK, FreshInv, RestInv, NEW w \in Workers, w[2] > gen, NEW k \in Kinds
  PROVE  /\ chanOf[w] = None /\ w \notin running
         /\ wpc[w][k] = "none" /\ <<w, k>> \notin closed
         /\ queue[w][k] = <<>> /\ cur[w][k] = NoChunk
         /\ workers[w[1]] # w[2]
<1>1. chanOf[w] = None /\ w \notin running /\ wpc[w][k] = "none" /\ <<w, k>> \notin closed
  BY DEF FreshInv
<1>2. queue[w][k] = <<>> /\ cur[w][k] = NoChunk
  BY <1>1 DEF RestInv
<1>3. workers[w[1]] # w[2]
  <2>1. workers[w[1]] <= gen /\ w[2] \in Nat /\ gen \in Nat
    BY Types DEF FreshInv
  <2> QED
    BY <2>1
<1> QED
  BY <1>1, <1>2, <1>3

\* StartAll's version is new, and so is a reload's.
LEMMA NewVersion ==
  ASSUME TypeOK
  PROVE  /\ \A up : StartsAll(up) => 1 \in Versions /\ 1 > gen
         /\ \A list, ok, up : Reloads(list, ok, up) => gen + 1 \in Versions /\ gen + 1 > gen
<1>1. \A up : StartsAll(up) => 1 \in Versions /\ 1 > gen
  BY ManagerAssumption DEF StartsAll, Versions
<1>2. \A list, ok, up : Reloads(list, ok, up) => gen + 1 \in Versions /\ gen + 1 > gen
  BY ManagerAssumption DEF Reloads, Versions
<1> QED
  BY <1>1, <1>2

\* The two kinds of step that start goroutines.
StartStep(up, v) ==
    /\ up \subseteq Names /\ v \in Versions /\ v > gen /\ Starts(up, v)
    /\ (\E u : StartsAll(u)) \/ (\E list, ok, u : Reloads(list, ok, u))

LEMMA StepSays ==
  ASSUME TypeOK, Step
  PROVE  Still \/ Locks \/ (\E up, v : StartStep(up, v))
         \/ (\E k \in Kinds : Dispatches(k)) \/ (\E w \in Workers, k \in Kinds : Works(w, k))
<1>1. ASSUME NEW up, StartsAll(up)
      PROVE  StartStep(up, 1)
  BY <1>1, NewVersion DEF StartStep, StartsAll
<1>2. ASSUME NEW list, NEW ok, NEW up, Reloads(list, ok, up)
      PROVE  StartStep(up, gen + 1)
  <2>1. up \subseteq Names /\ Starts(up, gen + 1)
    BY <1>2 DEF Reloads
  <2> QED
    BY <1>2, <2>1, NewVersion DEF StartStep
<1> QED
  BY <1>1, <1>2 DEF Step

\* A goroutine that was started stays so, and one that is gone is gone.
LEMMA Begun ==
  ASSUME TypeOK, FreshInv, RestInv, Step, NEW w \in Workers, NEW k \in Kinds
  PROVE  /\ wpc[w][k] # "none" => wpc'[w][k] # "none"
         /\ wpc[w][k] = "gone" => wpc'[w][k] = "gone"
         /\ wpc[w][k] = "none" => wpc'[w][k] \in {"none", "idle"}
<1> USE DEF work
<1>1. CASE Still \/ Locks
  BY <1>1, Types DEF Still, Locks
<1>2. ASSUME NEW up, NEW v, StartStep(up, v)
      PROVE  /\ wpc[w][k] # "none" => wpc'[w][k] # "none"
             /\ wpc[w][k] = "gone" => wpc'[w][k] = "gone"
             /\ wpc[w][k] = "none" => wpc'[w][k] \in {"none", "idle"}
  <2>1. w[1] \in Names /\ w[2] \in Versions /\ w = <<w[1], w[2]>>
    BY Types
  <2>2. CASE w[1] \in up /\ w[2] = v
    <3>1. wpc'[w][k] = "idle"
      BY <1>2, <2>1, <2>2 DEF StartStep, Starts
    <3>2. w[2] > gen
      BY <1>2, <2>2 DEF StartStep
    <3> QED
      BY <3>1, <3>2, Fresh
  <2>3. CASE ~(w[1] \in up /\ w[2] = v)
    <3>1. wpc'[w][k] = wpc[w][k]
      BY <1>2, <2>1, <2>3 DEF StartStep, Starts
    <3> QED
      BY <3>1
  <2> QED
    BY <2>2, <2>3
<1>3. ASSUME NEW j \in Kinds, Dispatches(j)
      PROVE  wpc' = wpc
  BY <1>3 DEF Dispatches
<1>4. ASSUME NEW u \in Workers, NEW j \in Kinds, Works(u, j)
      PROVE  /\ wpc[w][k] # "none" => wpc'[w][k] # "none"
             /\ wpc[w][k] = "gone" => wpc'[w][k] = "gone"
             /\ wpc[w][k] = "none" => wpc'[w][k] \in {"none", "idle"}
  BY <1>4 DEF Works, Receives, Leaves, Sends, Begins, Again, GoesOn, Finishes
<1> QED
  BY <1>1, <1>2, <1>3, <1>4, StepSays

LEMMA KeepsDispatch ==
  ASSUME TypeOK, FreshInv, RestInv, DispatchInv, Step
  PROVE  DispatchInv'
<1> USE DEF dispatch, work
<1>1. \A w \in Workers, k \in Kinds : wpc[w][k] # "none" => wpc'[w][k] # "none"
  BY Begun
<1>2. \A k \in Kinds : dpc[k] = "send" => <<DestOf(k), target[k]>> \in Workers
  <2> SUFFICES ASSUME NEW k \in Kinds, dpc[k] = "send"
               PROVE  DestOf(k) \in Names /\ target[k] \in Versions
    BY Types
  <2>1. Outbox[k] \in Seq(Names) /\ next[k] \in 1 .. Len(Outbox[k])
    <3>1. next[k] <= Len(Outbox[k])
      BY DEF DispatchInv
    <3> QED
      BY <3>1, ManagerAssumption, Types
  <2>2. target[k] \in Versions
    BY DEF DispatchInv, TypeOK, VersionOrNone
  <2> QED
    BY <2>1, <2>2 DEF DestOf
<1>3. ASSUME UNCHANGED <<dpc, next, target>>
      PROVE  DispatchInv'
  <2> SUFFICES ASSUME NEW k \in Kinds
               PROVE  /\ dpc[k] \in {"taken", "send"} => next[k] <= Len(Outbox[k])
                      /\ dpc[k] = "send" =>
                            /\ target[k] # None
                            /\ wpc'[<<Outbox[k][next[k]], target[k]>>][k] # "none"
    BY <1>3 DEF DispatchInv, DestOf
  <2> QED
    BY <1>1, <1>2 DEF DispatchInv, DestOf
<1>4. CASE Still \/ Locks
  BY <1>3, <1>4 DEF Still, Locks
<1>5. ASSUME NEW up, StartsAll(up)
      PROVE  DispatchInv'
  BY <1>5 DEF StartsAll, DispatchInv
<1>6. ASSUME NEW list, NEW ok, NEW up, Reloads(list, ok, up)
      PROVE  DispatchInv'
  BY <1>3, <1>6 DEF Reloads, Starts
<1>7. ASSUME NEW k \in Kinds, Dispatches(k)
      PROVE  DispatchInv'
  <2> SUFFICES ASSUME NEW j \in Kinds
               PROVE  /\ dpc'[j] \in {"taken", "send"} => next'[j] <= Len(Outbox[j])
                      /\ dpc'[j] = "send" =>
                            /\ target'[j] # None
                            /\ wpc'[<<Outbox[j][next'[j]], target'[j]>>][j] # "none"
    BY DEF DispatchInv, DestOf
  <2>1. wpc' = wpc
    BY <1>7 DEF Dispatches
  <2>2. CASE j # k
    <3>1. dpc'[j] = dpc[j] /\ next'[j] = next[j] /\ target'[j] = target[j]
      BY <1>7, <2>2 DEF Dispatches
    <3> QED
      BY <2>1, <3>1 DEF DispatchInv, DestOf
  <2>3. CASE j = k /\ (Takes(k) \/ Skips(k) \/ Quits(k) \/ \E w : Enqueues(k, w))
    BY <2>3 DEF Takes, Skips, Quits, Enqueues
  <2>4. CASE j = k /\ Finds(k)
    <3>1. /\ dpc[k] = "taken" /\ next'[k] = next[k] /\ target'[k] = workers[DestOf(k)]
          /\ workers[DestOf(k)] # None /\ next[k] <= Len(Outbox[k])
      BY <2>4 DEF Finds, DispatchInv
    <3>2. DestOf(k) \in Names
      <4>1. Outbox[k] \in Seq(Names) /\ next[k] \in 1 .. Len(Outbox[k])
        BY ManagerAssumption, Types, <3>1
      <4> QED
        BY <4>1 DEF DestOf
    <3>3. wpc[<<DestOf(k), workers[DestOf(k)]>>][k] # "none"
      BY <3>1, <3>2 DEF RestInv, Registered, WorkerOf
    <3> QED
      BY <2>1, <2>4, <3>1, <3>3 DEF DestOf
  <2> QED
    BY <1>7, <2>2, <2>3, <2>4 DEF Dispatches
<1>8. ASSUME NEW w \in Workers, NEW k \in Kinds, Works(w, k)
      PROVE  DispatchInv'
  BY <1>3, <1>8 DEF Works
<1> QED
  BY <1>4, <1>5, <1>6, <1>7, <1>8 DEF Step

LEMMA KeepsRest ==
  ASSUME TypeOK, FreshInv, RestInv, DispatchInv, Step
  PROVE  RestInv'
<1> USE DEF dispatch, work, maps
<1>1. ASSUME NEW w \in Workers, NEW k \in Kinds
      PROVE  /\ wpc'[w][k] = "none" => queue'[w][k] = <<>>
             /\ wpc'[w][k] # "send" => cur'[w][k] = NoChunk
  <2>1. /\ wpc[w][k] = "none" => queue[w][k] = <<>>
        /\ wpc[w][k] # "send" => cur[w][k] = NoChunk
        /\ wpc'[w][k] = "none" => wpc[w][k] = "none"
    BY Begun DEF RestInv
  <2>2. CASE Still \/ Locks
    BY <2>1, <2>2 DEF Still, Locks
  <2>3. ASSUME NEW up, NEW v, StartStep(up, v)
        PROVE  /\ wpc'[w][k] = "none" => queue'[w][k] = <<>>
               /\ wpc'[w][k] # "send" => cur'[w][k] = NoChunk
    <3>1. queue' = queue /\ cur' = cur
      BY <2>3 DEF StartStep, Starts
    <3>2. w[1] \in Names /\ w[2] \in Versions /\ w = <<w[1], w[2]>>
      BY Types
    <3>3. CASE w[1] \in up /\ w[2] = v
      <4>1. w[2] > gen
        BY <2>3, <3>3 DEF StartStep
      <4> QED
        BY <3>1, <4>1, Fresh
    <3>4. CASE ~(w[1] \in up /\ w[2] = v)
      <4>1. wpc'[w][k] = wpc[w][k]
        BY <2>3, <3>2, <3>4 DEF StartStep, Starts
      <4> QED
        BY <2>1, <3>1, <4>1
    <3> QED
      BY <3>3, <3>4
  <2>4. ASSUME NEW j \in Kinds, Dispatches(j)
        PROVE  /\ wpc'[w][k] = "none" => queue'[w][k] = <<>>
               /\ wpc'[w][k] # "send" => cur'[w][k] = NoChunk
    <3>1. wpc' = wpc /\ cur' = cur
      BY <2>4 DEF Dispatches
    <3>2. CASE queue'[w][k] = queue[w][k]
      BY <2>1, <3>1, <3>2
    <3>3. CASE queue'[w][k] # queue[w][k]
      <4>1. PICK u : Enqueues(j, u)
        BY <2>4, <3>3 DEF Dispatches, Takes, Skips, Finds, Quits
      <4>2. u = w /\ j = k
        BY <3>3, <4>1 DEF Enqueues
      <4>3. wpc[w][k] # "none"
        BY <4>1, <4>2 DEF Enqueues, DispatchInv
      <4> QED
        BY <2>1, <3>1, <4>3
    <3> QED
      BY <3>2, <3>3
  <2>5. ASSUME NEW u \in Workers, NEW j \in Kinds, Works(u, j)
        PROVE  /\ wpc'[w][k] = "none" => queue'[w][k] = <<>>
               /\ wpc'[w][k] # "send" => cur'[w][k] = NoChunk
    <3>1. CASE u # w \/ j # k
      BY <2>1, <2>5, <3>1 DEF Works
    <3>2. CASE u = w /\ j = k
      BY <2>1, <2>5, <3>2 DEF Works, Receives, Leaves, Sends, Begins, Again, GoesOn, Finishes
    <3> QED
      BY <3>1, <3>2
  <2> QED
    BY <2>2, <2>3, <2>4, <2>5, StepSays
<1>2. ASSUME NEW n \in Names, NEW k \in Kinds, workers'[n] # None
      PROVE  wpc'[<<n, workers'[n]>>][k] # "none"
  <2>1. CASE workers'[n] = workers[n]
    <3>1. n \in Registered /\ WorkerOf(n) = <<n, workers'[n]>>
      BY <1>2, <2>1 DEF Registered, WorkerOf
    <3>2. <<n, workers'[n]>> \in Workers
      BY <3>1, Types
    <3>3. wpc[<<n, workers'[n]>>][k] # "none"
      BY <3>1 DEF RestInv
    <3> QED
      BY <3>2, <3>3, Begun
  <2>2. CASE workers'[n] # workers[n]
    <3>1. CASE Still \/ (\E j \in Kinds : Dispatches(j)) \/ (\E w \in Workers, j \in Kinds : Works(w, j))
      BY <2>2, <3>1 DEF Still, Dispatches, Works
    <3>2. CASE Locks
      <4>1. PICK v \in Versions : UnregisterEnd(v)
        BY <2>2, <3>2 DEF Locks, StopAll, LockStep, StopMedia, StopEnd, Unregister, UnregisterMedia,
                          Register
      <4>2. workers' = [workers EXCEPT ![busy] = None]
        BY <4>1 DEF UnregisterEnd, Unregistered
      <4> QED
        BY <1>2, <2>2, <4>2 DEF TypeOK
    <3>3. ASSUME NEW up, NEW v, StartStep(up, v)
          PROVE  wpc'[<<n, workers'[n]>>][k] # "none"
      BY <2>2, <3>3 DEF StartStep, Starts
    <3> QED
      BY <3>1, <3>2, <3>3, StepSays
  <2> QED
    BY <2>1, <2>2
<1> QED
  BY <1>1, <1>2 DEF RestInv, Registered, WorkerOf

LEMMA KeepsLock ==
  ASSUME TypeOK, FreshInv, RestInv, LockInv, Step
  PROVE  LockInv'
<1> USE DEF dispatch, work, maps, lock
<1>1. Stopping \notin Versions /\ Free \notin Versions
  BY ManagerAssumption DEF Stopping, Free, Versions
<1>2. ASSUME UNCHANGED <<mu, phase, busy>>, mu \in Versions => workers'[busy] = workers[busy]
      PROVE  LockInv'
  <2> SUFFICES ASSUME mu \in Versions
               PROVE  /\ busy \in Names /\ workers'[busy] # None
                      /\ phase = "media" => wpc'[<<busy, workers'[busy]>>]["text"] = "gone"
    BY <1>2 DEF LockInv, WorkerOf
  <2>1. /\ busy \in Names /\ workers[busy] # None /\ workers'[busy] = workers[busy]
        /\ phase = "media" => wpc[<<busy, workers[busy]>>]["text"] = "gone"
    BY <1>2 DEF LockInv, WorkerOf
  <2>2. <<busy, workers[busy]>> \in Workers
    BY <2>1, Types DEF Registered, WorkerOf
  <2>3. phase = "media" => wpc'[<<busy, workers[busy]>>]["text"] = "gone"
    BY <2>1, <2>2, Begun DEF Kinds
  <2> QED
    BY <2>1, <2>3
<1>3. CASE Still \/ (\E k \in Kinds : Dispatches(k)) \/ (\E w \in Workers, k \in Kinds : Works(w, k))
  BY <1>2, <1>3 DEF Still, Dispatches, Works
<1>4. ASSUME NEW up, StartsAll(up)
      PROVE  LockInv'
  <2>1. \A n \in Names : workers[n] = None
    <3>1. \A n \in Names : workers[n] <= gen /\ workers[n] \in Versions \cup {None}
      BY DEF FreshInv, TypeOK, VersionOrNone
    <3> QED
      BY <1>4, <3>1, Types DEF StartsAll
  <2>2. mu \notin Versions
    BY <2>1 DEF LockInv
  <2> QED
    BY <1>4, <2>2 DEF StartsAll, Starts, LockInv
<1>5. ASSUME NEW list, NEW ok, NEW up, Reloads(list, ok, up)
      PROVE  LockInv'
  BY <1>1, <1>5 DEF Reloads, Starts, LockInv
<1>6. CASE Locks
  <2>1. wpc' = wpc
    BY <1>6 DEF Locks
  <2>2. CASE StopAll
    BY <1>1, <2>2 DEF StopAll, LockInv
  <2>3. CASE StopMedia \/ StopEnd
    BY <1>1, <2>3 DEF StopMedia, StopEnd, LockInv
  <2>4. ASSUME NEW v \in Versions, Unregister(v)
        PROVE  LockInv'
    <3>1. workers' = workers
      BY <2>4 DEF Unregister
    <3>2. CASE mu' = mu
      BY <1>1, <2>4, <3>2 DEF Unregister, LockInv
    <3>3. CASE mu' # mu
      <4>1. /\ phase' = "text" /\ busy' \in unreg[v] /\ workers[busy'] # None
        BY <2>4, <3>3 DEF Unregister
      <4>2. busy' \in Names
        BY <4>1 DEF TypeOK
      <4> QED
        BY <3>1, <4>1, <4>2 DEF LockInv
    <3> QED
      BY <3>2, <3>3
  <2>5. ASSUME NEW v \in Versions, UnregisterMedia(v)
        PROVE  LockInv'
    BY <2>5 DEF UnregisterMedia, LockInv, WorkerOf
  <2>6. ASSUME NEW v \in Versions, UnregisterEnd(v)
        PROVE  LockInv'
    BY <1>1, <2>6 DEF UnregisterEnd, LockInv
  <2>7. ASSUME NEW v \in Versions, Register(v)
        PROVE  LockInv'
    BY <1>1, <2>7 DEF Register, LockInv
  <2> QED
    BY <1>6, <2>2, <2>3, <2>4, <2>5, <2>6, <2>7 DEF Locks, LockStep
<1> QED
  BY <1>3, <1>4, <1>5, <1>6 DEF Step

LEMMA KeepsOpen ==
  ASSUME TypeOK, FreshInv, RestInv, LockInv, OpenInv, Step
  PROVE  OpenInv'
<1> USE DEF dispatch, work, maps, lock
<1> DEFINE Ended(w, k) == wpc[w][k] = "gone" => <<w, k>> \in closed
           Open(n, k) == workers[n] # None /\ <<<<n, workers[n]>>, k>> \in closed =>
                            mu # Free /\ busy = n
<1>1. Stopping \notin Versions /\ Free \notin Versions /\ Stopping # Free
  BY ManagerAssumption DEF Stopping, Free, Versions
<1> SUFFICES ASSUME ~stopped'
             PROVE  /\ canceled' = {} /\ mu' # Stopping
                    /\ \A n \in Names, k \in Kinds : Open(n, k)'
                    /\ \A w \in Workers, k \in Kinds : Ended(w, k)'
  BY DEF OpenInv, Registered, WorkerOf
<1>2. ~stopped
  <2>1. stopped => stopped'
    BY StepSays DEF Still, Locks, StartStep, Starts, Dispatches, Works
  <2> QED
    BY <2>1
<1>3. /\ canceled = {} /\ mu # Stopping
      /\ \A n \in Names, k \in Kinds : Open(n, k)
      /\ \A w \in Workers, k \in Kinds : Ended(w, k)
  BY <1>2 DEF OpenInv, Registered, WorkerOf
<1>4. CASE Still \/ (\E k \in Kinds : Dispatches(k))
  <2>1. UNCHANGED <<canceled, closed, mu, busy, workers, wpc>>
    BY <1>4 DEF Still, Dispatches
  <2> QED
    BY <1>3, <2>1
<1>5. ASSUME NEW up, NEW v, StartStep(up, v)
      PROVE  /\ canceled' = {} /\ mu' # Stopping
             /\ \A n \in Names, k \in Kinds : Open(n, k)'
             /\ \A w \in Workers, k \in Kinds : Ended(w, k)'
  <2>1. UNCHANGED <<canceled, closed, mu, busy>> /\ v \in Versions /\ v > gen
        /\ \A n \in Names : workers'[n] = IF n \in up THEN v ELSE workers[n]
    BY <1>5 DEF StartStep, Starts
  <2>2. ASSUME NEW n \in Names, NEW k \in Kinds
        PROVE  Open(n, k)'
    <3>1. <<n, v>> \in Workers /\ <<n, v>>[2] = v
      BY <2>1, Types
    <3>2. <<<<n, v>>, k>> \notin closed
      BY <2>1, <3>1, Fresh
    <3> QED
      BY <1>3, <2>1, <3>2
  <2>3. ASSUME NEW w \in Workers, NEW k \in Kinds
        PROVE  Ended(w, k)'
    <3>1. wpc'[w][k] = "gone" => wpc[w][k] = "gone"
      <4>1. w[1] \in Names /\ w[2] \in Versions /\ w = <<w[1], w[2]>>
        BY Types
      <4>2. CASE w[1] \in up /\ w[2] = v
        BY <1>5, <4>1, <4>2 DEF StartStep, Starts
      <4>3. CASE ~(w[1] \in up /\ w[2] = v)
        BY <1>5, <4>1, <4>3 DEF StartStep, Starts
      <4> QED
        BY <4>2, <4>3
    <3> QED
      BY <1>3, <2>1, <3>1
  <2> QED
    BY <1>3, <2>1, <2>2, <2>3
<1>6. ASSUME NEW u \in Workers, NEW j \in Kinds, Works(u, j)
      PROVE  /\ canceled' = {} /\ mu' # Stopping
             /\ \A n \in Names, k \in Kinds : Open(n, k)'
             /\ \A w \in Workers, k \in Kinds : Ended(w, k)'
  <2>1. UNCHANGED <<canceled, closed, mu, busy, workers>>
    BY <1>6 DEF Works
  <2>2. ASSUME NEW w \in Workers, NEW k \in Kinds, wpc'[w][k] = "gone"
        PROVE  <<w, k>> \in closed
    <3>1. CASE wpc'[w][k] = wpc[w][k]
      BY <1>3, <2>2, <3>1
    <3>2. CASE wpc'[w][k] # wpc[w][k]
      <4>1. w = u /\ k = j
        BY <1>6, <3>2 DEF Works
      <4>2. SeesClose(w, k)
        BY <1>6, <2>2, <4>1 DEF Works, Receives, Leaves, Sends, Begins, Again, GoesOn, Finishes
      <4> QED
        BY <1>3, <4>2 DEF SeesClose
    <3> QED
      BY <3>1, <3>2
  <2> QED
    BY <1>3, <2>1, <2>2
<1>7. CASE Locks
  <2>1. wpc' = wpc
    BY <1>7 DEF Locks
  <2>2. ~StopAll /\ ~StopMedia /\ ~StopEnd
    BY <1>3 DEF StopAll, StopMedia, StopEnd
  <2>3. ASSUME NEW v \in Versions, Unregister(v)
        PROVE  /\ canceled' = {} /\ mu' # Stopping /\ closed \subseteq closed'
               /\ \A n \in Names, k \in Kinds : Open(n, k)'
    <3>1. canceled' = canceled /\ workers' = workers /\ mu = Free
      BY <2>3 DEF Unregister
    <3>2. CASE mu' = mu
      <4>1. UNCHANGED <<closed, busy>>
        BY <1>1, <2>3, <3>1, <3>2 DEF Unregister
      <4> QED
        BY <1>3, <3>1, <3>2, <4>1
    <3>3. CASE mu' # mu
      <4>1. mu' = v /\ closed' = closed \cup {<<WorkerOf(busy'), "text">>}
        BY <2>3, <3>3 DEF Unregister
      <4>2. ASSUME NEW n \in Names, NEW k \in Kinds, workers[n] # None,
                   <<<<n, workers[n]>>, k>> \in closed'
            PROVE  busy' = n
        BY <1>3, <3>1, <4>1, <4>2 DEF WorkerOf
      <4> QED
        BY <1>1, <1>3, <3>1, <4>1, <4>2
    <3> QED
      BY <3>2, <3>3
  <2>4. ASSUME NEW v \in Versions, UnregisterMedia(v)
        PROVE  /\ canceled' = {} /\ mu' # Stopping /\ closed \subseteq closed'
               /\ \A n \in Names, k \in Kinds : Open(n, k)'
    <3>1. /\ UNCHANGED <<canceled, workers, mu, busy>> /\ mu = v
          /\ closed' = closed \cup {<<WorkerOf(busy), "media">>}
      BY <2>4 DEF UnregisterMedia
    <3>2. ASSUME NEW n \in Names, NEW k \in Kinds, workers[n] # None,
                 <<<<n, workers[n]>>, k>> \in closed'
          PROVE  busy = n
      BY <1>3, <3>1, <3>2 DEF WorkerOf
    <3> QED
      BY <1>1, <1>3, <3>1, <3>2
  <2>5. ASSUME NEW v \in Versions, UnregisterEnd(v)
        PROVE  /\ canceled' = {} /\ mu' # Stopping /\ closed \subseteq closed'
               /\ \A n \in Names, k \in Kinds : Open(n, k)'
    <3>1. /\ UNCHANGED <<canceled, closed>> /\ mu' = Free
          /\ workers' = [workers EXCEPT ![busy] = None]
      BY <2>5 DEF UnregisterEnd, Unregistered
    <3>2. ASSUME NEW n \in Names, NEW k \in Kinds
          PROVE  workers'[n] = None \/ <<<<n, workers'[n]>>, k>> \notin closed
      <4>1. workers'[n] = IF n = busy THEN None ELSE workers[n]
        BY <3>1 DEF TypeOK
      <4> QED
        BY <1>3, <4>1
    <3> QED
      BY <1>1, <1>3, <3>1, <3>2
  <2>6. ASSUME NEW v \in Versions, Register(v)
        PROVE  /\ canceled' = {} /\ mu' # Stopping /\ closed \subseteq closed'
               /\ \A n \in Names, k \in Kinds : Open(n, k)'
    <3>1. UNCHANGED <<canceled, closed, mu, busy, workers>>
      BY <2>6 DEF Register
    <3> QED
      BY <1>3, <3>1
  <2>7. /\ canceled' = {} /\ mu' # Stopping /\ closed \subseteq closed'
        /\ \A n \in Names, k \in Kinds : Open(n, k)'
    BY <1>7, <2>2, <2>3, <2>4, <2>5, <2>6 DEF Locks, LockStep
  <2> QED
    BY <1>3, <2>1, <2>7
<1> QED
  BY <1>4, <1>5, <1>6, <1>7, StepSays

\* What is known of the maps and the version, in the order of the lines.
LEMMA KeepsFresh ==
  ASSUME TypeOK, FreshInv, RestInv, LockInv, Step
  PROVE  FreshInv'
<1> USE DEF dispatch, work, maps, lock
<1> DEFINE InstanceOK(n) == gen = 0 => (channels[n] # None => channels[n] = 1 /\ hashes[n] # None)
           NameOK(n) == /\ workers[n] <= gen /\ (hashes[n] <= gen \/ hashes[n] = 1)
                        /\ gen > 0 => channels[n] <= gen
           WorkerOK(w) == w[2] > gen => /\ chanOf[w] = None /\ w \notin running
                                        /\ \A k \in Kinds : wpc[w][k] = "none" /\ <<w, k>> \notin closed
           VersionOK(v) == v > gen => unreg[v] = {} /\ rereg[v] = {}
<1>1. /\ gen > 0 /\ ~stopped => task = gen
      /\ \A n \in Names : InstanceOK(n) /\ NameOK(n)
      /\ \A w \in Workers : chanOf[w] <= gen /\ WorkerOK(w)
      /\ \A v \in Versions : VersionOK(v)
  BY DEF FreshInv
<1>2. ASSUME /\ gen' > 0 /\ ~stopped' => task' = gen'
             /\ \A n \in Names : InstanceOK(n)' /\ NameOK(n)'
             /\ \A w \in Workers : (chanOf[w] <= gen)' /\ WorkerOK(w)'
             /\ \A v \in Versions : VersionOK(v)'
      PROVE  FreshInv'
  BY <1>2 DEF FreshInv
<1>3. CASE Still \/ (\E k \in Kinds : Dispatches(k))
  <2>1. UNCHANGED <<channels, workers, hashes, running, chanOf, gen, task, stopped, wpc, closed,
                    unreg, rereg>>
    BY <1>3 DEF Still, Dispatches
  <2> QED
    BY <1>1, <1>2, <2>1
<1>4. ASSUME NEW w \in Workers, NEW k \in Kinds, Works(w, k)
      PROVE  FreshInv'
  <2>1. UNCHANGED <<channels, workers, hashes, running, chanOf, gen, task, stopped, closed,
                    unreg, rereg>>
    BY <1>4 DEF Works
  <2>2. ASSUME NEW u \in Workers
        PROVE  WorkerOK(u)'
    <3>1. \A j \in Kinds : wpc'[u][j] = wpc[u][j] \/ wpc[u][j] # "none"
      BY <1>4 DEF Works, Receives, Leaves, Sends
    <3> QED
      BY <1>1, <2>1, <3>1
  <2> QED
    BY <1>1, <1>2, <2>1, <2>2
<1>5. ASSUME NEW up, StartsAll(up)
      PROVE  FreshInv'
  <2>1. /\ gen = 0 /\ gen' = 1 /\ task' = 1 /\ up \subseteq Names
        /\ running' = {<<n, 1>> : n \in up}
        /\ UNCHANGED <<channels, hashes, closed, unreg, rereg, stopped>>
        /\ \A n \in Names : workers'[n] = IF n \in up THEN 1 ELSE workers[n]
    BY <1>5 DEF StartsAll, Starts
  <2>2. ASSUME NEW n \in Names
        PROVE  InstanceOK(n)' /\ NameOK(n)'
    <3>1. /\ workers[n] <= 0 /\ (hashes[n] <= 0 \/ hashes[n] = 1)
          /\ channels[n] # None => channels[n] = 1
      BY <1>1, <2>1
    <3>2. workers[n] \in Nat /\ hashes[n] \in Nat /\ channels[n] \in Nat
      BY Numbers
    <3>3. workers'[n] <= 1
      <4>1. workers'[n] = 1 \/ workers'[n] = workers[n]
        BY <2>1
      <4> QED
        BY <3>1, <3>2, <4>1
    <3>4. channels'[n] <= 1
      <4>1. channels[n] = 0 \/ channels[n] = 1
        BY <3>1, Types
      <4> QED
        BY <2>1, <4>1
    <3>5. hashes'[n] <= 1 \/ hashes'[n] = 1
      BY <2>1, <3>1, <3>2
    <3> QED
      BY <2>1, <3>3, <3>4, <3>5
  <2>3. ASSUME NEW w \in Workers
        PROVE  (chanOf[w] <= gen)' /\ WorkerOK(w)'
    <3>1. w[1] \in Names /\ w[2] \in Versions /\ w = <<w[1], w[2]>> /\ chanOf[w] \in Nat
      BY Numbers
    <3>2. chanOf[w] <= 0
      BY <1>1, <2>1
    <3>3. CASE w[2] = 1
      <4>1. chanOf'[w] = 1 \/ chanOf'[w] = chanOf[w]
        BY <1>5, <3>1, <3>3 DEF StartsAll, Starts
      <4>2. chanOf'[w] <= 1
        BY <3>1, <3>2, <4>1
      <4> QED
        BY <2>1, <3>3, <4>2
    <3>4. CASE w[2] # 1
      <4>1. chanOf'[w] = chanOf[w] /\ \A k \in Kinds : wpc'[w][k] = wpc[w][k]
        BY <1>5, <3>1, <3>4 DEF StartsAll, Starts
      <4>2. w \notin running'
        BY <2>1, <3>1, <3>4
      <4>3. w[2] > gen
        BY <2>1, <3>1, Types
      <4> QED
        BY <1>1, <2>1, <3>1, <3>2, <4>1, <4>2, <4>3
    <3> QED
      BY <3>3, <3>4
  <2>4. ASSUME NEW v \in Versions
        PROVE  VersionOK(v)'
    <3>1. v > gen
      BY <2>1, Types
    <3> QED
      BY <1>1, <2>1, <3>1
  <2> QED
    BY <1>2, <2>1, <2>2, <2>3, <2>4
<1>6. ASSUME NEW list, NEW ok, NEW up, Reloads(list, ok, up)
      PROVE  FreshInv'
  <2> DEFINE v == gen + 1
  <2>1. /\ gen > 0 /\ gen' = v /\ task' = v /\ v \in Versions /\ hashes' = list /\ up \subseteq Names
        /\ UNCHANGED <<closed, stopped>>
        /\ \A n \in Names : workers'[n] = IF n \in up THEN v ELSE workers[n]
        /\ \A n \in Names : channels'[n] = IF n \in ok THEN v ELSE channels[n]
        /\ \A n \in Names : list[n] \in {None, hashes[n], v}
        /\ \A u \in Versions : u # v => unreg'[u] = unreg[u] /\ rereg'[u] = rereg[u]
    <3>1. /\ gen \in 1 .. MaxReloads /\ gen' = v /\ task' = v /\ hashes' = list /\ up \subseteq Names
          /\ UNCHANGED <<closed, stopped>>
          /\ \A n \in Names : workers'[n] = IF n \in up THEN v ELSE workers[n]
      BY <1>6 DEF Reloads, Starts
    <3>2. /\ \A n \in Names : channels'[n] = IF n \in ok THEN v ELSE channels[n]
          /\ \A n \in Names : list[n] \in {None, hashes[n], v}
          /\ \A u \in Versions : u # v => unreg'[u] = unreg[u] /\ rereg'[u] = rereg[u]
      BY <1>6 DEF Reloads
    <3>3. v \in Versions /\ gen > 0
      BY <1>6, <3>1, NewVersion, Types
    <3> HIDE DEF v
    <3> QED
      BY <3>1, <3>2, <3>3
  <2>2. gen \in Nat /\ v \in Nat /\ v > gen /\ gen' > 0
    BY <2>1, Types
  <2>3. ASSUME NEW n \in Names
        PROVE  /\ NameOK(n)' /\ channels'[n] <= v /\ channels'[n] \in Nat
    <3>1. /\ workers[n] <= gen /\ (hashes[n] <= gen \/ hashes[n] = 1) /\ channels[n] <= gen
      BY <1>1, <2>1
    <3>2. workers[n] \in Nat /\ hashes[n] \in Nat /\ channels[n] \in Nat
      BY Numbers
    <3>3. workers'[n] <= v /\ channels'[n] <= v /\ channels'[n] \in Nat
      BY <2>1, <2>2, <3>1, <3>2
    <3>4. list[n] <= v \/ list[n] = 1
      <4>1. CASE list[n] = hashes[n]
        BY <2>2, <3>1, <3>2, <4>1
      <4>2. CASE list[n] # hashes[n]
        <5>1. list[n] = 0 \/ list[n] = v
          BY <2>1, <4>2, Types
        <5> QED
          BY <2>2, <5>1
      <4> QED
        BY <4>1, <4>2
    <3> QED
      BY <2>1, <3>3, <3>4
  <2>4. ASSUME NEW w \in Workers
        PROVE  (chanOf[w] <= gen)' /\ WorkerOK(w)'
    <3>1. w[1] \in Names /\ w[2] \in Versions /\ w = <<w[1], w[2]>> /\ chanOf[w] \in Nat
          /\ w[2] \in Nat
      BY Numbers
    <3>2. chanOf[w] <= gen
      BY <1>1
    <3>3. CASE w[2] = v /\ w[1] \in up
      <4>1. chanOf'[<<w[1], v>>] = channels'[w[1]]
        BY <1>6, <3>3 DEF Reloads
      <4>2. chanOf'[w] <= v
        BY <2>3, <3>1, <3>3, <4>1
      <4> QED
        BY <2>1, <2>2, <3>3, <4>2
    <3>4. CASE w[2] # v \/ w[1] \notin up
      <4>1. chanOf'[w] = chanOf[w] /\ \A k \in Kinds : wpc'[w][k] = wpc[w][k]
        BY <1>6, <3>1, <3>4 DEF Reloads, Starts
      <4>2. ASSUME w[2] > v
            PROVE  w \notin running'
        <5>1. w[2] > gen /\ w[2] \in VersionOrNone
          BY <2>2, <3>1, <4>2 DEF VersionOrNone
        <5>2. w \notin running
          BY <1>1, <5>1
        <5>3. w[2] # channels'[w[1]]
          <6>1. channels'[w[1]] <= v /\ channels'[w[1]] \in Nat
            BY <2>2, <2>3, <3>1
          <6> QED
            BY <2>2, <3>1, <4>2, <6>1
        <5> QED
          BY <1>6, <3>1, <5>1, <5>2, <5>3 DEF Reloads
      <4>3. w[2] > v => w[2] > gen
        BY <2>2, <3>1
      <4>4. chanOf'[w] <= v
        BY <2>2, <3>1, <3>2, <4>1
      <4> QED
        BY <1>1, <2>1, <4>1, <4>2, <4>3, <4>4
    <3> QED
      BY <3>3, <3>4
  <2>5. ASSUME NEW u \in Versions
        PROVE  VersionOK(u)'
    <3>1. u > v => u > gen /\ u # v
      BY <2>2, Types
    <3> QED
      BY <1>1, <2>1, <3>1
  <2>6. \A n \in Names : InstanceOK(n)'
    BY <2>1, <2>2
  <2> HIDE DEF v
  <2> QED
    BY <1>2, <2>1, <2>3, <2>4, <2>5, <2>6
<1>7. CASE Locks
  <2>1. UNCHANGED <<hashes, chanOf, gen, wpc>> /\ running' \subseteq running
    BY <1>7 DEF Locks
  <2>2. ASSUME UNCHANGED <<channels, workers, unreg, rereg>>, stopped' \/ UNCHANGED <<task, stopped>>,
               \A w \in Workers, k \in Kinds : <<w, k>> \in closed' \ closed => w[2] <= gen
        PROVE  FreshInv'
    <3>1. \A w \in Workers : w[2] \in Nat /\ gen \in Nat
      BY Types
    <3> QED
      BY <1>1, <1>2, <2>1, <2>2, <3>1
  <2>3. \A n \in Registered : WorkerOf(n)[2] <= gen
    BY DEF FreshInv, Registered, WorkerOf
  <2>4. CASE StopAll
    BY <2>2, <2>3, <2>4 DEF StopAll
  <2>5. CASE StopMedia \/ StopEnd
    BY <2>2, <2>3, <2>5 DEF StopMedia, StopEnd
  <2>6. ASSUME NEW v \in Versions, Unregister(v) \/ UnregisterMedia(v) \/ UnregisterEnd(v) \/ Register(v)
        PROVE  FreshInv'
    <3>1. gen > 0
      <4>1. CASE Unregister(v) \/ Register(v)
        <5>1. unreg[v] # {} \/ rereg[v] # {}
          BY <4>1 DEF Unregister, Register
        <5>2. ~(v > gen)
          BY <1>1, <5>1
        <5> QED
          BY <5>2, Types, ManagerAssumption DEF Versions
      <4>2. CASE UnregisterMedia(v) \/ UnregisterEnd(v)
        <5>1. busy \in Registered
          BY <4>2 DEF UnregisterMedia, UnregisterEnd, LockInv, Registered
        <5>2. workers[busy] \in Versions /\ workers[busy] <= gen
          BY <1>1, <5>1, Types
        <5> QED
          BY <5>2, Types, ManagerAssumption DEF Versions
      <4> QED
        BY <2>6, <4>1, <4>2
    <3>2. UNCHANGED <<task, stopped>>
      BY <2>6 DEF Unregister, UnregisterMedia, UnregisterEnd, Register
    <3>3. \A n \in Names : workers'[n] \in {None, workers[n]}
      <4>1. workers' = workers \/ workers' = [workers EXCEPT ![busy] = None]
        BY <2>6 DEF Unregister, UnregisterMedia, UnregisterEnd, Register, Unregistered
      <4> QED
        BY <4>1 DEF TypeOK
    <3>4. \A n \in Names : \/ channels'[n] \in {None, channels[n]}
                           \/ \E w \in Workers : channels'[n] = chanOf[w]
      <4>1. CASE Unregister(v) \/ UnregisterMedia(v) \/ UnregisterEnd(v)
        <5>1. channels' = channels \/ \E m \in Names : channels' = [channels EXCEPT ![m] = None]
          BY <4>1 DEF Unregister, UnregisterMedia, UnregisterEnd, TypeOK, LockInv
        <5> QED
          BY <5>1 DEF TypeOK
      <4>2. CASE Register(v)
        <5>1. PICK m \in rereg[v] : channels' = [channels EXCEPT ![m] = chanOf[<<m, v>>]]
          BY <4>2 DEF Register
        <5>2. <<m, v>> \in Workers
          BY Types DEF TypeOK
        <5> QED
          BY <5>1, <5>2 DEF TypeOK
      <4> QED
        BY <2>6, <4>1, <4>2
    <3>5. \A u \in Versions : unreg'[u] \subseteq unreg[u] /\ rereg'[u] \subseteq rereg[u]
      <4>1. CASE Unregister(v)
        <5>1. /\ unreg' = unreg \/ \E S : unreg' = [unreg EXCEPT ![v] = unreg[v] \ S]
              /\ rereg' = rereg \/ rereg' = [rereg EXCEPT ![v] = {}]
          <6>1. unreg' = [unreg EXCEPT ![v] = {}] => unreg' = [unreg EXCEPT ![v] = unreg[v] \ unreg[v]]
            OBVIOUS
          <6> QED
            BY <4>1, <6>1 DEF Unregister
        <5> QED
          BY ZenonT(20), <5>1 DEF TypeOK
      <4>2. CASE UnregisterMedia(v) \/ UnregisterEnd(v)
        <5>1. rereg' = rereg /\ (unreg' = unreg \/ unreg' = [unreg EXCEPT ![v] = unreg[v] \ {busy}])
          BY <4>2 DEF UnregisterMedia, UnregisterEnd
        <5> QED
          BY <5>1 DEF TypeOK
      <4>3. CASE Register(v)
        BY <4>3 DEF Register, TypeOK
      <4> QED
        BY <2>6, <4>1, <4>2, <4>3
    <3>6. \A w \in Workers, k \in Kinds : <<w, k>> \in closed' \ closed => w[2] <= gen
      <4>1. \A w, k : <<w, k>> \in closed' \ closed => \E n \in Registered : w = WorkerOf(n)
        <5>1. CASE Unregister(v)
          BY <5>1 DEF Unregister, Registered, TypeOK
        <5>2. CASE UnregisterMedia(v)
          BY <5>2 DEF UnregisterMedia, LockInv, Registered
        <5>3. CASE UnregisterEnd(v) \/ Register(v)
          BY <5>3 DEF UnregisterEnd, Register
        <5> QED
          BY <2>6, <5>1, <5>2, <5>3
      <4> QED
        BY <2>3, <4>1
    <3>7. ASSUME NEW n \in Names
          PROVE  InstanceOK(n)' /\ NameOK(n)'
      <4>1. channels'[n] <= gen
        <5>1. channels[n] <= gen /\ None <= gen /\ \A w \in Workers : chanOf[w] <= gen
          BY <1>1, <3>1, Types
        <5> QED
          BY <3>4, <5>1
      <4>2. workers'[n] <= gen
        <5>1. workers[n] <= gen /\ None <= gen
          BY <1>1, Types
        <5> QED
          BY <3>3, <5>1
      <4> QED
        BY <1>1, <2>1, <3>1, <4>1, <4>2, Types
    <3>8. ASSUME NEW w \in Workers
          PROVE  WorkerOK(w)'
      <4>1. w[2] \in Nat /\ gen \in Nat
        BY Numbers
      <4> QED
        BY <1>1, <2>1, <3>6, <4>1
    <3> QED
      BY <1>1, <1>2, <2>1, <3>2, <3>5, <3>7, <3>8
  <2> QED
    BY <1>7, <2>4, <2>5, <2>6 DEF Locks, LockStep
<1> QED
  BY <1>3, <1>4, <1>5, <1>6, <1>7 DEF Step

LEMMA KeepsQueue ==
  ASSUME TypeOK, FreshInv, RestInv, DispatchInv, QueueInv, Step
  PROVE  QueueInv'
<1> USE DEF dispatch, work, maps
<1> DEFINE InRange(w, k) == \A i \in DOMAIN queue[w][k] :
                               queue[w][k][i] \in 1 .. next[k] - 1 /\ cur[w][k].no < queue[w][k][i]
           Ordered(w, k) == \A i, j \in DOMAIN queue[w][k] : i < j => queue[w][k][i] < queue[w][k][j]
           Taken(w, k) == cur[w][k].no < next[k] /\ (wpc[w][k] = "send" => cur[w][k].no >= 1)
<1>1. \A w \in Workers, k \in Kinds : InRange(w, k) /\ Ordered(w, k) /\ Taken(w, k)
  BY DEF QueueInv
<1> SUFFICES ASSUME NEW w \in Workers, NEW k \in Kinds
             PROVE  InRange(w, k)' /\ Ordered(w, k)' /\ Taken(w, k)'
  BY DEF QueueInv
<1>2. ASSUME queue'[w][k] = queue[w][k], cur'[w][k] = cur[w][k], next'[k] \in {next[k], next[k] + 1},
             wpc'[w][k] = "send" => wpc[w][k] = "send"
      PROVE  InRange(w, k)' /\ Ordered(w, k)' /\ Taken(w, k)'
  <2>1. next[k] \in Nat /\ cur[w][k].no \in Nat /\ \A i \in DOMAIN queue[w][k] : queue[w][k][i] \in Nat
    BY Types
  <2> QED
    BY <1>1, <1>2, <2>1
<1>3. CASE Still \/ Locks
  BY <1>2, <1>3 DEF Still, Locks
<1>4. ASSUME NEW up, NEW v, StartStep(up, v)
      PROVE  InRange(w, k)' /\ Ordered(w, k)' /\ Taken(w, k)'
  <2>1. w[1] \in Names /\ w[2] \in Versions /\ w = <<w[1], w[2]>>
    BY Types
  <2>2. wpc'[w][k] = "send" => wpc[w][k] = "send"
    <3>1. CASE w[1] \in up /\ w[2] = v
      BY <1>4, <2>1, <3>1 DEF StartStep, Starts
    <3>2. CASE ~(w[1] \in up /\ w[2] = v)
      BY <1>4, <2>1, <3>2 DEF StartStep, Starts
    <3> QED
      BY <3>1, <3>2
  <2>3. UNCHANGED <<queue, cur, next>>
    BY <1>4 DEF StartStep, Starts
  <2> QED
    BY <1>2, <2>2, <2>3
<1>5. ASSUME NEW l \in Kinds, Dispatches(l)
      PROVE  InRange(w, k)' /\ Ordered(w, k)' /\ Taken(w, k)'
  <2>1. next'[k] \in {next[k], next[k] + 1}
    <3>1. CASE l # k
      BY <1>5, <3>1 DEF Dispatches
    <3>2. CASE l = k
      BY <1>5, <3>2 DEF Dispatches, Takes, Skips, Finds, Enqueues, Quits
    <3> QED
      BY <3>1, <3>2
  <2>2. cur' = cur /\ wpc' = wpc
    BY <1>5 DEF Dispatches
  <2>3. CASE queue'[w][k] = queue[w][k]
    BY <1>2, <2>1, <2>2, <2>3
  <2>4. CASE queue'[w][k] # queue[w][k]
    <3>1. PICK u : Enqueues(l, u)
      BY <1>5, <2>4 DEF Dispatches, Takes, Skips, Finds, Quits
    <3>2. u = w /\ l = k
      BY <2>4, <3>1 DEF Enqueues
    <3>3. queue'[w][k] = Append(queue[w][k], next[k]) /\ next'[k] = next[k] + 1
      BY <3>1, <3>2 DEF Enqueues
    <3>4. next[k] \in Nat \ {0} /\ cur[w][k].no \in Nat /\ queue[w][k] \in Seq(Nat)
      BY Types
    <3> DEFINE q == queue[w][k]
               p == queue'[w][k]
               m == next[k]
    <3>5. q \in Seq(Nat) /\ p = Append(q, m) /\ m \in Nat /\ m >= 1
      BY <3>3, <3>4
    <3>6. \A i \in DOMAIN q : q[i] \in 1 .. m - 1 /\ cur[w][k].no < q[i]
      BY <1>1
    <3>7. \A i, j \in DOMAIN q : i < j => q[i] < q[j]
      BY <1>1
    <3>8. cur[w][k].no < m
      BY <1>1
    <3> HIDE DEF q, p, m
    <3>9. \A i \in DOMAIN p : (i \in DOMAIN q /\ p[i] = q[i]) \/ (i = Len(q) + 1 /\ p[i] = m)
      BY <3>5
    <3>10. \A i \in DOMAIN p : p[i] \in 1 .. m /\ cur[w][k].no < p[i]
      BY <3>5, <3>6, <3>8, <3>9
    <3>11. \A i, j \in DOMAIN p : i < j => p[i] < p[j]
      <4>1. \A i \in DOMAIN q : q[i] < m /\ i <= Len(q) /\ i \in Nat
        BY <3>5, <3>6
      <4>2. Len(q) \in Nat
        BY <3>5
      <4> QED
        BY <3>7, <3>9, <4>1, <4>2
    <3>12. InRange(w, k)' /\ Ordered(w, k)'
      BY SMTT(20), <2>2, <3>3, <3>5, <3>10, <3>11 DEF p, m
    <3>13. Taken(w, k)'
      BY <1>1, <2>2, <3>3, <3>4
    <3> QED
      BY <3>12, <3>13
  <2> QED
    BY <2>3, <2>4
<1>6. ASSUME NEW u \in Workers, NEW l \in Kinds, Works(u, l)
      PROVE  InRange(w, k)' /\ Ordered(w, k)' /\ Taken(w, k)'
  <2>1. next' = next
    BY <1>6 DEF Works
  <2>2. CASE u # w \/ l # k
    BY <1>2, <1>6, <2>1, <2>2 DEF Works
  <2>3. CASE u = w /\ l = k /\ Receives(w, k)
    <3>1. /\ queue[w][k] # <<>> /\ cur'[w][k].no = Head(queue[w][k])
          /\ queue'[w][k] = Tail(queue[w][k]) /\ queue[w][k] \in Seq(Nat) /\ next[k] \in Nat
      BY <2>3, Types DEF Receives
    <3> DEFINE q == queue[w][k]
               p == queue'[w][k]
    <3>2. q \in Seq(Nat) /\ q # <<>> /\ p = Tail(q) /\ cur'[w][k].no = q[1]
      BY <3>1
    <3>3. \A i \in DOMAIN q : q[i] \in 1 .. next[k] - 1
      BY <1>1
    <3>4. \A i, j \in DOMAIN q : i < j => q[i] < q[j]
      BY <1>1
    <3> HIDE DEF q, p
    <3>5. /\ DOMAIN p = 1 .. Len(q) - 1 /\ \A i \in DOMAIN p : p[i] = q[i + 1]
          /\ DOMAIN q = 1 .. Len(q) /\ Len(q) \in Nat /\ Len(q) >= 1
      BY <3>2
    <3>6. \A i \in DOMAIN p : i + 1 \in DOMAIN q /\ 1 < i + 1 /\ i \in Nat
      BY <3>5
    <3>7. 1 \in DOMAIN q
      BY <3>5
    <3>8. InRange(w, k)'
      BY <2>1, <3>2, <3>3, <3>4, <3>5, <3>6, <3>7 DEF p
    <3>9. Ordered(w, k)'
      BY <3>4, <3>5, <3>6 DEF p
    <3>10. Taken(w, k)'
      BY SMTT(20), <2>1, <3>1, <3>2, <3>3, <3>7
    <3> QED
      BY <3>8, <3>9, <3>10
  <2>4. CASE u = w /\ l = k /\ Leaves(w, k)
    BY <1>2, <2>1, <2>4 DEF Leaves
  <2>5. CASE u = w /\ l = k /\ Sends(w, k)
    <3>1. queue'[w][k] = queue[w][k] /\ wpc[w][k] = "send"
      BY <2>5 DEF Sends
    <3>2. next[k] \in Nat /\ next[k] >= 1 /\ \A i \in DOMAIN queue[w][k] : queue[w][k][i] \in Nat
      <4>1. next[k] \in Nat \ {0}
        BY Types
      <4>2. \A i \in DOMAIN queue[w][k] : queue[w][k][i] \in Nat
        BY Types
      <4> QED
        BY <4>1, <4>2
    <3>3. CASE cur'[w][k].no = cur[w][k].no
      BY <1>1, <2>1, <3>1, <3>2, <3>3
    <3>4. CASE cur'[w][k] = NoChunk /\ wpc'[w][k] = "idle"
      <4>1. cur'[w][k].no = 0
        BY <3>4 DEF NoChunk
      <4>2. \A i \in DOMAIN queue[w][k] : queue[w][k][i] > 0
        BY <1>1, <3>2
      <4> QED
        BY <1>1, <2>1, <3>1, <3>2, <3>4, <4>1, <4>2
    <3> QED
      BY <2>5, <3>3, <3>4 DEF Sends, Begins, Again, GoesOn, Finishes
  <2> QED
    BY <1>6, <2>2, <2>3, <2>4, <2>5 DEF Works
<1> QED
  BY <1>3, <1>4, <1>5, <1>6, StepSays

\* The worker of version u is the one the manager has for n, with the instance it has.
Holds(n, u) == channels[n] = u /\ workers[n] = u /\ hashes[n] # None

\* Whoever can send to a channel after a start of workers could before it, or was started,
\* and the manager has it: what a reload keeps of a channel it leaves as it was.
LEMMA StartAllSenders ==
  ASSUME TypeOK, FreshInv, NEW up, StartsAll(up),
         NEW n \in Names, NEW u \in Versions, NEW k \in Kinds, CanSend(n, u, k)'
  PROVE  n \in up /\ u = 1 /\ Holds(n, u)'
<1>1. /\ running' = {<<m, 1>> : m \in up} /\ gen = 0 /\ up \subseteq Names
      /\ UNCHANGED <<channels, hashes>> /\ \A m \in up : channels[m] # None
      /\ workers'[n] = IF n \in up THEN 1 ELSE workers[n]
  BY DEF StartsAll, Starts
<1>2. n \in up /\ chanOf'[<<n, u>>] = 1
  BY <1>1 DEF CanSend
<1>3. u = 1
  <2>1. CASE u # 1
    <3>1. chanOf'[<<n, u>>] = chanOf[<<n, u>>]
      BY <2>1 DEF StartsAll, Starts
    <3>2. <<n, u>> \in Workers
      BY Types
    <3>3. chanOf[<<n, u>>] <= 0
      BY <1>1, <3>2 DEF FreshInv
    <3> QED
      BY <1>2, <3>1, <3>3
  <2> QED
    BY <2>1
<1>4. channels[n] = 1 /\ hashes[n] # None
  BY <1>1, <1>2 DEF FreshInv
<1> QED
  BY <1>1, <1>2, <1>3, <1>4 DEF Holds

LEMMA ReloadSenders ==
  ASSUME TypeOK, FreshInv, RestInv, RunInv, NEW list, NEW ok, NEW up, Reloads(list, ok, up),
         NEW n \in Names, NEW u \in Versions, NEW k \in Kinds, Plain(n)', CanSend(n, u, k)'
  PROVE  /\ (n \in up /\ u = gen + 1) \/ (Plain(n) /\ CanSend(n, u, k))
         /\ Holds(n, u)'
<1> DEFINE v == gen + 1
<1>1. /\ v \in Versions /\ v > gen /\ v # None /\ gen \in Nat /\ v \in Nat
  <2>1. v \in Versions /\ v > gen
    BY NewVersion
  <2> QED
    BY <2>1, Types
<1>2. /\ list \in [Names -> VersionOrNone] /\ hashes' = list /\ hidden' = hidden
      /\ list[n] \in {None, hashes[n], v} /\ (n \in ok \cup up => list[n] = v)
      /\ channels'[n] = IF n \in ok THEN v ELSE channels[n]
      /\ workers'[n] = IF n \in up THEN v ELSE workers[n]
      /\ n \in up => channels'[n] # None /\ chanOf'[<<n, v>>] = channels'[n]
  BY DEF Reloads, Starts, history
<1>3. \A x \in VersionOrNone : <<n, x>> \in running' <=>
         \/ <<n, x>> \in running /\ ~(hashes[n] \notin {None, list[n]} /\ x = channels[n])
         \/ n \in up /\ x = channels'[n]
  BY DEF Reloads
<1>4. \A x \in Versions : x # v \/ n \notin up =>
         /\ chanOf'[<<n, x>>] = chanOf[<<n, x>>]
         /\ wpc'[<<n, x>>][k] = wpc[<<n, x>>][k]
  BY DEF Reloads, Starts
<1>5. \A x \in Versions : chanOf'[<<n, x>>] \in {None, x}
  BY DEF Plain, OwnInstance
<1>6. chanOf[<<n, v>>] = None
  BY <1>1, Types, Fresh DEF FreshInv
<1>7. None \in VersionOrNone /\ Versions \subseteq VersionOrNone /\ <<n, None>> \notin running
  BY Types DEF TypeOK, VersionOrNone, Workers
<1>8. <<n, chanOf'[<<n, u>>]>> \in running' /\ chanOf'[<<n, u>>] = u /\ <<n, u>> \in running'
  <2>1. <<n, chanOf'[<<n, u>>]>> \in running'
    BY DEF CanSend
  <2>2. <<n, None>> \notin running'
    BY <1>2, <1>3, <1>7
  <2> QED
    BY <1>5, <2>1, <2>2
<1> HIDE DEF v
<1>9. CASE n \in up /\ u = v
  <2>1. channels'[n] = v /\ workers'[n] = v /\ hashes'[n] # None
    BY <1>1, <1>2, <1>8, <1>9
  <2> QED
    BY <1>9, <2>1 DEF Holds, v
<1>10. CASE ~(n \in up /\ u = v)
  <2>1. chanOf[<<n, u>>] = u /\ Alive(<<n, u>>, k)
    BY <1>4, <1>8, <1>10 DEF CanSend, Alive
  <2>2. <<n, u>> \in running /\ ~(hashes[n] \notin {None, list[n]} /\ u = channels[n])
    <3>1. ~(n \in up /\ u = channels'[n])
      <4>1. ASSUME n \in up, u = channels'[n]
            PROVE  FALSE
        BY <1>1, <1>2, <1>5, <1>10, <4>1
      <4> QED
        BY <4>1
    <3> QED
      BY <1>3, <1>7, <1>8, <3>1
  <2>3. Plain(n)
    <3>1. \A x \in Versions : chanOf[<<n, x>>] \in {None, x}
      BY <1>4, <1>5, <1>6
    <3> QED
      BY <1>2, <3>1 DEF Plain, OwnInstance
  <2>4. CanSend(n, u, k)
    BY <2>1, <2>2 DEF CanSend
  <2>5. channels[n] = u /\ workers[n] = u /\ hashes[n] # None
    BY <2>3, <2>4 DEF RunInv
  <2>6. list[n] = hashes[n]
    BY <2>2, <2>5
  <2>7. list[n] # v
    <3>1. (hashes[n] <= gen \/ hashes[n] = 1) /\ gen >= 1
      BY DEF FreshInv, Reloads
    <3> QED
      BY <1>1, <2>6, <3>1, Numbers DEF v
  <2>8. channels'[n] = u /\ workers'[n] = u /\ hashes'[n] # None
    BY <1>2, <2>5, <2>6, <2>7
  <2> QED
    BY <2>3, <2>4, <2>8 DEF Holds
<1> QED
  BY <1>9, <1>10

\* No other step lets anyone send that could not.
Quiet == /\ UNCHANGED <<chanOf, hashes, gen>> /\ running' \subseteq running /\ hidden \subseteq hidden'
         /\ \A w \in Workers, k \in Kinds : Alive(w, k)' => Alive(w, k)

LEMMA QuietSays ==
  ASSUME TypeOK
  PROVE  /\ Still \/ Locks => Quiet
         /\ \A k \in Kinds : Dispatches(k) => Quiet
         /\ \A w \in Workers, k \in Kinds : Works(w, k) => Quiet
<1> USE DEF maps, work, history
<1>1. Still \/ Locks => Quiet
  BY DEF Still, Locks, Quiet, Alive
<1>2. ASSUME NEW k \in Kinds, Dispatches(k)
      PROVE  Quiet
  BY <1>2 DEF Dispatches, Quiet, Alive
<1>3. ASSUME NEW w \in Workers, NEW k \in Kinds, Works(w, k)
      PROVE  Quiet
  <2>1. \A u \in Workers, j \in Kinds : Alive(u, j)' => Alive(u, j)
    BY <1>3 DEF Works, Receives, Leaves, Sends, Alive
  <2> QED
    BY <1>3, <2>1 DEF Works, Quiet
<1> QED
  BY <1>1, <1>2, <1>3

LEMMA QuietSenders ==
  ASSUME TypeOK, Quiet, NEW n \in Names, Plain(n)'
  PROVE  /\ Plain(n)
         /\ \A u \in Versions, k \in Kinds : CanSend(n, u, k)' => CanSend(n, u, k)
<1>1. Plain(n)
  BY DEF Quiet, Plain, OwnInstance
<1>2. \A u \in Versions : <<n, u>> \in Workers
  BY Types
<1> QED
  BY <1>1, <1>2 DEF Quiet, CanSend

LEMMA KeepsRun ==
  ASSUME TypeOK, FreshInv, RestInv, LockInv, RunInv, Step
  PROVE  RunInv'
<1> USE DEF maps, work
<1> SUFFICES ASSUME NEW n \in Names, NEW u \in Versions, NEW k \in Kinds,
                    Plain(n)', CanSend(n, u, k)'
             PROVE  Holds(n, u)'
  BY DEF RunInv, Holds
<1>1. ASSUME Quiet
      PROVE  /\ Plain(n) /\ CanSend(n, u, k) /\ channels[n] = u /\ workers[n] = u /\ hashes[n] # None
             /\ hashes' = hashes
  <2>1. Plain(n) /\ CanSend(n, u, k)
    BY <1>1, QuietSenders
  <2> QED
    BY <1>1, <2>1 DEF RunInv, Quiet
<1>2. ASSUME Quiet, channels'[n] = channels[n], workers'[n] = workers[n]
      PROVE  Holds(n, u)'
  BY <1>1, <1>2 DEF Holds
<1>3. CASE Still
  <2>1. UNCHANGED <<channels, workers>>
    BY <1>3 DEF Still
  <2> QED
    BY <1>2, <1>3, <2>1, QuietSays
<1>4. ASSUME NEW j \in Kinds, Dispatches(j)
      PROVE  Holds(n, u)'
  <2>1. UNCHANGED <<channels, workers>>
    BY <1>4 DEF Dispatches
  <2> QED
    BY <1>2, <1>4, <2>1, QuietSays
<1>5. ASSUME NEW w \in Workers, NEW j \in Kinds, Works(w, j)
      PROVE  Holds(n, u)'
  <2>1. UNCHANGED <<channels, workers>>
    BY <1>5 DEF Works
  <2> QED
    BY <1>2, <1>5, <2>1, QuietSays
<1>6. ASSUME NEW up, StartsAll(up)
      PROVE  Holds(n, u)'
  BY <1>6, StartAllSenders
<1>7. ASSUME NEW list, NEW ok, NEW up, Reloads(list, ok, up)
      PROVE  Holds(n, u)'
  BY <1>7, ReloadSenders
<1>8. CASE Locks
  <2>1. Quiet
    BY <1>8, QuietSays
  <2>2. Plain(n) /\ CanSend(n, u, k) /\ channels[n] = u /\ workers[n] = u
    BY <1>1, <2>1
  <2>3. u # None
    BY Types
  <2>4. CASE StopAll \/ StopMedia \/ StopEnd
    <3>1. UNCHANGED <<channels, workers>>
      BY <2>4 DEF StopAll, StopMedia, StopEnd
    <3> QED
      BY <1>2, <2>1, <3>1
  <2>5. ASSUME NEW v \in Versions, Unregister(v)
        PROVE  Holds(n, u)'
    <3>1. workers' = workers
      BY <2>5 DEF Unregister
    <3>2. \A m \in Names : channels'[m] # channels[m] => workers[m] = None
      BY <2>5 DEF Unregister, TypeOK
    <3> QED
      BY <1>2, <2>1, <2>2, <2>3, <3>1, <3>2
  <2>6. ASSUME NEW v \in Versions, UnregisterMedia(v)
        PROVE  Holds(n, u)'
    <3>1. UNCHANGED <<channels, workers>>
      BY <2>6 DEF UnregisterMedia
    <3> QED
      BY <1>2, <2>1, <3>1
  <2>7. ASSUME NEW v \in Versions, UnregisterEnd(v)
        PROVE  Holds(n, u)'
    <3>1. /\ channels' = [channels EXCEPT ![busy] = None] /\ workers' = [workers EXCEPT ![busy] = None]
          /\ wpc[WorkerOf(busy)]["text"] = "gone" /\ wpc[WorkerOf(busy)]["media"] = "gone"
      BY <2>7 DEF UnregisterEnd, Unregistered, LockInv
    <3>2. n # busy
      BY <2>2, <3>1 DEF CanSend, Alive, Kinds, WorkerOf
    <3>3. channels'[n] = channels[n] /\ workers'[n] = workers[n]
      BY <3>1, <3>2 DEF TypeOK
    <3> QED
      BY <1>2, <2>1, <3>3
  <2>8. ASSUME NEW v \in Versions, Register(v)
        PROVE  Holds(n, u)'
    <3>1. PICK m \in rereg[v] :
             /\ channels' = [channels EXCEPT ![m] = chanOf[<<m, v>>]]
             /\ hidden' = IF workers[m] \in {None, v} THEN hidden ELSE hidden \cup {m}
             /\ UNCHANGED <<workers, chanOf, running>>
      BY <2>8 DEF Register
    <3>2. CASE n # m
      <4>1. channels'[n] = channels[n]
        BY <3>1, <3>2 DEF TypeOK
      <4> QED
        BY <1>2, <2>1, <3>1, <4>1
    <3>3. CASE n = m
      <4>1. n \notin hidden'
        BY DEF Plain
      <4>2. u = v
        BY <2>2, <2>3, <3>1, <3>3, <4>1
      <4>3. <<n, None>> \notin running
        BY Types DEF TypeOK, Workers
      <4>4. chanOf[<<n, v>>] = v
        BY <2>2, <4>2, <4>3 DEF CanSend, Plain, OwnInstance
      <4>5. channels'[n] = v
        BY <3>1, <3>3, <4>4 DEF TypeOK
      <4> QED
        BY <1>2, <2>1, <2>2, <3>1, <4>2, <4>5
    <3> QED
      BY <3>2, <3>3
  <2> QED
    BY <1>8, <2>4, <2>5, <2>6, <2>7, <2>8 DEF Locks, LockStep
<1> QED
  BY <1>3, <1>4, <1>5, <1>6, <1>7, <1>8 DEF Step

LEMMA KeepsAhead ==
  ASSUME TypeOK, FreshInv, RestInv, DispatchInv, QueueInv, RunInv, AheadInv, FlightInv, Step
  PROVE  AheadInv'
<1> USE DEF maps, work, dispatch, history
<1> DEFINE Old(n, k) == \A i \in DOMAIN delivered[n][k] : delivered[n][k][i].no < next[k]
           Behind(n, u, k) == \A i \in DOMAIN delivered[n][k] :
                                 /\ \A j \in DOMAIN queue[<<n, u>>][k] :
                                       delivered[n][k][i].no < queue[<<n, u>>][k][j]
                                 /\ wpc[<<n, u>>][k] = "send" =>
                                       Before(delivered[n][k][i], cur[<<n, u>>][k])
<1>1. \A n \in Names, k \in Kinds :
         Old(n, k) /\ \A u \in Versions : Plain(n) /\ CanSend(n, u, k) => Behind(n, u, k)
  BY DEF AheadInv
<1> SUFFICES ASSUME NEW n \in Names, NEW k \in Kinds
             PROVE  /\ Old(n, k)'
                    /\ \A u \in Versions : (Plain(n) /\ CanSend(n, u, k))' => Behind(n, u, k)'
  BY DEF AheadInv
<1>2. /\ next[k] \in Nat /\ delivered[n][k] \in Seq(ShownChunk)
      /\ \A i \in DOMAIN delivered[n][k] : delivered[n][k][i].no \in Nat
  <2>1. next[k] \in Nat /\ delivered[n][k] \in Seq(ShownChunk)
    BY Types DEF TypeOK
  <2>2. \A i \in DOMAIN delivered[n][k] : delivered[n][k][i] \in ShownChunk
    BY <2>1
  <2> QED
    BY <2>1, <2>2 DEF ShownChunk
<1>3. ASSUME delivered'[n][k] = delivered[n][k], next'[k] \in {next[k], next[k] + 1}
      PROVE  Old(n, k)'
  BY SMTT(20), <1>1, <1>2, <1>3
<1>4. ASSUME NEW u \in Versions, Plain(n), CanSend(n, u, k),
             delivered'[n][k] = delivered[n][k], queue'[<<n, u>>][k] = queue[<<n, u>>][k],
             cur'[<<n, u>>][k] = cur[<<n, u>>][k], wpc'[<<n, u>>][k] = wpc[<<n, u>>][k]
      PROVE  Behind(n, u, k)'
  BY <1>1, <1>4 DEF Before
<1>5. CASE Still \/ Locks
  <2>1. UNCHANGED <<delivered, next, queue, cur, wpc>> /\ Quiet
    BY <1>5, QuietSays DEF Still, Locks
  <2> QED
    BY <1>3, <1>4, <2>1, QuietSenders
<1>6. ASSUME NEW up, NEW v, NEW u \in Versions, StartStep(up, v), Plain(n)', CanSend(n, u, k)',
             (n \in up /\ u = v) \/ (Plain(n) /\ CanSend(n, u, k))
      PROVE  Behind(n, u, k)'
  <2>1. UNCHANGED <<delivered, next, queue, cur>> /\ v > gen
    BY <1>6 DEF StartStep, Starts
  <2>2. CASE n \in up /\ u = v
    <3>1. <<n, u>> \in Workers /\ <<n, u>>[2] > gen
      BY <2>1, <2>2, Types
    <3>2. queue[<<n, u>>][k] = <<>>
      BY <3>1, Fresh
    <3>3. wpc'[<<n, u>>][k] = "idle"
      BY <1>6, <2>2 DEF StartStep, Starts
    <3> QED
      BY <2>1, <3>2, <3>3
  <2>3. CASE ~(n \in up /\ u = v)
    <3>1. wpc'[<<n, u>>][k] = wpc[<<n, u>>][k]
      BY <1>6, <2>3 DEF StartStep, Starts
    <3> QED
      BY <1>4, <1>6, <2>1, <2>3, <3>1
  <2> QED
    BY <2>2, <2>3
<1>7. ASSUME NEW up, StartsAll(up)
      PROVE  /\ Old(n, k)'
             /\ \A u \in Versions : (Plain(n) /\ CanSend(n, u, k))' => Behind(n, u, k)'
  <2>1. StartStep(up, 1) /\ UNCHANGED <<delivered, next>>
    BY <1>7, NewVersion DEF StartStep, StartsAll, Starts
  <2>2. ASSUME NEW u \in Versions, Plain(n)', CanSend(n, u, k)'
        PROVE  Behind(n, u, k)'
    <3>1. n \in up /\ u = 1
      BY <1>7, <2>2, StartAllSenders
    <3> QED
      BY <1>6, <2>1, <2>2, <3>1
  <2> QED
    BY <1>3, <2>1, <2>2
<1>8. ASSUME NEW list, NEW ok, NEW up, Reloads(list, ok, up)
      PROVE  /\ Old(n, k)'
             /\ \A u \in Versions : (Plain(n) /\ CanSend(n, u, k))' => Behind(n, u, k)'
  <2>1. up \subseteq Names /\ Starts(up, gen + 1)
    BY <1>8 DEF Reloads
  <2>2. StartStep(up, gen + 1)
    BY <1>8, <2>1, NewVersion DEF StartStep
  <2>3. UNCHANGED <<delivered, next>>
    BY <2>1 DEF Starts
  <2>4. ASSUME NEW u \in Versions, Plain(n)', CanSend(n, u, k)'
        PROVE  Behind(n, u, k)'
    <3>1. (n \in up /\ u = gen + 1) \/ (Plain(n) /\ CanSend(n, u, k))
      BY <1>8, <2>4, ReloadSenders
    <3> QED
      BY <1>6, <2>2, <2>4, <3>1
  <2> QED
    BY <1>3, <2>3, <2>4
<1>9. ASSUME NEW l \in Kinds, Dispatches(l)
      PROVE  /\ Old(n, k)'
             /\ \A u \in Versions : (Plain(n) /\ CanSend(n, u, k))' => Behind(n, u, k)'
  <2>1. next'[k] \in {next[k], next[k] + 1}
    <3>1. CASE l # k
      BY <1>9, <3>1 DEF Dispatches
    <3>2. CASE l = k
      BY <1>9, <3>2 DEF Dispatches, Takes, Skips, Finds, Enqueues, Quits
    <3> QED
      BY <3>1, <3>2
  <2>2. UNCHANGED <<cur, wpc, delivered>> /\ Quiet
    BY <1>9, QuietSays DEF Dispatches
  <2>3. ASSUME NEW u \in Versions, Plain(n)', CanSend(n, u, k)'
        PROVE  Behind(n, u, k)'
    <3>1. Plain(n) /\ CanSend(n, u, k)
      BY <2>2, <2>3, QuietSenders
    <3>2. CASE queue'[<<n, u>>][k] = queue[<<n, u>>][k]
      BY <1>4, <2>2, <3>1, <3>2
    <3>3. CASE queue'[<<n, u>>][k] # queue[<<n, u>>][k]
      <4>1. <<n, u>> \in Workers
        BY Types
      <4>2. PICK w : Enqueues(l, w)
        BY <1>9, <3>3 DEF Dispatches, Takes, Skips, Finds, Quits
      <4>3. w = <<n, u>> /\ l = k
        BY <3>3, <4>1, <4>2 DEF Enqueues
      <4> DEFINE q == queue[<<n, u>>][k]
                 p == queue'[<<n, u>>][k]
      <4>4. p = Append(q, next[k]) /\ q \in Seq(Nat)
        BY <4>1, <4>2, <4>3, Types DEF Enqueues
      <4>5. \A i \in DOMAIN delivered[n][k] : \A j \in DOMAIN q : delivered[n][k][i].no < q[j]
        BY <1>1, <3>1
      <4>6. \A i \in DOMAIN delivered[n][k] : delivered[n][k][i].no < next[k]
        BY <1>1
      <4> HIDE DEF q, p
      <4>7. \A i \in DOMAIN delivered[n][k] : \A j \in DOMAIN p : delivered[n][k][i].no < p[j]
        <5>1. \A j \in DOMAIN p : (j \in DOMAIN q /\ p[j] = q[j]) \/ p[j] = next[k]
          BY <1>2, <4>4
        <5> QED
          BY <4>5, <4>6, <5>1
      <4>8. wpc[<<n, u>>][k] = "send" =>
               \A i \in DOMAIN delivered[n][k] :
                  Before(delivered[n][k][i], cur[<<n, u>>][k])
        BY <1>1, <3>1
      <4> QED
        BY <2>2, <4>7, <4>8 DEF p, Before
    <3> QED
      BY <3>2, <3>3
  <2> QED
    BY <1>3, <2>1, <2>2, <2>3
<1>10. ASSUME NEW w \in Workers, NEW l \in Kinds, Works(w, l)
       PROVE  /\ Old(n, k)'
              /\ \A u \in Versions : (Plain(n) /\ CanSend(n, u, k))' => Behind(n, u, k)'
  <2> DEFINE d == delivered[n][k]
  <2>1. next' = next /\ Quiet
    BY <1>10, QuietSays DEF Works
  <2>2. w[1] \in Names /\ w[2] \in Versions /\ w = <<w[1], w[2]>>
    BY Types
  <2>3. CASE delivered'[n][k] = d
    <3>1. ASSUME NEW u \in Versions, Plain(n)', CanSend(n, u, k)'
          PROVE  Behind(n, u, k)'
      <4>1. Plain(n) /\ CanSend(n, u, k) /\ <<n, u>> \in Workers
        BY <2>1, <3>1, QuietSenders, Types
      <4>2. CASE <<n, u>> # w \/ k # l
        BY <1>4, <1>10, <2>3, <4>1, <4>2 DEF Works
      <4>3. CASE <<n, u>> = w /\ k = l
        <5>1. /\ \A i \in DOMAIN d : \A j \in DOMAIN queue[w][k] : d[i].no < queue[w][k][j]
              /\ wpc[w][k] = "send" =>
                    \A i \in DOMAIN d : Before(d[i], cur[w][k])
          BY <1>1, <4>1, <4>3
        <5>2. SUFFICES
                 /\ \A i \in DOMAIN d : \A j \in DOMAIN queue'[w][k] : d[i].no < queue'[w][k][j]
                 /\ wpc'[w][k] = "send" =>
                       \A i \in DOMAIN d : Before(d[i], cur'[w][k])
          BY <2>3, <4>3 DEF Before
        <5>3. CASE Receives(w, k)
          <6>1. /\ queue[w][k] # <<>> /\ cur'[w][k].no = Head(queue[w][k])
                /\ queue'[w][k] = Tail(queue[w][k]) /\ queue[w][k] \in Seq(Nat)
            BY <5>3, Types DEF Receives
          <6>2. /\ DOMAIN queue'[w][k] = 1 .. Len(queue[w][k]) - 1
                /\ \A j \in DOMAIN queue'[w][k] : queue'[w][k][j] = queue[w][k][j + 1]
                /\ DOMAIN queue[w][k] = 1 .. Len(queue[w][k]) /\ Len(queue[w][k]) >= 1
                /\ Len(queue[w][k]) \in Nat /\ cur'[w][k].no = queue[w][k][1]
            BY <6>1
          <6>3. 1 \in DOMAIN queue[w][k]
                /\ \A j \in DOMAIN queue'[w][k] : j + 1 \in DOMAIN queue[w][k]
            BY <6>2
          <6> QED
            BY <5>1, <6>2, <6>3 DEF Before
        <5>4. CASE Leaves(w, k)
          BY <5>1, <5>4 DEF Leaves
        <5>5. CASE Sends(w, k)
          <6>1. queue'[w][k] = queue[w][k] /\ wpc[w][k] = "send"
            BY <5>5 DEF Sends
          <6>2. cur[w][k].no \in Nat /\ cur[w][k].chunk \in Nat /\ cur[w][k].tries \in Nat
            BY Types, ManagerAssumption DEF Chunk
          <6>3. \A i \in DOMAIN d : d[i].no \in Nat /\ d[i].chunk \in Nat /\ d[i].tries \in Nat
            <7>1. \A i \in DOMAIN d : d[i] \in ShownChunk
              BY <1>2
            <7> QED
              BY <7>1, ManagerAssumption DEF ShownChunk
          <6>4. wpc'[w][k] = "send" =>
                   /\ cur'[w][k].no = cur[w][k].no
                   /\ \/ cur'[w][k].chunk = cur[w][k].chunk + 1
                      \/ /\ cur'[w][k].chunk = cur[w][k].chunk
                         /\ cur'[w][k].tries \in {cur[w][k].tries, cur[w][k].tries + 1}
            BY SMTT(20), <5>5 DEF Sends, Begins, Again, GoesOn, Finishes
          <6> QED
            BY <5>1, <6>1, <6>2, <6>3, <6>4 DEF Before
        <5> QED
          BY <1>10, <4>3, <5>3, <5>4, <5>5 DEF Works
      <4> QED
        BY <4>2, <4>3
    <3> QED
      BY <1>3, <2>1, <2>3, <3>1
  <2>4. CASE delivered'[n][k] # d
    <3> DEFINE c == Posted(w, k)
               q == queue[w][k]
    <3>1. /\ w[1] = n /\ l = k /\ wpc[w][k] = "send" /\ queue'[w][k] = queue[w][k]
          /\ delivered'[n][k] = Append(d, c) /\ cur[w][k].posting
          /\ Again(w, k) \/ GoesOn(w, k) \/ Finishes(w, k)
      BY <1>10, <2>4 DEF Works, Receives, Leaves, Sends, Begins, Delivers
    <3>a. /\ cur[w][k] \in Chunk /\ c.no = cur[w][k].no /\ c.chunk = cur[w][k].chunk
          /\ c.tries = cur[w][k].tries /\ w[2] \in VersionOrNone /\ None \in VersionOrNone
      BY Types DEF Posted, VersionOrNone
    <3>2. /\ c \in ShownChunk /\ c.no \in Nat /\ c.chunk \in Nat /\ c.tries \in Nat
          /\ d \in Seq(ShownChunk) /\ c.no < next[k] /\ \A j \in DOMAIN q : c.no < q[j]
      <4>1. c \in ShownChunk /\ c.no \in Nat /\ c.chunk \in Nat /\ c.tries \in Nat
        BY <3>a, ManagerAssumption DEF Posted, ShownChunk, Chunk
      <4> HIDE DEF c
      <4> QED
        BY <1>2, <3>a, <4>1 DEF QueueInv
    <3>3. w = <<n, w[2]>> /\ (Runs(w) => CanSend(n, w[2], k))
      BY <2>2, <3>1 DEF CanSend, Alive, Runs
    <3>6. \A i \in DOMAIN d : d[i].no < next[k]
      BY <1>1
    <3>7. \A i \in DOMAIN d : d[i].no \in Nat /\ d[i].chunk \in Nat /\ d[i].tries \in Nat
      <4>1. \A i \in DOMAIN d : d[i] \in ShownChunk
        BY <3>2
      <4> QED
        BY <4>1, ManagerAssumption DEF ShownChunk
    <3>8. \A i \in DOMAIN delivered'[n][k] :
             (i \in DOMAIN d /\ delivered'[n][k][i] = d[i]) \/ delivered'[n][k][i] = c
      <4> HIDE DEF d, c
      <4> QED
        BY <3>1, <3>2
    <3>9. Old(n, k)'
      <4> HIDE DEF d, c
      <4> QED
        BY <2>1, <3>2, <3>6, <3>8
    <3>12. CASE Runs(w)
      <4>4. ASSUME NEW u \in Versions, Plain(n)', CanSend(n, u, k)'
            PROVE  /\ u = w[2] /\ Plain(n)
        <5>1. Plain(n) /\ CanSend(n, u, k)
          BY <2>1, <4>4, QuietSenders
        <5> QED
          BY <2>2, <3>3, <3>12, <5>1 DEF RunInv
      <4>5. Plain(n) => /\ \A i \in DOMAIN d : \A j \in DOMAIN q : d[i].no < q[j]
                        /\ \A i \in DOMAIN d : Before(d[i], cur[w][k])
        <5>1. Plain(n) => Behind(n, w[2], k)
          BY <1>1, <2>2, <3>3, <3>12
        <5> QED
          BY <3>1, <3>3, <5>1
      <4>10. wpc'[w][k] = "send" =>
                /\ cur'[w][k].no = c.no
                /\ \/ cur'[w][k].chunk = c.chunk + 1
                   \/ cur'[w][k].chunk = c.chunk /\ cur'[w][k].tries = c.tries + 1
        BY <3>1, <3>a DEF Again, GoesOn, Finishes
      <4>11. ASSUME Plain(n)
             PROVE  /\ \A i \in DOMAIN delivered'[n][k] : \A j \in DOMAIN q :
                          delivered'[n][k][i].no < q[j]
                    /\ wpc'[w][k] = "send" => \A i \in DOMAIN delivered'[n][k] :
                          Before(delivered'[n][k][i], cur'[w][k])
        <5> HIDE DEF d, c, q
        <5>1. \A i \in DOMAIN delivered'[n][k] : \A j \in DOMAIN q : delivered'[n][k][i].no < q[j]
          BY <3>2, <3>8, <4>5, <4>11
        <5>2. wpc'[w][k] = "send" =>
                 Before(c, cur'[w][k]) /\ \A i \in DOMAIN d : Before(d[i], cur'[w][k])
          BY <3>2, <3>7, <3>a, <4>5, <4>10, <4>11 DEF Before
        <5> QED
          BY <3>8, <5>1, <5>2
      <4> QED
        BY <3>1, <3>3, <3>9, <4>4, <4>11
    <3>13. CASE ~Runs(w)
      <4>1. ASSUME NEW u \in Versions, Plain(n)', CanSend(n, u, k)'
            PROVE  Behind(n, u, k)'
        <5>1. Plain(n) /\ CanSend(n, u, k) /\ Behind(n, u, k)
          BY <1>1, <2>1, <4>1, QuietSenders
        <5>2. <<n, u>> # w /\ <<n, u>> \in Workers
          BY <3>13, <5>1, Types DEF CanSend, Runs
        <5>3. /\ queue'[<<n, u>>][k] = queue[<<n, u>>][k] /\ cur'[<<n, u>>][k] = cur[<<n, u>>][k]
              /\ wpc'[<<n, u>>][k] = wpc[<<n, u>>][k]
          BY <1>10, <5>2 DEF Works
        <5>4. InFlight(n, w[2], k)
          BY <3>1, <3>3, <3>13 DEF InFlight
        <5>5. /\ \A j \in DOMAIN queue[<<n, u>>][k] : c.no < queue[<<n, u>>][k][j]
              /\ wpc[<<n, u>>][k] = "send" => c.no < cur[<<n, u>>][k].no
          <6> HIDE DEF c
          <6> QED
            BY <2>2, <3>3, <3>a, <5>1, <5>4 DEF FlightInv
        <5>6. /\ \A i \in DOMAIN delivered'[n][k] : \A j \in DOMAIN queue[<<n, u>>][k] :
                    delivered'[n][k][i].no < queue[<<n, u>>][k][j]
              /\ wpc[<<n, u>>][k] = "send" => \A i \in DOMAIN delivered'[n][k] :
                    Before(delivered'[n][k][i], cur[<<n, u>>][k])
          <6>1. wpc[<<n, u>>][k] = "send" => Before(c, cur[<<n, u>>][k])
            <7> HIDE DEF c
            <7> QED
              BY <5>5 DEF Before
          <6> HIDE DEF c
          <6> QED
            BY <3>8, <5>1, <5>5, <6>1
        <5> QED
          BY <5>3, <5>6 DEF Before
      <4> QED
        BY <3>9, <4>1
    <3> QED
      BY <3>12, <3>13
  <2> QED
    BY <2>3, <2>4
<1> QED
  BY <1>5, <1>7, <1>8, <1>9, <1>10 DEF Step

LEMMA KeepsFlight ==
  ASSUME TypeOK, FreshInv, RestInv, DispatchInv, QueueInv, RunInv, FlightInv, Step
  PROVE  FlightInv'
<1> USE DEF maps, work, dispatch, history
<1> DEFINE Later(n, u, v, k) ==
              /\ \A j \in DOMAIN queue[<<n, v>>][k] :
                    cur[<<n, u>>][k].no < queue[<<n, v>>][k][j]
              /\ wpc[<<n, v>>][k] = "send" => cur[<<n, u>>][k].no < cur[<<n, v>>][k].no
<1> SUFFICES ASSUME NEW n \in Names, NEW u \in Versions, NEW v \in Versions, NEW k \in Kinds,
                    Plain(n)', CanSend(n, v, k)', InFlight(n, u, k)'
             PROVE  Later(n, u, v, k)'
  BY DEF FlightInv
<1>1. <<n, u>> \in Workers /\ <<n, v>> \in Workers /\ <<n, u>>[1] = n
  BY Types
<1>2. u # v
  BY <1>1 DEF CanSend, InFlight, Runs
<1>3. cur[<<n, u>>][k].posting => wpc[<<n, u>>][k] = "send"
  BY <1>1 DEF RestInv, NoChunk
<1>4. ASSUME Plain(n), CanSend(n, v, k), cur[<<n, u>>][k].posting
      PROVE  Later(n, u, v, k)
  <2>1. ~Runs(<<n, u>>)
    <3>1. Runs(<<n, u>>) => CanSend(n, u, k)
      BY <1>1, <1>3, <1>4 DEF Runs, CanSend, Alive
    <3> QED
      BY <1>2, <1>4, <3>1 DEF RunInv
  <2> QED
    BY <1>4, <2>1 DEF FlightInv, InFlight
<1>5. ASSUME cur'[<<n, u>>][k] = cur[<<n, u>>][k], cur'[<<n, v>>][k] = cur[<<n, v>>][k],
             queue'[<<n, v>>][k] = queue[<<n, v>>][k], wpc'[<<n, v>>][k] = wpc[<<n, v>>][k],
             Plain(n), CanSend(n, v, k)
      PROVE  Later(n, u, v, k)'
  BY <1>4, <1>5 DEF InFlight
<1>6. CASE Still \/ Locks
  <2>1. UNCHANGED <<queue, cur, wpc>> /\ Quiet
    BY <1>6, QuietSays DEF Still, Locks
  <2> QED
    BY <1>5, <2>1, QuietSenders
<1>7. ASSUME NEW up, NEW g, StartStep(up, g)
      PROVE  u # g
  <2>1. cur' = cur /\ g > gen
    BY <1>7 DEF StartStep, Starts
  <2>2. wpc[<<n, u>>][k] = "send"
    BY <1>3, <2>1 DEF InFlight
  <2>3. CASE u = g
    <3>1. <<n, u>>[2] > gen
      BY <2>1, <2>3
    <3> QED
      BY <1>1, <2>2, <3>1, Fresh
  <2> QED
    BY <2>3
<1>8. ASSUME NEW up, StartsAll(up)
      PROVE  FALSE
  <2>1. StartStep(up, 1) /\ cur' = cur /\ gen = 0
    BY <1>8, NewVersion DEF StartStep, StartsAll, Starts
  <2>2. <<n, u>>[2] > gen /\ wpc[<<n, u>>][k] = "send"
    BY <1>3, <2>1, Types DEF InFlight, Versions
  <2> QED
    BY <1>1, <2>2, Fresh
<1>9. ASSUME NEW list, NEW ok, NEW up, Reloads(list, ok, up)
      PROVE  Later(n, u, v, k)'
  <2>1. up \subseteq Names /\ Starts(up, gen + 1)
    BY <1>9 DEF Reloads
  <2>2. StartStep(up, gen + 1) /\ UNCHANGED <<queue, cur>>
    BY <1>9, <2>1, NewVersion DEF StartStep, Starts
  <2>3. CASE n \in up /\ v = gen + 1
    <3>1. <<n, v>>[2] > gen
      BY <2>2, <2>3 DEF StartStep
    <3>2. queue[<<n, v>>][k] = <<>>
      BY <1>1, <3>1, Fresh
    <3>3. wpc'[<<n, v>>][k] = "idle"
      BY <2>1, <2>3 DEF Starts
    <3> QED
      BY <2>2, <3>2, <3>3
  <2>4. CASE ~(n \in up /\ v = gen + 1)
    <3>1. wpc'[<<n, v>>][k] = wpc[<<n, v>>][k]
      BY <2>1, <2>4 DEF Starts
    <3>2. Plain(n) /\ CanSend(n, v, k)
      BY <1>9, <2>4, ReloadSenders
    <3> QED
      BY <1>5, <2>2, <3>1, <3>2
  <2> QED
    BY <2>3, <2>4
<1>10. ASSUME NEW l \in Kinds, Dispatches(l)
       PROVE  Later(n, u, v, k)'
  <2>1. UNCHANGED <<cur, wpc>> /\ Quiet
    BY <1>10, QuietSays DEF Dispatches
  <2>2. Plain(n) /\ CanSend(n, v, k)
    BY <2>1, QuietSenders
  <2>3. CASE queue'[<<n, v>>][k] = queue[<<n, v>>][k]
    BY <1>5, <2>1, <2>2, <2>3
  <2>4. CASE queue'[<<n, v>>][k] # queue[<<n, v>>][k]
    <3>1. PICK w : Enqueues(l, w)
      BY <1>10, <2>4 DEF Dispatches, Takes, Skips, Finds, Quits
    <3>2. w = <<n, v>> /\ l = k
      BY <1>1, <2>4, <3>1 DEF Enqueues
    <3> DEFINE q == queue[<<n, v>>][k]
               p == queue'[<<n, v>>][k]
               m == cur[<<n, u>>][k].no
    <3>3. p = Append(q, next[k]) /\ q \in Seq(Nat)
      BY <1>1, <3>1, <3>2, Types DEF Enqueues
    <3>4. m < next[k]
      BY <1>1 DEF QueueInv
    <3>5. Later(n, u, v, k)
      BY <1>4, <2>1, <2>2 DEF InFlight
    <3>6. \A j \in DOMAIN q : m < q[j]
      BY <3>5
    <3>7. next[k] \in Nat /\ m \in Nat
      BY <1>1, Types
    <3> HIDE DEF q, p, m
    <3>8. \A j \in DOMAIN p : m < p[j]
      <4>1. \A j \in DOMAIN p : (j \in DOMAIN q /\ p[j] = q[j]) \/ p[j] = next[k]
        BY <3>3, <3>7
      <4> QED
        BY <3>4, <3>6, <4>1
    <3> QED
      BY <2>1, <3>5, <3>8 DEF p, m
  <2> QED
    BY <2>3, <2>4
<1>11. ASSUME NEW w \in Workers, NEW l \in Kinds, Works(w, l)
       PROVE  Later(n, u, v, k)'
  <2>1. Quiet /\ UNCHANGED <<running, chanOf>>
    BY <1>11, QuietSays DEF Works
  <2>2. Plain(n) /\ CanSend(n, v, k)
    BY <2>1, QuietSenders
  <2>3. cur'[<<n, u>>][k] = cur[<<n, u>>][k]
    <3>1. cur'[<<n, u>>][k].posting /\ ~Runs(<<n, u>>)
      BY <2>1 DEF InFlight, Runs
    <3>2. CASE <<n, u>> # w \/ k # l
      BY <1>1, <1>11, <3>2 DEF Works
    <3>3. CASE <<n, u>> = w /\ k = l
      BY <1>11, <3>1, <3>3
         DEF Works, Receives, Leaves, Sends, Begins, Again, GoesOn, Finishes, NoChunk
    <3> QED
      BY <3>2, <3>3
  <2>4. Later(n, u, v, k)
    BY <1>4, <2>2, <2>3 DEF InFlight
  <2>5. CASE <<n, v>> # w \/ k # l
    BY <1>1, <1>5, <1>11, <2>2, <2>3, <2>5 DEF Works
  <2>6. CASE <<n, v>> = w /\ k = l
    <3> DEFINE m == cur[<<n, u>>][k].no
    <3>1. /\ \A j \in DOMAIN queue[w][k] : m < queue[w][k][j]
          /\ wpc[w][k] = "send" => m < cur[w][k].no
      BY <2>4, <2>6
    <3> HIDE DEF m
    <3>2. SUFFICES /\ \A j \in DOMAIN queue'[w][k] : m < queue'[w][k][j]
                   /\ wpc'[w][k] = "send" => m < cur'[w][k].no
      BY <2>3, <2>6 DEF m
    <3>3. CASE Receives(w, k)
      <4>1. /\ queue[w][k] # <<>> /\ cur'[w][k].no = Head(queue[w][k])
            /\ queue'[w][k] = Tail(queue[w][k]) /\ queue[w][k] \in Seq(Nat)
        BY <3>3, Types DEF Receives
      <4>2. /\ DOMAIN queue'[w][k] = 1 .. Len(queue[w][k]) - 1
            /\ \A j \in DOMAIN queue'[w][k] : queue'[w][k][j] = queue[w][k][j + 1]
            /\ DOMAIN queue[w][k] = 1 .. Len(queue[w][k]) /\ Len(queue[w][k]) >= 1
            /\ Len(queue[w][k]) \in Nat /\ cur'[w][k].no = queue[w][k][1]
        BY <4>1
      <4>3. 1 \in DOMAIN queue[w][k]
            /\ \A j \in DOMAIN queue'[w][k] : j + 1 \in DOMAIN queue[w][k]
        BY <4>2
      <4> QED
        BY <3>1, <4>2, <4>3
    <3>4. CASE Leaves(w, k)
      BY <3>1, <3>4 DEF Leaves
    <3>5. CASE Sends(w, k)
      <4>1. queue'[w][k] = queue[w][k] /\ wpc[w][k] = "send"
        BY <3>5 DEF Sends
      <4>2. wpc'[w][k] = "send" => cur'[w][k].no = cur[w][k].no
        BY <3>5 DEF Sends, Begins, Again, GoesOn, Finishes
      <4> QED
        BY <3>1, <4>1, <4>2
    <3> QED
      BY <1>11, <2>6, <3>3, <3>4, <3>5 DEF Works
  <2> QED
    BY <2>5, <2>6
<1> QED
  BY <1>6, <1>8, <1>9, <1>10, <1>11 DEF Step

\* A step keeps it from the channel that another instance is started, but with the newest.
LEMMA KeepsOwn ==
  ASSUME TypeOK, FreshInv, Step, NEW n \in Names, OwnInstance(n)'
  PROVE  OwnInstance(n)
<1>1. CASE Quiet
  BY <1>1 DEF Quiet, OwnInstance
<1>2. ASSUME NEW up, NEW v, StartStep(up, v)
      PROVE  OwnInstance(n)
  <2>1. v \in Versions /\ v > gen /\ <<n, v>> \in Workers
    BY <1>2, Types DEF StartStep
  <2>2. chanOf[<<n, v>>] = None
    BY <2>1, Types DEF FreshInv
  <2>3. \A x \in Versions : x # v => chanOf'[<<n, x>>] = chanOf[<<n, x>>]
    BY <1>2 DEF StartStep, Starts
  <2> QED
    BY <2>2, <2>3 DEF OwnInstance
<1> QED
  BY <1>1, <1>2, StepSays, QuietSays

LEMMA KeepsLate ==
  ASSUME TypeOK, FreshInv, RestInv, LateInv, Step
  PROVE  LateInv'
<1> USE DEF maps, work, dispatch, history
<1> DEFINE Spent(n, k, v) == v <= gen /\ ~Runs(<<n, v>>) /\ ~cur[<<n, v>>][k].posting
<1> SUFFICES ASSUME NEW n \in Names, NEW k \in Kinds, NEW v \in Versions, OwnInstance(n)',
                    NEW i \in DOMAIN delivered'[n][k], delivered'[n][k][i].late = v
             PROVE  Spent(n, k, v)'
  BY DEF LateInv
<1>1. OwnInstance(n) /\ <<n, v>> \in Workers /\ <<n, v>>[1] = n /\ <<n, v>>[2] = v /\ v # None
  BY KeepsOwn, Types
<1>2. delivered'[n][k] = delivered[n][k] => Spent(n, k, v)
  BY <1>1 DEF LateInv
<1>3. CASE Still \/ Locks \/ \E l \in Kinds : Dispatches(l)
  <2>1. UNCHANGED <<delivered, cur>> /\ Quiet
    BY <1>3, QuietSays DEF Still, Locks, Dispatches
  <2> QED
    BY <1>2, <2>1 DEF Quiet, Runs
<1>4. ASSUME NEW up, NEW g, StartStep(up, g)
      PROVE  /\ Spent(n, k, v) /\ cur' = cur /\ v # g /\ gen <= g /\ gen' = g
             /\ chanOf'[<<n, v>>] = chanOf[<<n, v>>]
  <2>1. UNCHANGED <<delivered, cur>> /\ g > gen /\ gen' = g /\ g \in Nat /\ gen \in Nat
    BY <1>4, Types DEF StartStep, Starts
  <2>2. Spent(n, k, v)
    BY <1>2, <2>1
  <2>3. v # g /\ gen <= g
    BY <2>1, <2>2, Types
  <2>4. chanOf'[<<n, v>>] = chanOf[<<n, v>>]
    BY <1>4, <2>3 DEF StartStep, Starts
  <2> QED
    BY <2>1, <2>2, <2>3, <2>4
<1>5. ASSUME NEW up, StartsAll(up)
      PROVE  Spent(n, k, v)'
  <2>1. StartStep(up, 1) /\ gen = 0
    BY <1>5, NewVersion DEF StartStep, StartsAll
  <2>2. v <= 0 /\ v \in Nat
    BY <1>4, <2>1, Types
  <2> QED
    BY <1>1, <2>2, Types
<1>6. ASSUME NEW list, NEW ok, NEW up, Reloads(list, ok, up)
      PROVE  Spent(n, k, v)'
  <2>1. up \subseteq Names /\ Starts(up, gen + 1)
    BY <1>6 DEF Reloads
  <2>2. StartStep(up, gen + 1)
    BY <1>6, <2>1, NewVersion DEF StartStep
  <2>3. /\ Spent(n, k, v) /\ cur' = cur /\ v # gen + 1 /\ gen <= gen + 1 /\ gen' = gen + 1
        /\ chanOf'[<<n, v>>] = chanOf[<<n, v>>] /\ v <= gen'
    <3>1. /\ Spent(n, k, v) /\ cur' = cur /\ v # gen + 1 /\ gen <= gen + 1 /\ gen' = gen + 1
          /\ chanOf'[<<n, v>>] = chanOf[<<n, v>>]
      BY <1>4, <2>2
    <3> QED
      BY <3>1, Types
  <2>4. chanOf[<<n, v>>] \in {None, v} /\ chanOf[<<n, v>>] \in VersionOrNone
    BY <1>1 DEF OwnInstance, TypeOK
  <2>5. ~Runs(<<n, v>>)'
    <3>1. ASSUME <<n, chanOf[<<n, v>>]>> \in running'
          PROVE  FALSE
      <4>1. n \in up /\ chanOf[<<n, v>>] = channels'[n]
        BY <1>1, <2>3, <2>4, <3>1, <1>6 DEF Reloads, Runs
      <4>2. channels'[n] # None /\ chanOf'[<<n, gen + 1>>] = channels'[n]
        BY <1>6, <4>1 DEF Reloads
      <4>3. chanOf'[<<n, gen + 1>>] \in {None, gen + 1}
        BY <2>2 DEF OwnInstance, StartStep
      <4> QED
        BY <2>3, <2>4, <4>1, <4>2, <4>3
    <3> QED
      BY <1>1, <2>3, <3>1 DEF Runs
  <2> QED
    BY <2>3, <2>5
<1>7. ASSUME NEW w \in Workers, NEW l \in Kinds, Works(w, l)
      PROVE  Spent(n, k, v)'
  <2>1. UNCHANGED <<gen, running, chanOf>>
    BY <1>7 DEF Works
  <2>2. ASSUME Spent(n, k, v)
        PROVE  Spent(n, k, v)'
    <3>1. CASE <<n, v>> # w \/ k # l
      BY <1>1, <1>7, <2>1, <2>2, <3>1 DEF Works, Runs
    <3>2. CASE <<n, v>> = w /\ k = l
      <4>1. ~cur'[w][k].posting
        BY <1>7, <2>2, <3>2
           DEF Works, Receives, Leaves, Sends, Begins, Again, GoesOn, Finishes, NoChunk
      <4> QED
        BY <2>1, <2>2, <3>2, <4>1 DEF Runs
    <3> QED
      BY <3>1, <3>2
  <2>3. CASE delivered'[n][k] = delivered[n][k]
    BY <1>2, <2>2, <2>3
  <2>4. CASE delivered'[n][k] # delivered[n][k]
    <3> DEFINE d == delivered[n][k]
               c == Posted(w, k)
    <3>1. /\ w[1] = n /\ l = k /\ wpc[w][k] = "send" /\ delivered'[n][k] = Append(d, c)
          /\ Again(w, k) \/ GoesOn(w, k) \/ Finishes(w, k)
      BY <1>7, <2>4 DEF Works, Receives, Leaves, Sends, Begins, Delivers
    <3>2. w[2] \in Versions /\ w = <<n, w[2]>>
      BY <3>1, Types
    <3>3. (i \in DOMAIN d /\ delivered'[n][k][i] = d[i]) \/ delivered'[n][k][i] = c
      <4>1. d \in Seq(ShownChunk)
        BY DEF TypeOK
      <4> HIDE DEF d, c
      <4> QED
        BY <3>1, <4>1
    <3>4. CASE i \in DOMAIN d /\ delivered'[n][k][i] = d[i]
      <4>1. Spent(n, k, v)
        BY <1>1, <3>4 DEF LateInv
      <4> QED
        BY <2>2, <4>1
    <3>5. CASE delivered'[n][k][i] = c
      <4>1. ~Runs(w) /\ v = w[2]
        BY <1>1, <3>5 DEF Posted
      <4>2. w = <<n, v>>
        BY <3>2, <4>1
      <4>3. v <= gen
        <5>1. ~(w[2] > gen)
          BY <3>1, Fresh
        <5> QED
          BY <4>1, <5>1, Types
      <4>4. ~cur'[w][k].posting
        BY <3>1 DEF Again, GoesOn, Finishes, NoChunk
      <4> QED
        BY <2>1, <4>1, <4>2, <4>3, <4>4 DEF Runs
    <3> QED
      BY <3>3, <3>4, <3>5
  <2> QED
    BY <2>3, <2>4
<1> QED
  BY <1>3, <1>5, <1>6, <1>7 DEF Step

LEMMA KeepsStranded ==
  ASSUME TypeOK, FreshInv, RestInv, DispatchInv, OpenInv, QueueInv, NothingStranded, Step
  PROVE  NothingStranded'
<1> USE DEF maps, work, dispatch, history
<1> DEFINE Has(w, k, m) == /\ Alive(w, k)
                           /\ cur[w][k].no = m \/ \E i \in DOMAIN queue[w][k] : queue[w][k][i] = m
           Safe(k, m) == <<k, m>> \in ended \/ \E w \in Workers : Has(w, k, m)
<1>1. ~stopped => \A k \in Kinds : \A m \in 1 .. next[k] - 1 : Safe(k, m)
  BY DEF NothingStranded, Alive
<1> SUFFICES ASSUME ~stopped', NEW k \in Kinds, NEW m \in 1 .. next'[k] - 1
             PROVE  Safe(k, m)'
  BY DEF NothingStranded, Alive
<1>2. ~stopped
  BY StepSays DEF Still, Locks, StartStep, Starts, Dispatches, Works
<1>3. next[k] \in Nat /\ m \in Nat /\ m >= 1
  <2>1. next[k] \in Nat /\ (next'[k] = next[k] \/ next'[k] = next[k] + 1)
    <3>1. next[k] \in Nat
      BY Types
    <3>2. ASSUME NEW l \in Kinds, Dispatches(l)
          PROVE  next'[k] = next[k] \/ next'[k] = next[k] + 1
      <4>1. CASE l # k
        BY <3>2, <4>1 DEF Dispatches
      <4>2. CASE l = k
        BY <3>2, <4>2 DEF Dispatches, Takes, Skips, Finds, Enqueues, Quits
      <4> QED
        BY <4>1, <4>2
    <3> QED
      BY <3>1, <3>2, StepSays DEF Still, Locks, StartStep, Starts, Works
  <2> QED
    BY <2>1
<1>4. ASSUME next'[k] = next[k], ended \subseteq ended',
             \A w \in Workers : Has(w, k, m) => Has(w, k, m)'
      PROVE  Safe(k, m)'
  BY <1>1, <1>2, <1>4
<1>5. CASE Still \/ Locks
  <2>1. UNCHANGED <<next, ended, wpc, cur, queue>>
    BY <1>5 DEF Still, Locks
  <2> QED
    BY <1>4, <2>1 DEF Alive
<1>6. ASSUME NEW up, NEW v, StartStep(up, v)
      PROVE  Safe(k, m)'
  <2>1. UNCHANGED <<next, ended, cur, queue>>
    BY <1>6 DEF StartStep, Starts
  <2>2. ASSUME NEW w \in Workers
        PROVE  Alive(w, k) => Alive(w, k)'
    <3>1. w[1] \in Names /\ w[2] \in Versions /\ w = <<w[1], w[2]>>
      BY Types
    <3>2. CASE w[1] \in up /\ w[2] = v
      BY <1>6, <3>1, <3>2 DEF StartStep, Starts, Alive
    <3>3. CASE ~(w[1] \in up /\ w[2] = v)
      BY <1>6, <3>1, <3>3 DEF StartStep, Starts, Alive
    <3> QED
      BY <3>2, <3>3
  <2> QED
    BY <1>4, <2>1, <2>2
<1>7. ASSUME NEW l \in Kinds, Dispatches(l)
      PROVE  Safe(k, m)'
  <2>1. UNCHANGED <<wpc, cur>> /\ ended \subseteq ended'
    BY <1>7 DEF Dispatches, Takes, Skips, Finds, Enqueues, Quits
  <2>2. ASSUME NEW w \in Workers, Has(w, k, m)
        PROVE  Has(w, k, m)'
    <3>1. CASE queue'[w][k] = queue[w][k]
      BY <2>1, <2>2, <3>1 DEF Alive
    <3>2. CASE queue'[w][k] # queue[w][k]
      <4>1. PICK u : Enqueues(l, u)
        BY <1>7, <3>2 DEF Dispatches, Takes, Skips, Finds, Quits
      <4>2. queue'[w][k] = Append(queue[w][k], next[k]) /\ queue[w][k] \in Seq(Nat)
        BY <3>2, <4>1, Types DEF Enqueues
      <4>3. \A i \in DOMAIN queue[w][k] : i \in DOMAIN queue'[w][k] /\ queue'[w][k][i] = queue[w][k][i]
        BY <1>3, <4>2
      <4> QED
        BY <2>1, <2>2, <4>3 DEF Alive
    <3> QED
      BY <3>1, <3>2
  <2>3. CASE next'[k] = next[k]
    BY <1>4, <2>1, <2>2, <2>3
  <2>4. CASE next'[k] # next[k]
    <3>1. l = k /\ next'[k] = next[k] + 1
      BY <1>7, <2>4 DEF Dispatches, Takes, Skips, Finds, Enqueues, Quits
    <3>2. CASE m # next[k]
      <4>1. m \in 1 .. next[k] - 1
        BY <1>3, <3>1, <3>2
      <4> QED
        BY <1>1, <1>2, <2>1, <2>2, <4>1
    <3>3. CASE m = next[k] /\ Skips(k)
      BY <3>3 DEF Skips
    <3>4. ASSUME m = next[k], NEW w, Enqueues(k, w)
          PROVE  Safe(k, m)'
      <4>1. /\ w \in Workers /\ <<w, k>> \notin closed /\ wpc[w][k] # "none"
            /\ queue'[w][k] = Append(queue[w][k], next[k])
        BY <3>4 DEF Enqueues, DispatchInv
      <4>2. wpc[w][k] # "gone"
        BY <1>2, <4>1 DEF OpenInv
      <4>3. wpc[w][k] \in {"none", "idle", "send", "gone"} /\ queue[w][k] \in Seq(Nat)
        BY <4>1, Types
      <4>4. Alive(w, k)'
        BY <2>1, <4>1, <4>2, <4>3 DEF Alive
      <4>5. \E i \in DOMAIN queue'[w][k] : queue'[w][k][i] = m
        <5>1. /\ Len(queue[w][k]) + 1 \in DOMAIN queue'[w][k]
              /\ queue'[w][k][Len(queue[w][k]) + 1] = m
          BY <1>3, <3>4, <4>1, <4>3
        <5> QED
          BY <5>1
      <4> QED
        BY <4>1, <4>4, <4>5
    <3> QED
      BY <1>7, <2>4, <3>1, <3>2, <3>3, <3>4 DEF Dispatches, Takes, Finds, Quits
  <2> QED
    BY <2>3, <2>4
<1>8. ASSUME NEW u \in Workers, NEW l \in Kinds, Works(u, l)
      PROVE  Safe(k, m)'
  <2>1. next' = next /\ ended \subseteq ended'
    BY <1>8 DEF Works, Receives, Leaves, Sends, Begins, Again, GoesOn, Finishes
  <2>2. CASE l # k
    <3>1. \A w \in Workers : Has(w, k, m) => Has(w, k, m)'
      BY <1>8, <2>2 DEF Works, Alive
    <3> QED
      BY <1>4, <2>1, <3>1
  <2>3. CASE l = k
    <3>1. ASSUME NEW w \in Workers, Has(w, k, m), w # u
          PROVE  Has(w, k, m)'
      BY <1>8, <3>1 DEF Works, Alive
    <3>2. ASSUME Has(u, k, m)
          PROVE  Has(u, k, m)' \/ <<k, m>> \in ended'
      <4>1. CASE Receives(u, k)
        <5>1. /\ wpc'[u][k] = "send" /\ cur'[u][k].no = Head(queue[u][k]) /\ wpc[u][k] = "idle"
              /\ queue'[u][k] = Tail(queue[u][k]) /\ queue[u][k] \in Seq(Nat) /\ queue[u][k] # <<>>
          BY <4>1, Types DEF Receives
        <5>2. cur[u][k].no = 0
          BY <5>1 DEF RestInv, NoChunk
        <5>3. PICK i \in DOMAIN queue[u][k] : queue[u][k][i] = m
          BY <1>3, <3>2, <5>2
        <5>4. Alive(u, k)'
          BY <5>1 DEF Alive
        <5>5. CASE i = 1
          BY <5>1, <5>3, <5>4, <5>5
        <5>6. CASE i # 1
          <6>1. i - 1 \in DOMAIN queue'[u][k] /\ queue'[u][k][i - 1] = m
            <7> DEFINE q == queue[u][k]
            <7>1. q \in Seq(Nat) /\ q # <<>> /\ i \in DOMAIN q /\ q[i] = m /\ queue'[u][k] = Tail(q)
              BY <5>1, <5>3
            <7> HIDE DEF q
            <7>2. i \in 2 .. Len(q) /\ Len(q) \in Nat
              BY <5>6, <7>1
            <7> QED
              BY <7>1, <7>2
          <6> QED
            BY <5>4, <6>1
        <5> QED
          BY <5>5, <5>6
      <4>2. CASE Leaves(u, k)
        <5>1. wpc[u][k] = "idle" /\ queue[u][k] = <<>>
          BY <1>2, <4>2 DEF Leaves, SeesClose, OpenInv
        <5>2. cur[u][k].no = 0
          BY <5>1 DEF RestInv, NoChunk
        <5> QED
          BY <1>3, <3>2, <5>1, <5>2
      <4>3. CASE Sends(u, k)
        BY <3>2, <4>3 DEF Sends, Begins, Again, GoesOn, Finishes, Alive, RestInv
      <4> QED
        BY <1>8, <2>3, <4>1, <4>2, <4>3 DEF Works
    <3>3. Safe(k, m)
      BY <1>1, <1>2, <2>1
    <3> QED
      BY <2>1, <3>1, <3>2, <3>3
  <2> QED
    BY <2>2, <2>3
<1> QED
  BY <1>5, <1>6, <1>7, <1>8, StepSays

LEMMA KeepsOrder ==
  ASSUME TypeOK, FreshInv, RestInv, RunInv, AheadInv, LateInv, InOrder, Step
  PROVE  InOrder'
<1> USE DEF maps, work, dispatch, history
<1> DEFINE Ordered(a, b) == IF b.late = None THEN Before(a, b) ELSE a.late # b.late
           Sorted(n, k) == \A i, j \in DOMAIN delivered[n][k] : i < j =>
                              Ordered(delivered[n][k][i], delivered[n][k][j])
<1>1. \A n \in Names, k \in Kinds : Plain(n) => Sorted(n, k)
  BY DEF InOrder, Plain
<1> SUFFICES ASSUME NEW n \in Names, NEW k \in Kinds, Plain(n)'
             PROVE  Sorted(n, k)'
  BY DEF InOrder, Plain, Before
<1>2. Plain(n)
  <2>1. OwnInstance(n)
    BY KeepsOwn DEF Plain
  <2>2. hidden \subseteq hidden'
    BY StepSays, QuietSays DEF Quiet, StartStep, Starts
  <2> QED
    BY <2>1, <2>2 DEF Plain
<1>3. CASE delivered'[n][k] = delivered[n][k]
  BY <1>1, <1>2, <1>3 DEF Before
<1>4. CASE delivered'[n][k] # delivered[n][k]
  <2>1. PICK w \in Workers, l \in Kinds : Works(w, l)
    BY SMTT(20), <1>4, StepSays DEF Still, Locks, StartStep, Starts, Dispatches
  <2> DEFINE d == delivered[n][k]
             c == Posted(w, k)
             p == delivered'[n][k]
  <2>2. /\ w[1] = n /\ l = k /\ wpc[w][k] = "send" /\ cur[w][k].posting
        /\ p = Append(d, c)
    BY <1>4, <2>1 DEF Works, Receives, Leaves, Sends, Begins, Again, Delivers
  <2>3. w[2] \in Versions /\ w = <<n, w[2]>> /\ w[2] # None
    BY <2>2, Types
  <2>5. \A i \in DOMAIN d : Ordered(d[i], c)
    <3>1. CASE Runs(w)
      <4>1. CanSend(n, w[2], k)
        BY <2>2, <2>3, <3>1 DEF CanSend, Alive, Runs
      <4>2. \A i \in DOMAIN d : Before(d[i], cur[w][k])
        BY <1>2, <2>2, <2>3, <4>1 DEF AheadInv
      <4>3. /\ c.no = cur[w][k].no /\ c.chunk = cur[w][k].chunk
            /\ c.tries = cur[w][k].tries /\ c.late = None
        BY <3>1 DEF Posted
      <4> QED
        BY <4>2, <4>3 DEF Before
    <3>2. CASE ~Runs(w)
      <4>1. c.late = w[2]
        BY <3>2 DEF Posted
      <4>2. \A i \in DOMAIN d : d[i].late # w[2]
        BY <1>2, <2>2, <2>3 DEF LateInv, Plain
      <4> QED
        BY <2>3, <4>1, <4>2
    <3> QED
      BY <3>1, <3>2
  <2>6. \A i, j \in DOMAIN d : i < j => Ordered(d[i], d[j])
    BY <1>1, <1>2
  <2>7. d \in Seq(ShownChunk) /\ p = Append(d, c)
    BY <2>2, Types DEF TypeOK
  <2> HIDE DEF d, c, p, Ordered
  <2>8. \A i, j \in DOMAIN p : i < j => Ordered(p[i], p[j])
    <3>1. /\ DOMAIN p = 1 .. Len(d) + 1 /\ Len(d) \in Nat /\ DOMAIN d = 1 .. Len(d)
          /\ p[Len(d) + 1] = c /\ \A i \in DOMAIN d : p[i] = d[i]
      BY <2>7
    <3>2. \A i, j \in DOMAIN p : i < j => i \in DOMAIN d /\ (j \in DOMAIN d \/ j = Len(d) + 1)
      BY <3>1
    <3> QED
      BY <2>5, <2>6, <3>1, <3>2
  <2> QED
    BY <2>8 DEF p, Ordered, Before
<1> QED
  BY <1>3, <1>4

-----------------------------------------------------------------------------
(* The types.                                                              *)

MapsOK ==
    /\ alive \in BOOLEAN /\ stopped \in BOOLEAN
    /\ channels \in [Names -> VersionOrNone]
    /\ workers \in [Names -> VersionOrNone]
    /\ hashes \in [Names -> VersionOrNone]
    /\ running \subseteq Workers /\ chanOf \in [Workers -> VersionOrNone]
    /\ gen \in VersionOrNone /\ task \in VersionOrNone /\ canceled \subseteq Versions
    /\ closed \subseteq Workers \X Kinds
LockOK ==
    /\ mu \in VersionOrNone \cup {Stopping} /\ phase \in {"none", "text", "media"}
    /\ (mu = Free) = (phase = "none") /\ busy \in Names \cup {Nobody}
    /\ unreg \in [Versions -> SUBSET Names] /\ rereg \in [Versions -> SUBSET Names]
    /\ hidden \subseteq Names
WorkOK ==
    /\ queue \in [Workers -> [Kinds -> Seq(Nat)]]
    /\ wpc \in [Workers -> [Kinds -> {"none", "idle", "send", "gone"}]]
    /\ cur \in [Workers -> [Kinds -> Chunk]]
    /\ delivered \in [Names -> [Kinds -> Seq(ShownChunk)]]
    /\ ended \subseteq Kinds \X Nat
DispatchOK ==
    /\ dpc \in [Kinds -> {"none", "idle", "taken", "send", "gone"}]
    /\ target \in [Kinds -> VersionOrNone]
    /\ next \in [Kinds -> Nat \ {0}]
    /\ \A k \in Kinds : next[k] <= Len(Outbox[k]) + 1
BoundsOK ==
    \A w \in Workers, k \in Kinds :
       /\ Len(queue[w][k]) <= QueueSize
       /\ cur[w][k].no <= Len(Outbox[k]) /\ cur[w][k].chunk <= Chunks[k]

LEMMA TypeParts ==
  TypeOK <=> MapsOK /\ LockOK /\ WorkOK /\ DispatchOK /\ BoundsOK
BY DEF TypeOK, MapsOK, LockOK, WorkOK, DispatchOK, BoundsOK

\* The steps, apart from those of the lock and those that start workers.
Rest == (\E k \in Kinds : DispatchStep(k)) \/ (\E w \in Workers, k \in Kinds : WorkerStep(w, k))

LEMMA RestSays ==
  ASSUME UNCHANGED vars \/ Rest \/ Dies
  PROVE  /\ UNCHANGED <<maps, canceled, closed, lock, stopped, hidden>>
         /\ alive' = alive \/ alive' = FALSE
<1> USE DEF maps, lock, work, dispatch, history
<1>1. CASE UNCHANGED vars \/ Dies
  BY <1>1 DEF vars, Dies
<1>2. ASSUME NEW k \in Kinds, DispatchStep(k), ~Dies
      PROVE  UNCHANGED <<alive, maps, canceled, closed, lock, stopped, hidden>>
  <2>1. CASE Take(k) \/ Quit(k)
    BY <2>1 DEF Take, Quit
  <2>2. CASE Lookup(k)
    BY <2>2 DEF Lookup
  <2>3. CASE Enqueue(k)
    BY <1>2, <2>3 DEF Enqueue
  <2> QED
    BY <1>2, <2>1, <2>2, <2>3 DEF DispatchStep
<1>3. ASSUME NEW w \in Workers, NEW k \in Kinds, WorkerStep(w, k)
      PROVE  UNCHANGED <<alive, maps, canceled, closed, lock, stopped, hidden>>
  BY <1>3 DEF WorkerStep, Receive, WorkerEnd, Send, Deliver, FailForGood, FailForNow, Retry, NextChunk
<1> QED
  BY <1>1, <1>2, <1>3 DEF Rest

LEMMA KeepsMaps ==
  ASSUME TypeOK, FreshInv, LockInv, [Next]_vars
  PROVE  MapsOK'
<1> USE DEF maps, lock, work, dispatch, history
<1> USE TypeParts
<1>1. MapsOK
  OBVIOUS
<1>2. None \in VersionOrNone /\ Versions \subseteq VersionOrNone
  BY DEF VersionOrNone
<1>3. ASSUME UNCHANGED <<maps, canceled, closed, stopped>>, alive' \in BOOLEAN
      PROVE  MapsOK'
  BY <1>1, <1>3 DEF MapsOK
<1>4. CASE UNCHANGED vars \/ Rest \/ Dies
  <2>1. UNCHANGED <<maps, canceled, closed, stopped>> /\ (alive' = alive \/ alive' = FALSE)
    BY <1>4, RestSays
  <2> QED
    BY <1>1, <1>3, <2>1 DEF MapsOK
<1>5. CASE StartAll /\ ~Dies
  <2>1. PICK up \in SUBSET {n \in Names : channels[n] # None} :
           /\ gen' = 1 /\ task' = 1
           /\ running' = {<<n, 1>> : n \in up}
           /\ workers' = [n \in Names |-> IF n \in up THEN 1 ELSE None]
           /\ chanOf' = [w \in Workers |-> IF w \in running' THEN 1 ELSE None]
           /\ UNCHANGED <<alive, channels, hashes, canceled, closed, stopped>>
    BY <1>5 DEF StartAll
  <2>2. 1 \in Versions
    BY ManagerAssumption DEF Versions
  <2>3. running' \subseteq Workers
    BY <2>1, <2>2 DEF Workers
  <2> QED
    BY <1>1, <1>2, <2>1, <2>2, <2>3 DEF MapsOK
<1>6. CASE StopAll
  <2>1. task \in Versions
    BY <1>6, Types DEF StopAll, FreshInv, MapsOK, VersionOrNone
  <2>2. \A n \in Registered : WorkerOf(n) \in Workers
    BY Types
  <2> QED
    BY <1>1, <1>2, <1>6, <2>1, <2>2 DEF StopAll, MapsOK, Kinds
<1>7. CASE StopMedia \/ StopEnd
  <2>1. \A n \in Registered : WorkerOf(n) \in Workers
    BY Types
  <2> QED
    BY <1>1, <1>7, <2>1 DEF StopMedia, StopEnd, MapsOK, Kinds
<1>8. ASSUME NEW list \in [Names -> VersionOrNone],
             NEW ok \in SUBSET Added(list), NEW up \in SUBSET Added(list),
             ReloadTo(list, ok, up), gen \in 1 .. MaxReloads, ~Dies
      PROVE  MapsOK'
  <2> DEFINE v == gen + 1
             chan == [n \in Names |-> IF n \in ok THEN v ELSE channels[n]]
  <2>1. /\ channels' = chan /\ gen' = v /\ task' = v /\ hashes' = list /\ canceled' = canceled
        /\ running' = (running \ {<<n, channels[n]>> : n \in Removed(list)})
                      \cup {<<n, chan[n]>> : n \in up}
        /\ workers' = [n \in Names |-> IF n \in up THEN v ELSE workers[n]]
        /\ chanOf' = [w \in Workers |->
                        IF w[1] \in up /\ w[2] = v THEN chan[w[1]] ELSE chanOf[w]]
        /\ \A n \in Added(list) : chan[n] # None
        /\ UNCHANGED <<alive, closed, stopped>>
    BY <1>8 DEF ReloadTo, ReloadCancels
  <2>2. v \in Versions
    BY <1>8, ManagerAssumption DEF Versions
  <2> HIDE DEF v
  <2>3. chan \in [Names -> VersionOrNone]
    BY <1>1, <1>2, <2>2 DEF MapsOK
  <2>4. up \subseteq Names /\ \A n \in up : chan[n] # None
    BY <2>1 DEF Added
  <2> HIDE DEF chan
  <2>5. \A n \in up : <<n, chan[n]>> \in Workers
    BY <2>3, <2>4 DEF VersionOrNone, Workers
  <2>6. running' \subseteq Workers
    BY <1>1, <2>1, <2>5 DEF MapsOK
  <2>7. chanOf' \in [Workers -> VersionOrNone]
    BY <1>1, <2>1, <2>3, <2>4 DEF MapsOK, Workers
  <2>8. workers' \in [Names -> VersionOrNone]
    BY <1>1, <1>2, <2>1, <2>2 DEF MapsOK
  <2> QED
    BY <1>1, <1>2, <2>1, <2>2, <2>3, <2>6, <2>7, <2>8 DEF MapsOK
<1>9. ASSUME NEW v \in Versions, Unregister(v) \/ UnregisterMedia(v) \/ UnregisterEnd(v) \/ Register(v)
      PROVE  MapsOK'
  <2>1. \A n \in Registered : WorkerOf(n) \in Workers
    BY Types
  <2>2. CASE Unregister(v)
    <3>1. channels' = channels \/ \E n \in Names : channels' = [channels EXCEPT ![n] = None]
      BY <2>2 DEF Unregister, LockOK
    <3>2. closed' \subseteq Workers \X Kinds
      BY <1>1, <2>1, <2>2 DEF Unregister, MapsOK, Registered, LockOK, Kinds
    <3>3. UNCHANGED <<alive, workers, hashes, running, chanOf, gen, task, canceled, stopped>>
      BY <2>2 DEF Unregister
    <3> QED
      BY <1>1, <1>2, <3>1, <3>2, <3>3 DEF MapsOK
  <2>3. CASE UnregisterMedia(v)
    <3>1. WorkerOf(busy) \in Workers
      BY <2>1, <2>3 DEF UnregisterMedia, LockInv, Registered
    <3> QED
      BY <1>1, <2>3, <3>1 DEF UnregisterMedia, MapsOK, Kinds
  <2>4. CASE UnregisterEnd(v)
    BY <1>1, <1>2, <2>4 DEF UnregisterEnd, Unregistered, MapsOK
  <2>5. CASE Register(v)
    <3>1. PICK n \in rereg[v] : channels' = [channels EXCEPT ![n] = chanOf[<<n, v>>]]
      BY <2>5 DEF Register
    <3>2. chanOf[<<n, v>>] \in VersionOrNone
      BY <1>1, Types DEF MapsOK, LockOK
    <3>3. UNCHANGED <<alive, workers, hashes, running, chanOf, gen, task, canceled, closed, stopped>>
      BY <2>5 DEF Register
    <3> QED
      BY <1>1, <3>1, <3>2, <3>3 DEF MapsOK
  <2> QED
    BY <1>9, <2>2, <2>3, <2>4, <2>5
<1> QED
  BY <1>4, <1>5, <1>6, <1>7, <1>8, <1>9 DEF Next, Rest, Reload, LockStep

LEMMA KeepsLockTypes ==
  ASSUME TypeOK, [Next]_vars
  PROVE  LockOK'
<1> USE DEF maps, lock, work, dispatch, history
<1> USE TypeParts
<1>1. LockOK
  OBVIOUS
<1>2. /\ Free \in VersionOrNone /\ Versions \subseteq VersionOrNone /\ Stopping # Free
      /\ Free \notin Versions /\ Stopping \notin VersionOrNone
  BY ManagerAssumption DEF VersionOrNone, Free, None, Stopping, Versions
<1>3. CASE UNCHANGED vars \/ Rest \/ Dies \/ (StartAll /\ ~Dies)
  <2>1. UNCHANGED <<lock, hidden>>
    BY <1>3, RestSays DEF StartAll
  <2> QED
    BY <1>1, <2>1 DEF LockOK
<1>4. CASE StopAll \/ StopMedia \/ StopEnd
  BY <1>1, <1>2, <1>4 DEF StopAll, StopMedia, StopEnd, LockOK
<1>5. ASSUME NEW list \in [Names -> VersionOrNone],
             NEW ok \in SUBSET Added(list), NEW up \in SUBSET Added(list),
             ReloadTo(list, ok, up), ~Dies
      PROVE  LockOK'
  <2>1. /\ unreg' = [unreg EXCEPT ![gen + 1] = Removed(list)]
        /\ rereg' = [rereg EXCEPT ![gen + 1] = up]
        /\ UNCHANGED <<mu, phase, busy, hidden>>
    BY <1>5 DEF ReloadTo
  <2>2. Removed(list) \subseteq Names /\ up \subseteq Names
    BY DEF Removed, Added
  <2> QED
    BY <1>1, <2>1, <2>2 DEF LockOK
<1>6. ASSUME NEW v \in Versions, Unregister(v)
      PROVE  LockOK'
  <2>1. /\ unreg' = unreg \/ \E S : unreg' = [unreg EXCEPT ![v] = unreg[v] \ S]
        /\ rereg' = rereg \/ rereg' = [rereg EXCEPT ![v] = {}]
    <3>1. unreg' = [unreg EXCEPT ![v] = {}] => unreg' = [unreg EXCEPT ![v] = unreg[v] \ unreg[v]]
      OBVIOUS
    <3> QED
      BY <1>6, <3>1 DEF Unregister
  <2>2. /\ mu = Free /\ hidden' = hidden
        /\ UNCHANGED <<mu, phase, busy>> \/ (mu' = v /\ phase' = "text" /\ busy' \in unreg[v])
    BY <1>6 DEF Unregister
  <2> QED
    BY <1>1, <1>2, <2>1, <2>2 DEF LockOK
<1>7. ASSUME NEW v \in Versions, UnregisterMedia(v) \/ UnregisterEnd(v)
      PROVE  LockOK'
  BY <1>1, <1>2, <1>7 DEF UnregisterMedia, UnregisterEnd, LockOK
<1>8. ASSUME NEW v \in Versions, Register(v)
      PROVE  LockOK'
  BY <1>1, <1>8 DEF Register, LockOK
<1> QED
  BY <1>3, <1>4, <1>5, <1>6, <1>7, <1>8 DEF Next, Rest, Reload, LockStep

LEMMA KeepsWork ==
  ASSUME TypeOK, [Next]_vars
  PROVE  WorkOK'
<1> USE DEF maps, lock, work, dispatch, history
<1> USE TypeParts
<1>1. WorkOK
  OBVIOUS
<1>2. CASE UNCHANGED vars \/ Dies \/ StopAll \/ LockStep
  <2>1. CASE UNCHANGED vars \/ Dies
    BY <1>1, <2>1 DEF vars, Dies, WorkOK
  <2>2. CASE StopAll \/ LockStep
    BY <1>1, <2>2, LocksSays DEF Locks, WorkOK
  <2> QED
    BY <1>2, <2>1, <2>2
<1>3. ASSUME NEW up, NEW v, wpc' = Started(up, v), UNCHANGED <<queue, cur, delivered, ended>>
      PROVE  WorkOK'
  <2>1. wpc' \in [Workers -> [Kinds -> {"none", "idle", "send", "gone"}]]
    BY <1>1, <1>3 DEF Started, WorkOK
  <2> QED
    BY <1>1, <1>3, <2>1 DEF WorkOK
<1>4. CASE StartAll /\ ~Dies
  BY <1>3, <1>4 DEF StartAll
<1>5. CASE Reload /\ ~Dies
  BY <1>3, <1>5 DEF Reload, ReloadTo
<1>6. ASSUME NEW k \in Kinds, DispatchStep(k), ~Dies
      PROVE  WorkOK'
  <2>1. CASE Take(k) \/ Quit(k)
    BY <1>1, <2>1 DEF Take, Quit, WorkOK
  <2>2. CASE Lookup(k)
    <3>1. <<k, next[k]>> \in Kinds \X Nat
      BY Types
    <3> QED
      BY <1>1, <2>2, <3>1 DEF Lookup, WorkOK
  <2>3. CASE Enqueue(k)
    <3> DEFINE w == <<DestOf(k), target[k]>>
    <3>1. queue' = [queue EXCEPT ![w][k] = Append(queue[w][k], next[k])]
          /\ UNCHANGED <<wpc, cur, delivered, ended>>
      BY <1>6, <2>3 DEF Enqueue
    <3> HIDE DEF w
    <3>2. w \in Workers => Append(queue[w][k], next[k]) \in Seq(Nat)
      BY Types
    <3>3. queue' \in [Workers -> [Kinds -> Seq(Nat)]]
      BY <1>1, <3>1, <3>2 DEF WorkOK
    <3> QED
      BY <1>1, <3>1, <3>3 DEF WorkOK
  <2> QED
    BY <1>6, <2>1, <2>2, <2>3 DEF DispatchStep
<1>7. ASSUME NEW w \in Workers, NEW k \in Kinds, WorkerStep(w, k)
      PROVE  WorkOK'
  <2>1. /\ cur[w][k] \in Chunk
        /\ queue[w][k] \in Seq(Nat) /\ MaxRetries \in Nat /\ w[1] \in Names
    BY <1>1, Types, ManagerAssumption DEF WorkOK
  <2>2. NoChunk \in Chunk
    BY <2>1 DEF NoChunk, Chunk
  <2>3. ASSUME NextChunk(w, k)
        PROVE  /\ queue' = queue /\ ended' \subseteq Kinds \X Nat
               /\ wpc' \in [Workers -> [Kinds -> {"none", "idle", "send", "gone"}]]
               /\ cur' \in [Workers -> [Kinds -> Chunk]]
    <3>1. CASE cur[w][k].chunk < Chunks[k]
      <4>1. cur' = [cur EXCEPT ![w][k].chunk = cur[w][k].chunk + 1, ![w][k].tries = 0,
                               ![w][k].posting = FALSE]
            /\ UNCHANGED <<queue, wpc, ended>>
        BY <2>3, <3>1 DEF NextChunk
      <4> DEFINE c == [cur[w][k] EXCEPT !.chunk = cur[w][k].chunk + 1, !.tries = 0,
                                        !.posting = FALSE]
      <4>2. c \in Chunk
        <5>1. cur[w][k].chunk + 1 \in Nat /\ 0 \in 0 .. MaxRetries
          BY <2>1 DEF Chunk
        <5> QED
          BY <2>1, <5>1 DEF Chunk
      <4>3. cur' = [cur EXCEPT ![w][k] = c]
        BY <1>1, <2>1, <4>1 DEF WorkOK
      <4> HIDE DEF c
      <4>4. cur' \in [Workers -> [Kinds -> Chunk]]
        BY <1>1, <4>2, <4>3 DEF WorkOK
      <4>5. UNCHANGED <<queue, wpc, ended>>
        BY <4>1
      <4> QED
        BY <1>1, <4>4, <4>5 DEF WorkOK
    <3>2. CASE ~(cur[w][k].chunk < Chunks[k])
      <4>1. /\ cur' = [cur EXCEPT ![w][k] = NoChunk] /\ wpc' = [wpc EXCEPT ![w][k] = "idle"]
            /\ ended' = ended \cup {<<k, cur[w][k].no>>} /\ queue' = queue
        BY <2>3, <3>2 DEF NextChunk
      <4>2. cur[w][k].no \in Nat
        BY <2>1 DEF Chunk
      <4>3. cur' \in [Workers -> [Kinds -> Chunk]]
        BY <1>1, <2>2, <4>1 DEF WorkOK
      <4>4. queue' = queue /\ ended' \subseteq Kinds \X Nat
        BY <1>1, <4>1, <4>2 DEF WorkOK
      <4>5. wpc' \in [Workers -> [Kinds -> {"none", "idle", "send", "gone"}]]
        BY <1>1, <4>1 DEF WorkOK
      <4> QED
        BY <4>3, <4>4, <4>5
    <3> QED
      BY <3>1, <3>2
  <2>4. CASE Receive(w, k)
    <3>1. /\ wpc' = [wpc EXCEPT ![w][k] = "send"]
          /\ cur' = [cur EXCEPT ![w][k] = [NoChunk EXCEPT !.no = Head(queue[w][k]), !.chunk = 1]]
          /\ queue' = [queue EXCEPT ![w][k] = Tail(queue[w][k])]
          /\ queue[w][k] # <<>> /\ UNCHANGED <<delivered, ended>>
      BY <2>4 DEF Receive
    <3>2. Head(queue[w][k]) \in Nat /\ Tail(queue[w][k]) \in Seq(Nat)
      BY SMTT(20), <2>1, <3>1
    <3> DEFINE h == Head(queue[w][k])
               c == [NoChunk EXCEPT !.no = h, !.chunk = 1]
    <3>3. c \in Chunk
      <4>1. h \in Nat /\ 1 \in Nat
        BY <3>2
      <4> HIDE DEF h
      <4>2. [NoChunk EXCEPT !.no = h] \in Chunk
        BY <2>2, <4>1 DEF Chunk
      <4> QED
        BY <4>1, <4>2 DEF Chunk
    <3>4. cur' = [cur EXCEPT ![w][k] = c]
      BY <3>1
    <3> HIDE DEF c
    <3>5. cur' \in [Workers -> [Kinds -> Chunk]]
      BY <1>1, <3>3, <3>4 DEF WorkOK
    <3> QED
      BY <1>1, <3>1, <3>2, <3>5 DEF WorkOK
  <2>5. CASE WorkerEnd(w, k)
    BY <1>1, <2>5 DEF WorkerEnd, WorkOK
  <2>9. ASSUME Retry(w, k)
        PROVE  /\ UNCHANGED <<queue, wpc, ended>>
               /\ cur' \in [Workers -> [Kinds -> Chunk]]
    <3>1. /\ cur' = [cur EXCEPT ![w][k].tries = cur[w][k].tries + 1, ![w][k].posting = FALSE]
          /\ cur[w][k].tries < MaxRetries /\ UNCHANGED <<queue, wpc, ended>>
      BY <2>9 DEF Retry
    <3>2. cur[w][k].tries + 1 \in 0 .. MaxRetries
      BY <2>1, <3>1 DEF Chunk
    <3> DEFINE c == [cur[w][k] EXCEPT !.tries = cur[w][k].tries + 1, !.posting = FALSE]
    <3>3. c \in Chunk
      BY <2>1, <3>2 DEF Chunk
    <3>4. cur' = [cur EXCEPT ![w][k] = c]
      BY <1>1, <2>1, <3>1 DEF WorkOK
    <3> HIDE DEF c
    <3>5. cur' \in [Workers -> [Kinds -> Chunk]]
      BY <1>1, <3>3, <3>4 DEF WorkOK
    <3> QED
      BY <3>1, <3>5
  <2>6. CASE Deliver(w, k)
    <3>1. NextChunk(w, k) \/ Retry(w, k)
      BY <2>6 DEF Deliver
    <3>2. delivered' = [delivered EXCEPT ![w[1]][k] = Append(delivered[w[1]][k], Posted(w, k))]
      BY <2>6 DEF Deliver
    <3>3. Append(delivered[w[1]][k], Posted(w, k)) \in Seq(ShownChunk)
      <4>1. delivered[w[1]][k] \in Seq(ShownChunk)
        BY <1>1, <2>1 DEF WorkOK
      <4>2. Posted(w, k) \in ShownChunk
        <5>1. w[2] \in VersionOrNone /\ None \in VersionOrNone
          BY Types DEF VersionOrNone
        <5> QED
          BY <2>1, <5>1 DEF Posted, ShownChunk, Chunk
      <4> QED
        BY <4>1, <4>2
    <3>4. delivered' \in [Names -> [Kinds -> Seq(ShownChunk)]]
      BY <1>1, <3>2, <3>3 DEF WorkOK
    <3> QED
      BY <1>1, <2>3, <2>9, <3>1, <3>4 DEF WorkOK
  <2>7. CASE FailForGood(w, k)
    BY <1>1, <2>3, <2>7 DEF FailForGood, WorkOK
  <2>8. CASE FailForNow(w, k)
    BY <1>1, <2>8, <2>9 DEF FailForNow, WorkOK
  <2>10. CASE Send(w, k)
    <3> DEFINE c == [cur[w][k] EXCEPT !.posting = TRUE]
    <3>1. cur' = [cur EXCEPT ![w][k].posting = TRUE] /\ UNCHANGED <<queue, wpc, delivered, ended>>
      BY <2>10 DEF Send
    <3>2. c \in Chunk
      BY <2>1 DEF Chunk
    <3>3. cur' = [cur EXCEPT ![w][k] = c]
      BY <1>1, <2>1, <3>1 DEF WorkOK
    <3> HIDE DEF c
    <3>4. cur' \in [Workers -> [Kinds -> Chunk]]
      BY <1>1, <3>2, <3>3 DEF WorkOK
    <3> QED
      BY <1>1, <3>1, <3>4 DEF WorkOK
  <2> QED
    BY <1>7, <2>4, <2>5, <2>6, <2>7, <2>8, <2>10 DEF WorkerStep
<1> QED
  BY <1>2, <1>4, <1>5, <1>6, <1>7 DEF Next

LEMMA KeepsDispatchTypes ==
  ASSUME TypeOK, DispatchInv, [Next]_vars
  PROVE  DispatchOK'
<1> USE DEF maps, lock, work, dispatch, history
<1> USE TypeParts
<1>1. DispatchOK
  OBVIOUS
<1>2. CASE UNCHANGED vars \/ Dies \/ StopAll \/ LockStep
  <2>1. CASE UNCHANGED vars \/ Dies
    BY <1>1, <2>1 DEF vars, Dies, DispatchOK
  <2>2. CASE StopAll \/ LockStep
    BY <1>1, <2>2, LocksSays DEF Locks, DispatchOK
  <2> QED
    BY <1>2, <2>1, <2>2
<1>3. CASE (StartAll \/ Reload) /\ ~Dies
  BY <1>1, <1>3 DEF StartAll, Reload, ReloadTo, DispatchOK
<1>4. ASSUME NEW w \in Workers, NEW k \in Kinds, WorkerStep(w, k)
      PROVE  DispatchOK'
  BY <1>1, <1>4, WorkerSays DEF Works, DispatchOK
<1>5. ASSUME NEW k \in Kinds, DispatchStep(k), ~Dies
      PROVE  DispatchOK'
  <2>1. next[k] \in Nat \ {0} /\ Len(Outbox[k]) \in Nat
    BY Types, ManagerAssumption
  <2>2. CASE Take(k) \/ Quit(k)
    BY <1>1, <2>2 DEF Take, Quit, DispatchOK
  <2>3. ASSUME dpc[k] \in {"taken", "send"}, next' = [next EXCEPT ![k] = next[k] + 1],
               dpc' = [dpc EXCEPT ![k] = "idle"],
               target' = target \/ target' = [target EXCEPT ![k] = None]
        PROVE  DispatchOK'
    <3>1. next[k] <= Len(Outbox[k])
      BY <2>3 DEF DispatchInv
    <3>2. next' \in [Kinds -> Nat \ {0}]
      BY <1>1, <2>1, <2>3 DEF DispatchOK
    <3>3. \A j \in Kinds : next'[j] <= Len(Outbox[j]) + 1
      BY <1>1, <2>1, <2>3, <3>1 DEF DispatchOK
    <3>4. target' \in [Kinds -> VersionOrNone]
      BY <1>1, <2>3 DEF DispatchOK, VersionOrNone
    <3> QED
      BY <1>1, <2>3, <3>2, <3>3, <3>4 DEF DispatchOK
  <2>4. CASE Lookup(k)
    <3>1. CASE channels[DestOf(k)] = None \/ workers[DestOf(k)] = None
      BY <2>3, <2>4, <3>1 DEF Lookup
    <3>2. CASE ~(channels[DestOf(k)] = None \/ workers[DestOf(k)] = None)
      <4>1. DestOf(k) \in Names
        <5>1. next[k] <= Len(Outbox[k]) /\ Outbox[k] \in Seq(Names)
          BY <2>4, ManagerAssumption DEF Lookup, DispatchInv
        <5>2. next[k] \in 1 .. Len(Outbox[k])
          BY <2>1, <5>1
        <5> QED
          BY <5>1, <5>2 DEF DestOf
      <4>2. workers[DestOf(k)] \in VersionOrNone
        BY <4>1 DEF MapsOK
      <4>3. /\ dpc' = [dpc EXCEPT ![k] = "send"] /\ next' = next
            /\ target' = [target EXCEPT ![k] = workers[DestOf(k)]]
        BY <2>4, <3>2 DEF Lookup
      <4> QED
        BY <1>1, <4>2, <4>3 DEF DispatchOK
    <3> QED
      BY <3>1, <3>2
  <2>5. CASE Enqueue(k)
    BY <1>5, <2>3, <2>5 DEF Enqueue
  <2> QED
    BY <1>5, <2>2, <2>4, <2>5 DEF DispatchStep
<1> QED
  BY <1>2, <1>3, <1>4, <1>5 DEF Next

LEMMA KeepsBounds ==
  ASSUME TypeOK, DispatchInv, FreshInv, RestInv, [Next]_vars, DispatchOK', QueueInv', WorkOK'
  PROVE  BoundsOK'
<1> USE DEF work
<1> SUFFICES ASSUME NEW w \in Workers, NEW k \in Kinds
             PROVE  /\ Len(queue'[w][k]) <= QueueSize
                    /\ cur'[w][k].no <= Len(Outbox[k]) /\ cur'[w][k].chunk <= Chunks[k]
  BY DEF BoundsOK
<1>1. /\ Len(queue[w][k]) <= QueueSize /\ Len(queue[w][k]) \in Nat /\ queue[w][k] \in Seq(Nat)
      /\ cur[w][k].chunk <= Chunks[k]
  BY Types DEF TypeOK
<1>2. QueueSize \in Nat \ {0} /\ Chunks[k] \in Nat \ {0} /\ Len(Outbox[k]) \in Nat
  BY ManagerAssumption
<1>3. cur'[w][k].no <= Len(Outbox[k])
  <2>1. cur'[w][k].no < next'[k] /\ next'[k] <= Len(Outbox[k]) + 1
    BY DEF QueueInv, DispatchOK
  <2>2. next'[k] \in Nat \ {0} /\ cur'[w][k] \in Chunk
    BY DEF DispatchOK, WorkOK
  <2>3. cur'[w][k].no \in Nat /\ next'[k] \in Nat
    BY <2>2 DEF Chunk
  <2> QED
    BY <1>2, <2>1, <2>3
<1>4. CASE UNCHANGED <<queue, cur>>
  BY <1>1, <1>3, <1>4
<1>5. ASSUME NEW l \in Kinds, Dispatches(l)
      PROVE  Len(queue'[w][k]) <= QueueSize /\ cur' = cur
  <2>1. cur' = cur
    BY <1>5 DEF Dispatches
  <2>2. CASE queue'[w][k] = queue[w][k]
    BY <1>1, <2>1, <2>2
  <2>3. CASE queue'[w][k] # queue[w][k]
    <3>1. PICK u : Enqueues(l, u)
      BY <1>5, <2>3 DEF Dispatches, Takes, Skips, Finds, Quits
    <3>2. queue'[w][k] = Append(queue[w][k], next[k]) /\ Len(queue[w][k]) < QueueSize
      BY <2>3, <3>1 DEF Enqueues
    <3>3. Len(queue'[w][k]) = Len(queue[w][k]) + 1
      BY <1>1, <3>2, Types
    <3> QED
      BY <1>1, <1>2, <2>1, <3>2, <3>3
  <2> QED
    BY <2>2, <2>3
<1>6. ASSUME NEW u \in Workers, NEW l \in Kinds, WorkerStep(u, l)
      PROVE  Len(queue'[w][k]) <= QueueSize /\ cur'[w][k].chunk <= Chunks[k]
  <2>1. Works(u, l)
    BY <1>6, WorkerSays
  <2>2. CASE u # w \/ l # k
    BY <1>1, <2>1, <2>2 DEF Works
  <2>3. CASE u = w /\ l = k
    <3>1. CASE Receives(w, k)
      <4>1. Len(Tail(queue[w][k])) <= QueueSize
        BY <1>1, <1>2, <3>1 DEF Receives
      <4> QED
        BY <1>2, <3>1, <4>1 DEF Receives
    <3>2. CASE Leaves(w, k)
      BY <1>1, <3>2 DEF Leaves
    <3>3. CASE Sends(w, k)
      <4>1. queue'[w][k] = queue[w][k]
        BY <3>3 DEF Sends
      <4>2. CASE Begins(w, k) \/ Again(w, k) \/ Finishes(w, k)
        BY <1>1, <1>2, <4>1, <4>2 DEF Begins, Again, Finishes, NoChunk
      <4>3. CASE GoesOn(w, k)
        <5>1. CASE Receive(w, k) \/ WorkerEnd(w, k)
          BY <3>3, <5>1 DEF Receive, WorkerEnd, Sends
        <5>2. ASSUME Retry(w, k) \/ Send(w, k)
              PROVE  cur'[w][k].chunk = cur[w][k].chunk
          <6>2. cur[w][k] \in Chunk
            BY Types
          <6>3. CASE cur' = [cur EXCEPT ![w][k].tries = cur[w][k].tries + 1, ![w][k].posting = FALSE]
            BY <6>2, <6>3, Types DEF Chunk
          <6>4. CASE cur' = [cur EXCEPT ![w][k].posting = TRUE]
            BY <6>2, <6>4, Types DEF Chunk
          <6> QED
            BY <5>2, <6>3, <6>4 DEF Retry, Send
        <5>3. CASE NextChunk(w, k)
          <6>1. NextChunk(w, k) /\ wpc[w][k] = "send"
            BY <3>3, <5>3 DEF Sends
          <6>2. CASE cur[w][k].chunk < Chunks[k]
            <7>1. cur'[w][k].chunk = cur[w][k].chunk + 1 /\ cur[w][k].chunk \in Nat
              BY <4>3, Types DEF GoesOn
            <7> QED
              BY <1>2, <4>1, <1>1, <6>2, <7>1
          <6>3. CASE ~(cur[w][k].chunk < Chunks[k])
            <7>1. cur' = [cur EXCEPT ![w][k] = NoChunk]
              BY <6>1, <6>3 DEF NextChunk
            <7>2. cur'[w][k].chunk = 0
              BY <7>1, Types DEF NoChunk
            <7> QED
              BY <1>1, <1>2, <4>1, <7>2
          <6> QED
            BY <6>2, <6>3
        <5> QED
          BY <1>1, <1>6, <2>3, <4>1, <5>1, <5>2, <5>3
             DEF WorkerStep, Deliver, FailForGood, FailForNow
      <4> QED
        BY <3>3, <4>2, <4>3 DEF Sends
    <3> QED
      BY <2>1, <2>3, <3>1, <3>2, <3>3 DEF Works
  <2> QED
    BY <2>2, <2>3
<1>7. CASE UNCHANGED vars \/ StopAll \/ LockStep
  <2>1. UNCHANGED <<queue, cur>>
    BY <1>7, LocksSays DEF vars, Locks
  <2> QED
    BY <1>4, <2>1
<1>8. CASE StartAll \/ Reload
  <2>1. UNCHANGED <<queue, cur>>
    BY <1>8, StartAllSays, ReloadSays DEF Still, StartsAll, Reloads, Starts
  <2> QED
    BY <1>4, <2>1
<1>9. ASSUME NEW l \in Kinds, DispatchStep(l)
      PROVE  /\ Len(queue'[w][k]) <= QueueSize
             /\ cur'[w][k].no <= Len(Outbox[k]) /\ cur'[w][k].chunk <= Chunks[k]
  <2>1. CASE Still
    BY <1>4, <2>1 DEF Still
  <2>2. CASE Dispatches(l)
    BY <1>1, <1>3, <1>5, <2>2
  <2> QED
    BY <1>9, <2>1, <2>2, DispatchSays
<1> QED
  BY <1>3, <1>6, <1>7, <1>8, <1>9 DEF Next

-----------------------------------------------------------------------------
(* The invariant, and what follows from it.                                *)

LEMMA InitInv ==
  ASSUME Init
  PROVE  Inv
<1>1. /\ 1 \in Versions /\ None \in VersionOrNone /\ Versions \subseteq Nat /\ None \notin Versions
      /\ MaxReloads \in Nat /\ MaxRetries \in Nat /\ QueueSize \in Nat
  BY ManagerAssumption DEF Versions, VersionOrNone, None
<1>2. \A k \in Kinds : Len(Outbox[k]) \in Nat /\ Chunks[k] \in Nat
  BY ManagerAssumption
<1>3. MapsOK /\ LockOK
  BY <1>1 DEF Init, MapsOK, LockOK, VersionOrNone, Free, None
<1>4. NoChunk \in Chunk
  BY <1>1 DEF NoChunk, Chunk
<1>5. \A S : <<>> \in Seq(S)
  OBVIOUS
<1>6. WorkOK /\ DispatchOK
  BY <1>1, <1>2, <1>4, <1>5 DEF Init, WorkOK, DispatchOK
<1>7. \A w \in Workers, k \in Kinds :
         queue[w][k] = <<>> /\ cur[w][k] = NoChunk /\ wpc[w][k] = "none" /\ next[k] = 1
  BY DEF Init
<1>8. BoundsOK
  <2>1. \A w \in Workers, k \in Kinds : cur[w][k].no = 0 /\ cur[w][k].chunk = 0 /\ Len(queue[w][k]) = 0
    BY <1>7 DEF NoChunk
  <2> QED
    BY <1>1, <1>2, <2>1 DEF BoundsOK
<1>9. TypeOK
  BY <1>3, <1>6, <1>8, TypeParts
<1>10. DispatchInv
  BY DEF Init, DispatchInv
<1>11. FreshInv
  <2>1. \A n \in Names : /\ workers[n] = 0 /\ (hashes[n] = 0 \/ hashes[n] = 1)
                         /\ channels[n] # None => channels[n] = 1 /\ hashes[n] # None
    BY <1>1 DEF Init, None
  <2>2. /\ gen = 0 /\ running = {} /\ closed = {} /\ \A w \in Workers : chanOf[w] = None
        /\ \A v \in Versions : unreg[v] = {} /\ rereg[v] = {}
    BY DEF Init
  <2> QED
    BY <1>7, <2>1, <2>2 DEF FreshInv, None
<1>12. RestInv
  BY <1>7 DEF Init, RestInv, Registered
<1>13. LockInv
  BY <1>1 DEF Init, LockInv, Free, None
<1>14. OpenInv
  BY <1>1, <1>7 DEF Init, OpenInv, Stopping, Free
<1>15. QueueInv
  BY <1>7 DEF QueueInv, NoChunk
<1>16. RunInv
  BY DEF Init, RunInv, CanSend
<1>17. \A n \in Names, k \in Kinds : delivered[n][k] = <<>>
  BY DEF Init
<1>18. AheadInv /\ LateInv /\ InOrder
  BY <1>17 DEF AheadInv, LateInv, InOrder
<1>20. FlightInv
  BY <1>7, Types, <1>9 DEF FlightInv, InFlight, NoChunk
<1>19. NothingStranded
  BY DEF Init, NothingStranded
<1> QED
  BY <1>9, <1>10, <1>11, <1>12, <1>13, <1>14, <1>15, <1>16, <1>18, <1>19, <1>20
     DEF Inv

LEMMA NextInv ==
  ASSUME Inv, [Next]_vars
  PROVE  Inv'
<1> USE DEF Inv
<1>1. Step
  BY NextSays
<1>2. DispatchInv' /\ FreshInv' /\ RestInv' /\ LockInv' /\ OpenInv' /\ QueueInv'
  BY <1>1, KeepsDispatch, KeepsFresh, KeepsRest, KeepsLock, KeepsOpen, KeepsQueue
<1>3. RunInv' /\ AheadInv' /\ FlightInv' /\ LateInv' /\ NothingStranded' /\ InOrder'
  BY <1>1, KeepsRun, KeepsAhead, KeepsFlight, KeepsLate, KeepsStranded, KeepsOrder
<1>4. MapsOK' /\ LockOK' /\ WorkOK' /\ DispatchOK'
  BY KeepsMaps, KeepsLockTypes, KeepsWork, KeepsDispatchTypes
<1>5. BoundsOK'
  BY <1>2, <1>4, KeepsBounds
<1>6. TypeOK'
  BY <1>4, <1>5 DEF TypeOK, MapsOK, LockOK, WorkOK, DispatchOK, BoundsOK
<1> QED
  BY <1>2, <1>3, <1>6

LEMMA InvHolds == Spec => []Inv
  BY InitInv, NextInv, PTL DEF Spec

\* The queues of a worker never hold more than their capacity and no chunk is tried more
\* often than sendWithRetry's loop allows (manager.go: Enqueue's send, sendWithRetry); every
\* variable keeps its type.
THEOREM TypeCorrect == Spec => []TypeOK
<1>1. Inv => TypeOK
  BY DEF Inv
<1> QED
  BY <1>1, InvHolds, PTL

\* What a channel shows (runWorker, runMediaWorker) is in the order of the bus, a chunk shown
\* again only by a later attempt of sendWithRetry, however often the channel is reloaded while
\* its workers send, retry and give up - but for a channel of which a late registration has
\* hidden the instance of a later reload.  A post that was in flight when its instance was
\* stopped may land after later messages: one for each worker and kind and no more.
THEOREM DeliversInOrder == Spec => []InOrder
<1>1. Inv => InOrder
  BY DEF Inv
<1> QED
  BY <1>1, InvHolds, PTL

\* Until StopAll a message the dispatcher took off the bus has come to an end, or a goroutine
\* that is alive has it: UnregisterChannel drains the queue of the worker it closes, and a
\* reload leaves the old worker running.
THEOREM StrandsNothing == Spec => []NothingStranded
<1>1. Inv => NothingStranded
  BY DEF Inv
<1> QED
  BY <1>1, InvHolds, PTL

\* While the lock is free the worker the manager has for a name takes messages: whatever
\* order the goroutines of reloads unregister in, none leaves a closed queue in the map.
THEOREM WorkersStayOpen == Spec => []WorkersAreOpen
<1>1. Inv => WorkersAreOpen
  <2> SUFFICES ASSUME Inv, mu = Free, ~stopped, NEW n \in Registered, NEW k \in Kinds
               PROVE  /\ <<WorkerOf(n), k>> \notin closed
                      /\ wpc[WorkerOf(n)][k] \in {"idle", "send"}
    BY DEF WorkersAreOpen
  <2>1. TypeOK /\ OpenInv /\ RestInv
    BY DEF Inv
  <2>2. <<WorkerOf(n), k>> \notin closed
    BY <2>1 DEF OpenInv
  <2>3. WorkerOf(n) \in Workers /\ wpc[WorkerOf(n)][k] \in {"none", "idle", "send", "gone"}
    BY <2>1, Types
  <2>4. wpc[WorkerOf(n)][k] # "gone" /\ wpc[WorkerOf(n)][k] # "none"
    BY <2>1, <2>2, <2>3 DEF OpenInv, RestInv
  <2> QED
    BY <2>2, <2>3, <2>4
<1> QED
  BY <1>1, InvHolds, PTL
=============================================================================
