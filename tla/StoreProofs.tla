----------------------------- MODULE StoreProofs -----------------------------
(***************************************************************************)
(* Proofs about what the process keeps in files: the jobs of Cron, for any *)
(* schedules, jobs and services, and the messages of SessionLog, for any   *)
(* number of messages.                                                     *)
(*                                                                         *)
(* Of Cron, the inductive invariant adds to the properties: what is stored *)
(* has a schedule (StoredInv), only the service in use runs (ServiceInv),  *)
(* no due time is taken before it comes (FiredInv), what the service in    *)
(* use has planned was not taken yet, but for what an update put back      *)
(* (PlanInv), and a loop knows when to wake from the time it read the      *)
(* store (SleepInv).                                                       *)
(*                                                                         *)
(* Of SessionLog, it adds that the lines that parse are in order, as is    *)
(* every history that is held or about to be written (OrderInv), and what  *)
(* is known of the files between two writes (WriteInv).  Both halves share *)
(* the lemma that a set of numbers has a least element.                    *)
(***************************************************************************)
EXTENDS Cron, SessionLog, FiniteSetTheorems, SequenceTheorems, WellFoundedInduction, TLAPS

-----------------------------------------------------------------------------
(* Cron.                                                                   *)

\* What is stored of a job: nothing, or a job that has a schedule.
StoredJob == [enabled : BOOLEAN, schedule : Schedules, next : Nat] \cup {Absent}

PcNames == {"gone", "top", "armed", "select", "exec", "call", "ended"}
CopyType == [service : 0 .. MaxServices, id : 0 .. MaxJobs, job : JobType]
USE DEF PcNames, CopyType

StoredInv ==
    /\ disk \in [Jobs -> StoredJob]
    /\ mem \in [Services -> [Jobs -> StoredJob]]
    /\ copy # NoCopy => copy.id \in Jobs /\ copy.job \in StoredJob \ {Absent}

ServiceInv ==
    \A g \in Services :
        /\ running[g] => g = cur
        /\ g > cur => pc[g] = "gone"

FiredInv == \A p \in fired : p[2] <= now

PlanInv ==
    Serving =>
        \A j \in Planned(mem[cur]) :
            <<j, mem[cur][j].next>> \in fired => <<j, mem[cur][j].next>> \in restored

SleepInv ==
    Serving /\ ~missed =>
        (pc[cur] \in {"armed", "select"} =>
            \A j \in Planned(mem[cur]) : timer[cur] <= now \/ timer[cur] <= mem[cur][j].next)

Inv ==
    /\ TypeOK /\ StoredInv /\ ServiceInv /\ FiredInv /\ PlanInv /\ SleepInv
    /\ NoDoubleRun

-----------------------------------------------------------------------------
(* Numbers, and the times of a schedule.                                   *)

LEMMA MaxOfTwo ==
    ASSUME NEW a \in Nat, NEW b \in Nat
    PROVE  Max({a, b}) = IF a >= b THEN a ELSE b
BY DEF Max

\* The natural numbers are well-founded, so that a minimum exists.
LEMMA MinIsLeast ==
    ASSUME NEW S \in SUBSET Nat, S # {}
    PROVE  Min(S) \in S /\ \A y \in S : Min(S) <= y
<1> DEFINE R == OpToRel(<, Nat)
<1>1. IsWellFoundedOn(R, Nat)
    BY NatLessThanWellFounded
<1>2. \A x, y \in Nat : x < y => <<x, y>> \in R
    BY DEF OpToRel
<1> HIDE DEF R
<1>3. \E x \in S : \A y \in S : <<y, x>> \notin R
    BY <1>1, WFMin
<1>4. \E x \in S : \A y \in S : x <= y
  <2>1. PICK x \in S : \A y \in S : <<y, x>> \notin R
      BY <1>3
  <2>2. \A y \in S : ~(y < x)
      BY <1>2, <2>1
  <2>3. \A y \in S : x <= y
      BY <2>2
  <2> QED
      BY <2>3
<1> QED
    BY <1>4 DEF Min

LEMMA CronTimes ==
    ASSUME NEW t \in Nat, NEW v \in Nat \ {0}
    PROVE  (t \div v + 1) * v \in Nat /\ (t \div v + 1) * v > t
<1> DEFINE q == t \div v
           r == t % v
<1>1. q \in Nat /\ t = v * q + r /\ r \in 0 .. v - 1
    OBVIOUS
<1> HIDE DEF q, r
<1>2. (q + 1) * v = v * q + v /\ (q + 1) * v \in Nat
    BY <1>1
<1>3. (q + 1) * v > t
    BY <1>1, <1>2
<1> QED
    BY <1>2, <1>3 DEF q

\* The next run of a schedule is later than the time it is asked at.
LEMMA NextRunIsLater ==
    ASSUME NEW s \in Schedules, NEW t \in Nat
    PROVE  NextRun(s, t) \in Nat /\ (NextRun(s, t) = NoTime \/ NextRun(s, t) > t)
<1>1. s \in [kind : {"at", "every", "cron"}, v : Nat \ {0}]
    BY CronAssumption
<1>2. CASE s.kind = "at"
    BY <1>1, <1>2 DEF NextRun, NoTime
<1>3. CASE s.kind = "every"
    BY <1>1, <1>3 DEF NextRun, NoTime
<1>4. CASE s.kind = "cron"
  <2>1. NextRun(s, t) = (t \div s.v + 1) * s.v
      BY <1>1, <1>4 DEF NextRun
  <2> QED
      BY <1>1, <2>1, CronTimes
<1> QED
    BY <1>1, <1>2, <1>3, <1>4

-----------------------------------------------------------------------------
(* Stored jobs.                                                            *)

LEMMA SchedulesAreKinds ==
    /\ \A s \in Schedules : s # NoSchedule
    /\ NoSchedule.kind = "none" /\ Absent.schedule = NoSchedule /\ Absent.next = NoTime
    /\ Absent.enabled = FALSE
    /\ Absent \in StoredJob /\ Absent \in JobType
BY CronAssumption DEF NoSchedule, Absent, StoredJob, JobType, NoTime

\* A stored job that is present is a record with a schedule.
LEMMA StoredTypes ==
    ASSUME NEW m \in [Jobs -> StoredJob]
    PROVE  /\ m \in [Jobs -> JobType]
           /\ Present(m) \subseteq Jobs /\ Planned(m) \subseteq Present(m)
           /\ \A j \in Present(m) : m[j] \in [enabled : BOOLEAN, schedule : Schedules, next : Nat]
           /\ \A j \in Planned(m) : m[j].next \in Nat \ {NoTime} /\ m[j].enabled
BY SchedulesAreKinds DEF StoredJob, JobType, Present, Planned, NoTime

LEMMA StoredJobs ==
    ASSUME NEW e \in BOOLEAN, NEW s \in Schedules, NEW n \in Nat
    PROVE  [enabled |-> e, schedule |-> s, next |-> n] \in StoredJob \ {Absent}
BY SchedulesAreKinds DEF StoredJob

\* A change of one job changes nothing else.
LEMMA OneJob ==
    ASSUME mem \in [Services -> [Jobs -> StoredJob]],
           NEW g \in Services, NEW j \in Jobs, NEW b \in StoredJob,
           mem' = [mem EXCEPT ![g][j] = b]
    PROVE  /\ mem' \in [Services -> [Jobs -> StoredJob]]
           /\ mem'[g] \in [Jobs -> StoredJob] /\ mem'[g][j] = b
           /\ \A i \in Jobs \ {j} : mem'[g][i] = mem[g][i]
           /\ \A h \in Services \ {g} : mem'[h] = mem[h]
OBVIOUS

\* Recomputing leaves no planned job in the past.
LEMMA RecomputedIsLater ==
    ASSUME now \in Nat, NEW m \in [Jobs -> StoredJob]
    PROVE  /\ Recomputed(m) \in [Jobs -> StoredJob]
           /\ \A j \in Planned(Recomputed(m)) : Recomputed(m)[j].next > now
<1> DEFINE r == Recomputed(m)
<1>1. ASSUME NEW j \in Jobs
      PROVE  r[j] \in StoredJob /\ (j \in Planned(r) => r[j].next > now)
  <2>1. r[j] = IF m[j] # Absent /\ m[j].enabled
                 THEN [m[j] EXCEPT !.next = NextRun(m[j].schedule, now)] ELSE m[j]
      BY DEF Recomputed
  <2>2. CASE m[j] # Absent /\ m[j].enabled
    <3>1. m[j] \in [enabled : BOOLEAN, schedule : Schedules, next : Nat]
        BY <2>2 DEF StoredJob
    <3> DEFINE n == NextRun(m[j].schedule, now)
    <3>2. n \in Nat /\ (n = NoTime \/ n > now)
        BY <3>1, NextRunIsLater
    <3> HIDE DEF n
    <3>3. r[j] = [enabled |-> m[j].enabled, schedule |-> m[j].schedule, next |-> n]
        BY <2>1, <2>2, <3>1 DEF n
    <3> HIDE DEF r
    <3>4. r[j] \in StoredJob
        BY <3>1, <3>2, <3>3, StoredJobs
    <3>5. r[j].next = n
        BY <3>3
    <3> QED
        BY <3>2, <3>4, <3>5 DEF Planned
  <2>3. CASE m[j] = Absent \/ ~m[j].enabled
    <3>1. r[j] = m[j]
        BY <2>1, <2>3
    <3> HIDE DEF r
    <3> QED
        BY <2>3, <3>1 DEF Planned, Present
  <2> QED
      BY <2>2, <2>3
<1>2. r = [j \in Jobs |-> r[j]]
    BY DEF Recomputed
<1> HIDE DEF r
<1>3. r \in [Jobs -> StoredJob]
    BY <1>1, <1>2
<1>4. Planned(r) \subseteq Jobs
    BY DEF Planned, Present
<1> QED
    BY <1>1, <1>3, <1>4 DEF r

\* Marking takes what is due from the plan, and leaves the rest, which is later.
LEMMA MarkedIsLater ==
    ASSUME now \in Nat, NEW m \in [Jobs -> StoredJob]
    PROVE  /\ Marked(m) \in [Jobs -> StoredJob]
           /\ \A j \in Planned(Marked(m)) : Marked(m)[j].next > now
<1> DEFINE r == Marked(m)
<1>1. ASSUME NEW j \in Jobs
      PROVE  r[j] \in StoredJob /\ (j \in Planned(r) => r[j].next > now)
  <2>1. r[j] = IF j \in DueJobs(m) THEN [m[j] EXCEPT !.next = NoTime] ELSE m[j]
      BY DEF Marked
  <2>2. CASE j \in DueJobs(m)
    <3>1. m[j] \in [enabled : BOOLEAN, schedule : Schedules, next : Nat]
        BY <2>2, StoredTypes DEF DueJobs
    <3>2. r[j] = [enabled |-> m[j].enabled, schedule |-> m[j].schedule, next |-> NoTime]
        BY <2>1, <2>2, <3>1
    <3> HIDE DEF r
    <3>3. r[j] \in StoredJob /\ r[j].next = NoTime
        BY <3>1, <3>2, StoredJobs DEF NoTime
    <3> QED
        BY <3>3 DEF Planned
  <2>3. CASE j \notin DueJobs(m)
    <3>1. r[j] = m[j]
        BY <2>1, <2>3
    <3> HIDE DEF r
    <3>2. j \in Planned(r) => j \in Planned(m)
        BY <3>1 DEF Planned, Present
    <3>3. j \in Planned(m) => m[j].next \in Nat /\ ~(m[j].next <= now)
        BY <2>3, StoredTypes DEF DueJobs
    <3> QED
        BY <3>1, <3>2, <3>3
  <2> QED
      BY <2>2, <2>3
<1>2. r = [j \in Jobs |-> r[j]]
    BY DEF Marked
<1> HIDE DEF r
<1>3. r \in [Jobs -> StoredJob]
    BY <1>1, <1>2
<1>4. Planned(r) \subseteq Jobs
    BY DEF Planned, Present
<1> QED
    BY <1>1, <1>3, <1>4 DEF r

\* The loop arms its timer for the first planned job, if not for now.
LEMMA WakesInTime ==
    ASSUME now \in Nat, NEW m \in [Jobs -> StoredJob]
    PROVE  /\ WakeAt(m) \in Nat
           /\ \A j \in Planned(m) : WakeAt(m) <= now \/ WakeAt(m) <= m[j].next
<1>1. CASE Planned(m) = {}
    BY <1>1, CronAssumption DEF WakeAt
<1>2. CASE Planned(m) # {}
  <2> DEFINE S == {m[j].next : j \in Planned(m)}
             t == Min(S)
  <2>1. S \in SUBSET Nat /\ S # {}
      BY <1>2, StoredTypes
  <2>2. t \in S /\ \A y \in S : t <= y
    <3> HIDE DEF S
    <3> QED
        BY <2>1, MinIsLeast
  <2>3. t \in Nat /\ \A j \in Planned(m) : t <= m[j].next
      BY <2>1, <2>2
  <2>4. WakeAt(m) = Max({now, t})
      BY <1>2 DEF WakeAt
  <2> HIDE DEF t
  <2>5. WakeAt(m) = IF now >= t THEN now ELSE t
      BY <2>3, <2>4, MaxOfTwo
  <2>6. \A j \in Planned(m) : m[j].next \in Nat
      BY StoredTypes
  <2> QED
      BY <2>3, <2>5, <2>6
<1> QED
    BY <1>1, <1>2

-----------------------------------------------------------------------------
(* What steps leave of the invariants.                                     *)

LEMMA InvTypes ==
    ASSUME Inv
    PROVE  /\ now \in Nat
           /\ Serving => cur \in Services /\ running[cur]
           /\ disk \in [Jobs -> StoredJob] /\ mem \in [Services -> [Jobs -> StoredJob]]
BY CronAssumption DEF Inv, TypeOK, StoredInv, Serving, Services, Times

LEMMA ServingPrime ==
    ASSUME TypeOK', Serving'
    PROVE  cur' \in Services /\ running'[cur']
BY CronAssumption DEF TypeOK, Serving, Services

\* What is stored is typed.
LEMMA StoresTypedNext ==
    ASSUME StoredInv'
    PROVE  disk' \in [Jobs -> JobType] /\ mem' \in [Services -> [Jobs -> JobType]]
<1>1. StoredJob \subseteq JobType
    BY SchedulesAreKinds DEF StoredJob, JobType
<1> QED
    BY <1>1 DEF StoredInv

LEMMA FiredKept ==
    ASSUME Inv, TypeOK', fired' = fired, now' >= now
    PROVE  FiredInv'
<1>1. \A p \in fired : p[2] \in Nat /\ p[2] <= now
    BY DEF Inv, TypeOK, FiredInv
<1>2. now \in Nat /\ now' \in Nat
    BY DEF Inv, TypeOK, Times
<1> QED
    BY <1>1, <1>2 DEF FiredInv

\* The plan of the service stays one that was not taken, as long as what a step plans
\* is later than now or put back.
LEMMA PlanKept ==
    ASSUME Inv, UNCHANGED <<cur, fired>>, restored \subseteq restored', Serving' => Serving,
           Serving => \A j \in Planned(mem'[cur]) :
                          \/ j \in Planned(mem[cur]) /\ mem'[cur][j].next = mem[cur][j].next
                          \/ mem'[cur][j].next \in Nat /\ mem'[cur][j].next > now
                          \/ <<j, mem'[cur][j].next>> \in fired =>
                                 <<j, mem'[cur][j].next>> \in restored'
    PROVE  PlanInv'
<1> SUFFICES ASSUME Serving', NEW j \in Planned(mem'[cur]),
                    <<j, mem'[cur][j].next>> \in fired
             PROVE  <<j, mem'[cur][j].next>> \in restored'
    BY DEF PlanInv, Planned, Present
<1>1. CASE mem'[cur][j].next \in Nat /\ mem'[cur][j].next > now
  <2>1. mem'[cur][j].next <= now
      BY DEF Inv, FiredInv
  <2> QED
      BY <1>1, <2>1, InvTypes
<1>2. CASE j \in Planned(mem[cur]) /\ mem'[cur][j].next = mem[cur][j].next
    BY <1>2 DEF Inv, PlanInv
<1> QED
    BY <1>1, <1>2

\* A loop that is not asleep, or missed a change, has nothing to wake for.
LEMMA SleepIdle ==
    ASSUME missed' \/ pc'[cur'] \notin {"armed", "select"}
    PROVE  SleepInv'
BY DEF SleepInv

LEMMA SleepKept ==
    ASSUME Inv, TypeOK', UNCHANGED <<cur, missed>>, Serving' => Serving, now' >= now,
           Serving => /\ mem'[cur] = mem[cur] /\ timer'[cur] = timer[cur]
                      /\ pc'[cur] \in {"armed", "select"} => pc[cur] \in {"armed", "select"}
    PROVE  SleepInv'
<1> SUFFICES ASSUME Serving', ~missed, pc'[cur] \in {"armed", "select"},
                    NEW j \in Planned(mem[cur])
             PROVE  timer[cur] <= now' \/ timer[cur] <= mem[cur][j].next
    BY DEF SleepInv, Planned, Present
<1>1. timer[cur] <= now \/ timer[cur] <= mem[cur][j].next
    BY DEF Inv, SleepInv
<1>2. timer[cur] \in Nat /\ now \in Nat /\ now' \in Nat
    BY InvTypes DEF Inv, TypeOK, Times
<1> QED
    BY <1>1, <1>2

\* Telling the loop of a service wakes it, or the service in use misses the change; the
\* other services are left alone.
LEMMA NotifyWakes ==
    ASSUME Inv, NEW g \in Services, Notify(g) \/ Untold(g)
    PROVE  /\ pc' \in [Services -> PcNames]
           /\ timer' \in [Services -> Nat] /\ missed' \in BOOLEAN
           /\ g = cur => missed' \/ pc'[g] \notin {"armed", "select"}
           /\ g # cur => missed' = missed
           /\ \A h \in Services \ {g} : pc'[h] = pc[h] /\ timer'[h] = timer[h]
           /\ \A h \in Services : pc'[h] \in {"exec", "call"} <=> pc[h] \in {"exec", "call"}
           /\ \A h \in Services : pc'[h] = "gone" <=> pc[h] = "gone"
<1>1. /\ pc \in [Services -> PcNames]
      /\ timer \in [Services -> Nat] /\ missed \in BOOLEAN
    BY DEF Inv, TypeOK
<1>2. CASE /\ Wakes(g) /\ pc' = [pc EXCEPT ![g] = "top"]
           /\ timer' = [timer EXCEPT ![g] = NoTime] /\ UNCHANGED missed
  <2>1. pc[g] = "select" /\ timer' = [timer EXCEPT ![g] = 0]
      BY <1>2 DEF Wakes, NoTime
  <2>2. \A h \in Services : pc'[h] = IF h = g THEN "top" ELSE pc[h]
      BY <1>1, <1>2
  <2>3. pc' \in [Services -> PcNames]
      BY <1>1, <1>2
  <2> QED
      BY <1>1, <1>2, <2>1, <2>2, <2>3
<1>3. CASE Untold(g)
  <2>1. /\ missed' = (missed \/ (g = cur /\ pc[g] \in {"armed", "select"}))
        /\ pc' = pc /\ timer' = timer
      BY <1>3 DEF Untold
  <2> QED
      BY <1>1, <2>1
<1> QED
    BY <1>2, <1>3 DEF Notify

\* The job the loop is at is one of those due.
LEMMA FirstIsDue ==
    ASSUME Inv, NEW g \in Services, pc[g] \in {"exec", "call"}
    PROVE  FirstDue(g) \in due[g] /\ FirstDue(g) \in Jobs
<1>1. due[g] \in SUBSET Nat /\ due[g] # {} /\ due[g] \subseteq Jobs
    BY DEF Inv, TypeOK, Jobs
<1> QED
    BY <1>1, MinIsLeast DEF FirstDue

LEMMA ContinueTypes ==
    ASSUME Inv, NEW g \in Services, pc[g] \in {"exec", "call"}, Continue(g)
    PROVE  /\ pc' \in [Services -> PcNames]
           /\ due' \in [Services -> SUBSET Jobs]
           /\ pc'[g] \in {"exec", "top"}
           /\ \A h \in Services : pc'[h] \in {"exec", "call"} <=> due'[h] # {}
           /\ \A h \in Services \ {g} : pc'[h] = pc[h]
<1>1. CASE due[g] # {FirstDue(g)}
  <2> DEFINE d == due[g] \ {FirstDue(g)}
  <2>1. pc' = [pc EXCEPT ![g] = "exec"] /\ due' = [due EXCEPT ![g] = d]
      BY <1>1 DEF Continue
  <2>2. d \in SUBSET Jobs /\ (d # {} \/ due[g] = {})
      BY <1>1 DEF Inv, TypeOK
  <2> HIDE DEF d
  <2>3. d # {}
      BY <2>2 DEF Inv, TypeOK
  <2>4. /\ due' \in [Services -> SUBSET Jobs]
        /\ \A h \in Services : due'[h] = IF h = g THEN d ELSE due[h]
      BY <2>1, <2>2 DEF Inv, TypeOK
  <2>5. \A h \in Services : pc'[h] = IF h = g THEN "exec" ELSE pc[h]
      BY <2>1 DEF Inv, TypeOK
  <2> QED
      BY <2>1, <2>3, <2>4, <2>5 DEF Inv, TypeOK
<1>2. CASE due[g] = {FirstDue(g)}
  <2>1. pc' = [pc EXCEPT ![g] = "top"] /\ due' = [due EXCEPT ![g] = {}]
      BY <1>2 DEF Continue, Inv, TypeOK
  <2> QED
      BY <2>1 DEF Inv, TypeOK
<1> QED
    BY <1>1, <1>2

-----------------------------------------------------------------------------
(* The steps of a loop.                                                    *)

LEMMA ReadWakeKeeps ==
    ASSUME Inv, NEW g \in Services, ReadWake(g)
    PROVE  Inv'
<1> DEFINE w == WakeAt(mem[g])
<1>1. now \in Nat /\ mem[g] \in [Jobs -> StoredJob]
    BY InvTypes
<1>2. w \in Nat /\ \A j \in Planned(mem[g]) : w <= now \/ w <= mem[g][j].next
    BY <1>1, WakesInTime
<1>3. /\ pc[g] = "top" /\ pc' = [pc EXCEPT ![g] = "armed"]
      /\ timer' = [timer EXCEPT ![g] = w]
      /\ missed' = IF g = cur THEN FALSE ELSE missed
      /\ UNCHANGED <<now, mem, disk, cur, running, due, copy, added, edits>>
      /\ UNCHANGED <<fired, twice, restored>>
    BY DEF ReadWake, client, ghost
<1> HIDE DEF w
<1>4. StoredInv' /\ ServiceInv' /\ NoDoubleRun' /\ Serving' = Serving
    BY <1>3 DEF Inv, StoredInv, ServiceInv, TypeOK, NoDoubleRun, Serving
<1>5. TypeOK'
  <2>1. timer' \in [Services -> Nat] /\ missed' \in BOOLEAN
      BY <1>2, <1>3 DEF Inv, TypeOK
  <2>2. /\ pc' \in [Services -> PcNames]
        /\ \A h \in Services : pc'[h] \in {"exec", "call"} <=> due'[h] # {}
      BY <1>3 DEF Inv, TypeOK
  <2> QED
      BY <1>3, <2>1, <2>2 DEF Inv, TypeOK
<1>6. FiredInv'
    BY <1>1, <1>3, <1>5, FiredKept
<1>7. PlanInv'
    BY <1>3, <1>4, PlanKept
<1>8. SleepInv'
  <2>1. CASE g = cur
    <3>1. timer'[cur] = w
        BY <1>3, <2>1 DEF Inv, TypeOK
    <3> QED
        BY <1>2, <1>3, <2>1, <3>1 DEF SleepInv
  <2>2. CASE g # cur
    <3>1. timer'[cur] = timer[cur] /\ pc'[cur] = pc[cur]
        BY <1>3, <2>2 DEF Inv, TypeOK
    <3> QED
        BY <1>1, <1>3, <1>4, <1>5, <2>2, <3>1, SleepKept
  <2> QED
      BY <2>1, <2>2
<1> QED
    BY <1>4, <1>5, <1>6, <1>7, <1>8 DEF Inv

LEMMA SleepKeeps ==
    ASSUME Inv, NEW g \in Services, Sleep(g)
    PROVE  Inv'
<1>1. /\ pc[g] = "armed" /\ pc' = [pc EXCEPT ![g] = "select"]
      /\ UNCHANGED <<now, mem, disk, cur, running, timer, due, copy, added, edits, missed>>
      /\ UNCHANGED <<fired, twice, restored>>
    BY DEF Sleep, client, ghost
<1>2. StoredInv' /\ ServiceInv' /\ NoDoubleRun' /\ Serving' = Serving
    BY <1>1 DEF Inv, StoredInv, ServiceInv, TypeOK, NoDoubleRun, Serving
<1>3. TypeOK'
  <2>1. /\ pc' \in [Services -> PcNames]
        /\ \A h \in Services : pc'[h] \in {"exec", "call"} <=> due'[h] # {}
      BY <1>1 DEF Inv, TypeOK
  <2> QED
      BY <1>1, <2>1 DEF Inv, TypeOK
<1>4. FiredInv'
    BY <1>1, <1>3, InvTypes, FiredKept
<1>5. PlanInv'
    BY <1>1, <1>2, PlanKept
<1>6. SleepInv'
  <2>1. pc'[cur] \in {"armed", "select"} /\ Serving => pc[cur] \in {"armed", "select"}
      BY <1>1, InvTypes DEF Inv, TypeOK
  <2> QED
      BY <1>1, <1>2, <1>3, <2>1, InvTypes, SleepKept
<1> QED
    BY <1>2, <1>3, <1>4, <1>5, <1>6 DEF Inv

LEMMA SeeStopKeeps ==
    ASSUME Inv, NEW g \in Services, SeeStop(g)
    PROVE  Inv'
<1>1. /\ pc[g] = "select" /\ ~running[g] /\ pc' = [pc EXCEPT ![g] = "ended"]
      /\ timer' = [timer EXCEPT ![g] = 0]
      /\ UNCHANGED <<now, mem, disk, cur, running, due, copy, added, edits, missed>>
      /\ UNCHANGED <<fired, twice, restored>>
    BY DEF SeeStop, client, ghost, NoTime
<1>2. StoredInv' /\ ServiceInv' /\ NoDoubleRun' /\ Serving' = Serving
    BY <1>1 DEF Inv, StoredInv, ServiceInv, TypeOK, NoDoubleRun, Serving
<1>3. TypeOK'
  <2>1. /\ pc' \in [Services -> PcNames] /\ timer' \in [Services -> Nat]
        /\ \A h \in Services : pc'[h] \in {"exec", "call"} <=> due'[h] # {}
      BY <1>1 DEF Inv, TypeOK
  <2> QED
      BY <1>1, <2>1 DEF Inv, TypeOK
<1>4. FiredInv'
    BY <1>1, <1>3, InvTypes, FiredKept
<1>5. Serving => g # cur /\ cur \in Services
    BY <1>1, InvTypes
<1>6. Serving => timer'[cur] = timer[cur] /\ pc'[cur] = pc[cur]
    BY <1>1, <1>5 DEF Inv, TypeOK
<1>7. PlanInv'
    BY <1>1, <1>2, PlanKept
<1>8. SleepInv'
    BY <1>1, <1>2, <1>3, <1>6, InvTypes, SleepKept
<1> QED
    BY <1>2, <1>3, <1>4, <1>7, <1>8 DEF Inv

LEMMA CheckJobsKeeps ==
    ASSUME Inv, NEW g \in Services, CheckJobs(g)
    PROVE  Inv'
<1> DEFINE d == DueJobs(mem[g])
           m == Marked(mem[g])
           taken == {<<j, mem[g][j].next>> : j \in d}
<1>1. /\ pc[g] = "select" /\ running[g] /\ timer' = [timer EXCEPT ![g] = 0]
      /\ UNCHANGED <<now, cur, running, copy, added, edits, missed, restored>>
    BY DEF CheckJobs, client, NoTime
<1>2. g = cur /\ Serving /\ Serving' = Serving
    BY <1>1, CronAssumption DEF Inv, ServiceInv, Serving, Services
<1>3. timer' \in [Services -> Nat] /\ mem[g] \in [Jobs -> StoredJob] /\ now \in Nat
    BY <1>1, InvTypes DEF Inv, TypeOK
<1>4. CASE d # {}
  <2>1. /\ mem' = [mem EXCEPT ![g] = m] /\ disk' \in {m, disk}
        /\ due' = [due EXCEPT ![g] = d] /\ pc' = [pc EXCEPT ![g] = "exec"]
        /\ fired' = fired \cup taken /\ twice' = twice \cup (taken \cap fired)
      BY <1>4 DEF CheckJobs, Save
  <2>2. m \in [Jobs -> StoredJob] /\ \A j \in Planned(m) : m[j].next > now
      BY <1>3, MarkedIsLater
  <2>3. d \subseteq Planned(mem[g]) /\ d \subseteq Jobs /\ \A j \in d : mem[g][j].next <= now
      BY DEF DueJobs, Planned, Present
  <2>4. \A p \in taken : p \in Jobs \X Nat /\ p[2] <= now
      BY <1>3, <2>3, StoredTypes
  <2>5. taken \cap fired \subseteq restored
      BY <1>2, <2>3 DEF Inv, PlanInv
  <2> HIDE DEF d, m, taken
  <2>6. mem' \in [Services -> [Jobs -> StoredJob]] /\ mem'[g] = m
      BY <2>1, <2>2, InvTypes
  <2>7. disk' \in [Jobs -> StoredJob]
      BY <2>1, <2>2, InvTypes
  <2>8. StoredInv'
      BY <1>1, <2>6, <2>7 DEF Inv, StoredInv
  <2>9. /\ pc' \in [Services -> PcNames]
        /\ due' \in [Services -> SUBSET Jobs]
        /\ \A h \in Services : pc'[h] \in {"exec", "call"} <=> due'[h] # {}
        /\ pc'[g] = "exec" /\ \A h \in Services \ {g} : pc'[h] = pc[h]
      BY <1>4, <2>1, <2>3 DEF Inv, TypeOK
  <2>10. /\ fired' \subseteq Jobs \X Nat /\ restored' \subseteq fired'
         /\ twice' \subseteq fired' /\ twice' \subseteq restored'
      BY <1>1, <2>1, <2>4, <2>5 DEF Inv, TypeOK, NoDoubleRun
  <2>11. TypeOK' /\ NoDoubleRun'
      BY <1>1, <1>3, <2>8, <2>9, <2>10, StoresTypedNext DEF Inv, TypeOK, NoDoubleRun
  <2>12. ServiceInv'
      BY <1>1, <1>2, <2>9 DEF Inv, ServiceInv
  <2>13. FiredInv'
      BY <1>1, <2>1, <2>4 DEF Inv, FiredInv
  <2>14. PlanInv'
    <3> SUFFICES ASSUME NEW j \in Planned(m)
                 PROVE  <<j, m[j].next>> \notin fired'
        BY <1>1, <1>2, <2>6 DEF PlanInv
    <3>1. m[j].next \in Nat /\ m[j].next > now
        BY <2>2, StoredTypes
    <3>2. \A p \in fired' : p[2] <= now
        BY <1>1, <2>13 DEF FiredInv
    <3> QED
        BY <1>3, <3>1, <3>2
  <2>15. SleepInv'
      BY <1>1, <1>2, <2>9, SleepIdle
  <2> QED
      BY <2>8, <2>11, <2>12, <2>13, <2>14, <2>15 DEF Inv
<1>5. CASE d = {}
  <2>1. /\ pc' = [pc EXCEPT ![g] = "top"]
        /\ disk' \in {mem[g], disk} /\ UNCHANGED <<mem, due, fired, twice>>
      BY <1>5 DEF CheckJobs, Save
  <2>2. StoredInv' /\ ServiceInv' /\ NoDoubleRun'
      BY <1>1, <1>3, <2>1 DEF Inv, StoredInv, ServiceInv, TypeOK, NoDoubleRun
  <2>3. /\ pc' \in [Services -> PcNames]
        /\ \A h \in Services : pc'[h] \in {"exec", "call"} <=> due'[h] # {}
        /\ pc'[g] = "top"
      BY <1>1, <2>1 DEF Inv, TypeOK
  <2>4. TypeOK'
      BY <1>1, <1>3, <2>1, <2>2, <2>3, StoresTypedNext DEF Inv, TypeOK
  <2>5. FiredInv'
      BY <1>1, <1>3, <2>1, <2>4, FiredKept
  <2>6. PlanInv'
      BY <1>1, <1>2, <2>1, PlanKept
  <2>7. SleepInv'
      BY <1>1, <1>2, <2>3, SleepIdle
  <2> QED
      BY <2>2, <2>4, <2>5, <2>6, <2>7 DEF Inv
<1> QED
    BY <1>4, <1>5

LEMMA ExecuteKeeps ==
    ASSUME Inv, NEW g \in Services, Execute(g)
    PROVE  Inv'
<1>1. /\ pc[g] = "exec"
      /\ Continue(g) \/ (pc' = [pc EXCEPT ![g] = "call"] /\ due' = due)
      /\ UNCHANGED <<now, mem, disk, cur, running, timer, copy, added, edits, missed>>
      /\ UNCHANGED <<fired, twice, restored>>
    BY DEF Execute, client, ghost
<1>2. /\ pc' \in [Services -> PcNames]
      /\ due' \in [Services -> SUBSET Jobs]
      /\ pc'[g] \in {"exec", "call", "top"} /\ \A h \in Services \ {g} : pc'[h] = pc[h]
      /\ \A h \in Services : pc'[h] \in {"exec", "call"} <=> due'[h] # {}
  <2>1. CASE Continue(g)
      BY <1>1, <2>1, ContinueTypes
  <2>2. CASE pc' = [pc EXCEPT ![g] = "call"] /\ due' = due
      BY <1>1, <2>2 DEF Inv, TypeOK
  <2> QED
      BY <1>1, <2>1, <2>2
<1>3. StoredInv' /\ NoDoubleRun' /\ Serving' = Serving
    BY <1>1 DEF Inv, StoredInv, TypeOK, NoDoubleRun, Serving
<1>4. ServiceInv'
  <2>1. ~(g > cur)
      BY <1>1 DEF Inv, ServiceInv
  <2> QED
      BY <1>1, <1>2, <2>1 DEF Inv, ServiceInv
<1>5. TypeOK'
    BY <1>1, <1>2 DEF Inv, TypeOK
<1>6. FiredInv'
    BY <1>1, <1>5, InvTypes, FiredKept
<1>7. PlanInv'
    BY <1>1, <1>3, PlanKept
<1>8. SleepInv'
  <2>1. Serving /\ pc'[cur] \in {"armed", "select"} => pc[cur] \in {"armed", "select"}
      BY <1>2, InvTypes
  <2> QED
      BY <1>1, <1>3, <1>5, <2>1, InvTypes, SleepKept
<1> QED
    BY <1>3, <1>4, <1>5, <1>6, <1>7, <1>8 DEF Inv

\* What Executed makes of the job that has run.
LEMMA ExecutedStores ==
    ASSUME Inv, NEW g \in Services, Executed(g)
    PROVE  /\ mem' \in [Services -> [Jobs -> StoredJob]] /\ disk' \in [Jobs -> StoredJob]
           /\ \A h \in Services \ {g} : mem'[h] = mem[h]
           /\ \A j \in Planned(mem'[g]) :
                 \/ j \in Planned(mem[g]) /\ mem'[g][j].next = mem[g][j].next
                 \/ mem'[g][j].next \in Nat /\ mem'[g][j].next > now
<1> DEFINE j == FirstDue(g)
           s == mem[g][j].schedule
           n == NextRun(s, now)
           b == IF s.kind = "at" THEN Absent ELSE [mem[g][j] EXCEPT !.next = n]
<1>1. pc[g] = "call" /\ now \in Nat /\ mem[g] \in [Jobs -> StoredJob]
    BY InvTypes DEF Executed
<1>2. j \in Jobs
    BY <1>1, FirstIsDue
<1>3. CASE mem[g][j] = Absent
  <2>1. UNCHANGED <<mem, disk>>
      BY <1>3 DEF Executed
  <2> QED
      BY <2>1, InvTypes
<1>4. CASE mem[g][j] # Absent
  <2>1. mem[g][j] \in [enabled : BOOLEAN, schedule : Schedules, next : Nat]
      BY <1>1, <1>2, <1>4 DEF StoredJob
  <2>2. mem' = [mem EXCEPT ![g][j] = b] /\ disk' \in {mem'[g], disk}
    <3>1. mem' = [mem EXCEPT ![g][j] =
                     IF s.kind = "at" THEN Absent ELSE [@ EXCEPT !.next = n]]
        BY <1>4 DEF Executed
    <3>2. disk' \in {mem'[g], disk}
        BY <1>4 DEF Executed, Save
    <3>3. mem' = [mem EXCEPT ![g][j] = b]
        BY <3>1
    <3> QED
        BY <3>2, <3>3
  <2>3. n \in Nat /\ (n = NoTime \/ n > now)
      BY <1>1, <2>1, NextRunIsLater
  <2>4. b \in StoredJob /\ (b = Absent \/ b.next = n)
    <3> HIDE DEF n
    <3>1. CASE s.kind = "at"
        BY <3>1, SchedulesAreKinds
    <3>2. CASE s.kind # "at"
      <4>1. b = [enabled |-> mem[g][j].enabled, schedule |-> s, next |-> n]
          BY <2>1, <3>2
      <4> HIDE DEF b
      <4>2. b \in StoredJob
          BY <2>1, <2>3, <4>1, StoredJobs
      <4> QED
          BY <4>1, <4>2
    <3> QED
        BY <3>1, <3>2
  <2> HIDE DEF b, n, s, j
  <2>5. /\ mem' \in [Services -> [Jobs -> StoredJob]]
        /\ mem'[g] \in [Jobs -> StoredJob] /\ mem'[g][j] = b
        /\ \A i \in Jobs \ {j} : mem'[g][i] = mem[g][i]
        /\ \A h \in Services \ {g} : mem'[h] = mem[h]
      BY <1>2, <2>2, <2>4, InvTypes, OneJob
  <2>6. ASSUME NEW i \in Planned(mem'[g])
        PROVE  \/ i \in Planned(mem[g]) /\ mem'[g][i].next = mem[g][i].next
               \/ mem'[g][i].next \in Nat /\ mem'[g][i].next > now
    <3>1. i \in Jobs /\ mem'[g][i] # Absent /\ mem'[g][i].next # NoTime
        BY DEF Planned, Present
    <3>2. CASE i = j
        BY <2>3, <2>4, <2>5, <3>1, <3>2
    <3>3. CASE i # j
        BY <2>5, <3>1, <3>3 DEF Planned, Present
    <3> QED
        BY <3>2, <3>3
  <2>7. disk' \in [Jobs -> StoredJob]
      BY <2>2, <2>5, InvTypes
  <2> QED
      BY <2>5, <2>6, <2>7
<1> QED
    BY <1>3, <1>4

LEMMA ExecutedKeeps ==
    ASSUME Inv, NEW g \in Services, Executed(g)
    PROVE  Inv'
<1>1. /\ pc[g] = "call" /\ Continue(g)
      /\ UNCHANGED <<now, cur, running, timer, copy, added, edits, missed>>
      /\ UNCHANGED <<fired, twice, restored>>
    BY DEF Executed, client, ghost
<1>2. /\ pc' \in [Services -> PcNames]
      /\ due' \in [Services -> SUBSET Jobs]
      /\ pc'[g] \in {"exec", "top"} /\ \A h \in Services \ {g} : pc'[h] = pc[h]
      /\ \A h \in Services : pc'[h] \in {"exec", "call"} <=> due'[h] # {}
    BY <1>1, ContinueTypes
<1>3. StoredInv' /\ NoDoubleRun' /\ Serving' = Serving
    BY <1>1, ExecutedStores DEF Inv, StoredInv, TypeOK, NoDoubleRun, Serving
<1>4. ServiceInv'
  <2>1. ~(g > cur)
      BY <1>1 DEF Inv, ServiceInv
  <2> QED
      BY <1>1, <1>2, <2>1 DEF Inv, ServiceInv
<1>5. TypeOK'
    BY <1>1, <1>2, <1>3, StoresTypedNext DEF Inv, TypeOK
<1>6. FiredInv'
    BY <1>1, <1>5, InvTypes, FiredKept
<1>7. PlanInv'
  <2>1. CASE g = cur
      BY <1>1, <1>3, <2>1, ExecutedStores, PlanKept
  <2>2. CASE g # cur
    <3>1. Serving => mem'[cur] = mem[cur]
        BY <2>2, ExecutedStores, InvTypes
    <3> QED
        BY <1>1, <1>3, <3>1, PlanKept
  <2> QED
      BY <2>1, <2>2
<1>8. SleepInv'
  <2>1. CASE g = cur
      BY <1>1, <1>2, <2>1, SleepIdle
  <2>2. CASE g # cur
    <3>1. Serving => mem'[cur] = mem[cur] /\ pc'[cur] = pc[cur]
        BY <1>2, <2>2, ExecutedStores, InvTypes
    <3> QED
        BY <1>1, <1>3, <1>5, <3>1, InvTypes, SleepKept
  <2> QED
      BY <2>1, <2>2
<1> QED
    BY <1>3, <1>4, <1>5, <1>6, <1>7, <1>8 DEF Inv

-----------------------------------------------------------------------------
(* The steps of the gateway.                                               *)

LEMMA StartServiceKeeps ==
    ASSUME Inv, StartService
    PROVE  Inv'
<1> DEFINE g == cur + 1
           r == Recomputed(disk)
<1>1. /\ cur < MaxServices /\ ~Serving /\ cur' = g
      /\ mem' = [mem EXCEPT ![g] = r] /\ disk' = r
      /\ running' = [running EXCEPT ![g] = TRUE] /\ pc' = [pc EXCEPT ![g] = "top"]
      /\ missed' = FALSE
      /\ UNCHANGED <<now, timer, due, copy, added, edits, fired, twice, restored>>
    BY DEF StartService, client, ghost
<1>2. cur \in 0 .. MaxServices /\ MaxServices \in Nat /\ now \in Nat
    BY CronAssumption, InvTypes DEF Inv, TypeOK
<1>3. g \in Services /\ g \in 0 .. MaxServices /\ g > cur
    BY <1>1, <1>2 DEF Services
<1>4. r \in [Jobs -> StoredJob] /\ \A j \in Planned(r) : r[j].next \in Nat /\ r[j].next > now
  <2>1. r \in [Jobs -> StoredJob] /\ \A j \in Planned(r) : r[j].next > now
      BY <1>2, InvTypes, RecomputedIsLater
  <2> HIDE DEF r
  <2> QED
      BY <2>1, StoredTypes
<1>5. \A h \in Services : ~running[h]
    BY <1>1, CronAssumption DEF Inv, ServiceInv, Serving, Services
<1> HIDE DEF r
<1>6. mem' \in [Services -> [Jobs -> StoredJob]] /\ mem'[g] = r
    BY <1>1, <1>3, <1>4, InvTypes
<1>7. StoredInv' /\ NoDoubleRun'
    BY <1>1, <1>4, <1>6 DEF Inv, StoredInv, NoDoubleRun
<1>8. due[g] = {}
    BY <1>3 DEF Inv, TypeOK, ServiceInv
<1>9. /\ pc' \in [Services -> PcNames]
      /\ pc'[g] = "top" /\ \A h \in Services \ {g} : pc'[h] = pc[h]
      /\ \A h \in Services : pc'[h] \in {"exec", "call"} <=> due'[h] # {}
      /\ running' \in [Services -> BOOLEAN]
      /\ \A h \in Services \ {g} : running'[h] = running[h]
    BY <1>1, <1>3, <1>8 DEF Inv, TypeOK
<1>10. TypeOK'
    BY <1>1, <1>3, <1>7, <1>9, StoresTypedNext DEF Inv, TypeOK
<1>11. ServiceInv'
  <2>1. \A h \in Services : h > g => h > cur /\ h # g
      BY <1>2 DEF Services
  <2> QED
      BY <1>1, <1>5, <1>9, <2>1 DEF Inv, ServiceInv
<1>12. FiredInv'
    BY <1>1, <1>2, <1>10, FiredKept
<1>13. PlanInv'
  <2> SUFFICES ASSUME NEW j \in Planned(r)
               PROVE  <<j, r[j].next>> \notin fired
      BY <1>1, <1>6 DEF PlanInv
  <2>1. \A p \in fired : p[2] <= now
      BY DEF Inv, FiredInv
  <2> QED
      BY <1>2, <1>4, <2>1
<1>14. SleepInv'
    BY <1>1, <1>9, SleepIdle
<1> QED
    BY <1>7, <1>10, <1>11, <1>12, <1>13, <1>14 DEF Inv

LEMMA StopServiceKeeps ==
    ASSUME Inv, StopService
    PROVE  Inv'
<1>1. /\ Serving /\ running' = [running EXCEPT ![cur] = FALSE]
      /\ UNCHANGED <<now, mem, disk, cur, pc, timer, due, copy, added, edits, missed>>
      /\ UNCHANGED <<fired, twice, restored>>
    BY DEF StopService, loop, client, ghost
<1>2. cur \in Services /\ ~Serving'
    BY <1>1, InvTypes DEF Inv, TypeOK, Serving
<1>3. TypeOK' /\ StoredInv' /\ ServiceInv' /\ NoDoubleRun'
    BY <1>1 DEF Inv, TypeOK, StoredInv, ServiceInv, NoDoubleRun
<1>4. FiredInv'
    BY <1>1, <1>3, InvTypes, FiredKept
<1>5. PlanInv' /\ SleepInv'
    BY <1>2 DEF PlanInv, SleepInv
<1> QED
    BY <1>3, <1>4, <1>5 DEF Inv

LEMMA CrashKeeps ==
    ASSUME Inv, Crash
    PROVE  Inv'
<1>1. /\ mem' = [g \in Services |-> Empty] /\ running' = [g \in Services |-> FALSE]
      /\ pc' = [g \in Services |-> "gone"] /\ timer' = [g \in Services |-> 0]
      /\ due' = [g \in Services |-> {}] /\ copy' = NoCopy
      /\ UNCHANGED <<now, disk, cur, added, edits, missed, fired, twice, restored>>
    BY DEF Crash, ghost, NoTime
<1>2. Empty \in [Jobs -> StoredJob]
    BY SchedulesAreKinds DEF Empty
<1>3. StoredInv' /\ ServiceInv' /\ NoDoubleRun'
    BY <1>1, <1>2, InvTypes DEF Inv, StoredInv, ServiceInv, NoDoubleRun
<1>4. NoCopy \in CopyType
    BY SchedulesAreKinds, CronAssumption DEF NoCopy
<1>5. TypeOK'
    BY <1>1, <1>3, <1>4, StoresTypedNext DEF Inv, TypeOK
<1>6. ~Serving'
    BY <1>1, <1>5, ServingPrime
<1>7. FiredInv'
    BY <1>1, <1>5, InvTypes, FiredKept
<1>8. PlanInv' /\ SleepInv'
    BY <1>6 DEF PlanInv, SleepInv
<1> QED
    BY <1>3, <1>5, <1>7, <1>8 DEF Inv

-----------------------------------------------------------------------------
(* The operations of the service, and time.                                *)

\* What an operation on one job of a service keeps, when its loop is told or misses the
\* change; for a service that does not run it is nothing to the one in use.
LEMMA EditKeeps ==
    ASSUME Inv, NEW g \in Services, NEW j \in Jobs, NEW b \in StoredJob,
           mem' = [mem EXCEPT ![g][j] = b], disk' \in {mem'[g], disk},
           Notify(g) \/ Untold(g),
           UNCHANGED <<now, cur, running, due, fired, twice>>,
           copy' \in {copy, NoCopy}, added' \in 0 .. MaxJobs, edits' \in 0 .. MaxEdits,
           restored' \subseteq fired, restored \subseteq restored',
           running[g] => \/ b.next = NoTime \/ b.next > now
                         \/ <<j, b.next>> \in fired => <<j, b.next>> \in restored'
    PROVE  Inv'
<1>1. /\ Serving => cur \in Services /\ running[cur]
      /\ now \in Nat /\ mem \in [Services -> [Jobs -> StoredJob]]
      /\ disk \in [Jobs -> StoredJob]
    BY InvTypes
<1>2. /\ mem' \in [Services -> [Jobs -> StoredJob]]
      /\ mem'[g] \in [Jobs -> StoredJob] /\ mem'[g][j] = b
      /\ \A i \in Jobs \ {j} : mem'[g][i] = mem[g][i]
      /\ \A h \in Services \ {g} : mem'[h] = mem[h]
    BY <1>1, OneJob
<1>3. /\ pc' \in [Services -> PcNames]
      /\ timer' \in [Services -> Nat] /\ missed' \in BOOLEAN
      /\ g = cur => missed' \/ pc'[g] \notin {"armed", "select"}
      /\ g # cur => missed' = missed
      /\ \A h \in Services \ {g} : pc'[h] = pc[h] /\ timer'[h] = timer[h]
      /\ \A h \in Services : pc'[h] \in {"exec", "call"} <=> pc[h] \in {"exec", "call"}
      /\ \A h \in Services : pc'[h] = "gone" <=> pc[h] = "gone"
    BY NotifyWakes
<1>4. StoredInv'
    BY <1>1, <1>2 DEF Inv, StoredInv
<1>5. copy' \in CopyType
    BY SchedulesAreKinds, CronAssumption DEF NoCopy, Inv, TypeOK
<1>6. TypeOK'
    BY <1>1, <1>3, <1>4, <1>5, StoresTypedNext DEF Inv, TypeOK
<1>7. ServiceInv' /\ NoDoubleRun' /\ Serving' = Serving
    BY <1>3 DEF Inv, ServiceInv, NoDoubleRun, Serving
<1>8. FiredInv'
    BY <1>1, <1>6, FiredKept
<1>9. PlanInv'
  <2>1. CASE Serving /\ g = cur
    <3>1. running[g]
        BY <1>1, <2>1
    <3>2. ASSUME NEW i \in Planned(mem'[cur])
          PROVE  \/ i \in Planned(mem[cur]) /\ mem'[cur][i].next = mem[cur][i].next
                 \/ mem'[cur][i].next \in Nat /\ mem'[cur][i].next > now
                 \/ <<i, mem'[cur][i].next>> \in fired =>
                        <<i, mem'[cur][i].next>> \in restored'
      <4>1. i \in Jobs /\ mem'[cur][i].next \in Nat /\ mem'[cur][i].next # NoTime
          BY <1>2, <2>1, StoredTypes
      <4>2. CASE i = j
          BY <1>2, <2>1, <3>1, <4>1, <4>2
      <4>3. CASE i # j
          BY <1>2, <2>1, <4>1, <4>3 DEF Planned, Present
      <4> QED
          BY <4>2, <4>3
    <3> QED
        BY <1>7, <3>2, PlanKept
  <2>2. CASE ~(Serving /\ g = cur)
    <3>1. Serving => mem'[cur] = mem[cur]
        BY <1>1, <1>2, <2>2
    <3> QED
        BY <1>7, <3>1, PlanKept
  <2> QED
      BY <2>1, <2>2
<1>10. SleepInv'
  <2>1. CASE g = cur
      BY <1>3, <2>1, SleepIdle
  <2>2. CASE g # cur
    <3>1. Serving => mem'[cur] = mem[cur] /\ timer'[cur] = timer[cur] /\ pc'[cur] = pc[cur]
        BY <1>1, <1>2, <1>3, <2>2
    <3> QED
        BY <1>1, <1>3, <1>6, <1>7, <2>2, <3>1, SleepKept
  <2> QED
      BY <2>1, <2>2
<1> QED
    BY <1>4, <1>6, <1>7, <1>8, <1>9, <1>10 DEF Inv

LEMMA EditCounts ==
    ASSUME Inv, NEW g \in Services, Edit(g)
    PROVE  edits' \in 0 .. MaxEdits
BY CronAssumption DEF Edit, Inv, TypeOK

LEMMA AddJobKeeps ==
    ASSUME Inv, NEW g \in Services, AddJob(g)
    PROVE  Inv'
<1>1. edits' \in 0 .. MaxEdits
    BY EditCounts DEF AddJob
<1>2. added' \in 0 .. MaxJobs /\ added' \in Jobs
    BY CronAssumption DEF AddJob, Jobs, Inv, TypeOK
<1>3. PICK s \in Schedules : mem' = [mem EXCEPT ![g][added'] = Job(s, NextRun(s, now))]
    BY DEF AddJob
<1> DEFINE n == NextRun(s, now)
           b == Job(s, n)
<1>4. n \in Nat /\ (n = NoTime \/ n > now)
    BY InvTypes, NextRunIsLater
<1>5. mem' = [mem EXCEPT ![g][added'] = b]
    BY <1>3
<1> HIDE DEF n
<1>6. b = [enabled |-> TRUE, schedule |-> s, next |-> n]
    BY DEF Job
<1> HIDE DEF b
<1>7. b \in StoredJob /\ b.next = n
    BY <1>4, <1>6, StoredJobs
<1>8. /\ disk' \in {mem'[g], disk}
      /\ Notify(g) \/ Untold(g)
      /\ UNCHANGED <<now, cur, running, due, copy, fired, twice, restored>>
    BY DEF AddJob, ghost
<1>9. restored' \subseteq fired /\ restored \subseteq restored'
    BY <1>8 DEF Inv, TypeOK
<1> QED
    BY <1>1, <1>2, <1>4, <1>5, <1>7, <1>8, <1>9, EditKeeps

LEMMA EnableJobKeeps ==
    ASSUME Inv, NEW g \in Services, EnableJob(g)
    PROVE  Inv'
<1>1. edits' \in 0 .. MaxEdits
    BY EditCounts DEF EnableJob
<1>2. now \in Nat /\ mem \in [Services -> [Jobs -> StoredJob]]
    BY <1>1, InvTypes
<1>3. PICK j \in Present(mem[g]), on \in BOOLEAN :
          mem' = [mem EXCEPT ![g][j].enabled = on,
                             ![g][j].next =
                                 IF on THEN NextRun(mem[g][j].schedule, now) ELSE NoTime]
    BY DEF EnableJob
<1> DEFINE s == mem[g][j].schedule
           n == IF on THEN NextRun(s, now) ELSE NoTime
           b == [enabled |-> on, schedule |-> s, next |-> n]
<1>4. j \in Jobs /\ mem[g][j] \in [enabled : BOOLEAN, schedule : Schedules, next : Nat]
    BY <1>2, StoredTypes
<1>5. n \in Nat /\ (n = NoTime \/ n > now)
    BY <1>2, <1>4, NextRunIsLater DEF NoTime
<1>6. mem' = [mem EXCEPT ![g][j].enabled = on, ![g][j].next = n]
    BY <1>3
<1> HIDE DEF n
<1>7. mem' = [mem EXCEPT ![g][j] = b]
  <2> DEFINE c == [enabled |-> on, schedule |-> s, next |-> mem[g][j].next]
             m == [mem EXCEPT ![g][j] = c]
  <2>1. c \in StoredJob
      BY <1>4, StoredJobs
  <2>2. [mem[g][j] EXCEPT !.enabled = on] = c
      BY <1>4
  <2>3. [mem EXCEPT ![g][j].enabled = on] = m
      BY <2>2
  <2>4. mem' = [m EXCEPT ![g][j].next = n]
      BY <1>6, <2>3
  <2>5. [c EXCEPT !.next = n] = b
      OBVIOUS
  <2> HIDE DEF b, c
  <2>6. m \in [Services -> [Jobs -> StoredJob]] /\ m[g][j] = c
      BY <1>2, <1>4, <2>1
  <2>7. mem' = [m EXCEPT ![g][j] = b]
      BY <2>4, <2>5, <2>6
  <2> QED
      BY <1>2, <1>4, <2>7
<1>8. b \in StoredJob /\ b.next = n
    BY <1>4, <1>5, StoredJobs
<1> HIDE DEF b
<1>9. /\ disk' \in {mem'[g], disk} /\ Notify(g)
      /\ UNCHANGED <<now, cur, running, due, copy, added, fired, twice, restored>>
    BY DEF EnableJob, Save, ghost
<1>10. restored' \subseteq fired /\ restored \subseteq restored' /\ added' \in 0 .. MaxJobs
    BY <1>9 DEF Inv, TypeOK
<1> QED
    BY <1>1, <1>4, <1>5, <1>7, <1>8, <1>9, <1>10, EditKeeps

LEMMA RemoveJobKeeps ==
    ASSUME Inv, NEW g \in Services, RemoveJob(g)
    PROVE  Inv'
<1>1. edits' \in 0 .. MaxEdits
    BY EditCounts DEF RemoveJob
<1>2. PICK j \in Present(mem[g]) : mem' = [mem EXCEPT ![g][j] = Absent]
    BY DEF RemoveJob
<1>3. j \in Jobs
    BY DEF Present
<1>4. /\ disk' \in {mem'[g], disk} /\ Notify(g)
      /\ UNCHANGED <<now, cur, running, due, copy, added, fired, twice, restored>>
    BY DEF RemoveJob, Save, ghost
<1>5. restored' \subseteq fired /\ restored \subseteq restored' /\ added' \in 0 .. MaxJobs
    BY <1>4 DEF Inv, TypeOK
<1> QED
    BY <1>1, <1>2, <1>3, <1>4, <1>5, SchedulesAreKinds, EditKeeps

LEMMA GetJobKeeps ==
    ASSUME Inv, NEW g \in Services, GetJob(g)
    PROVE  Inv'
<1>1. edits' \in 0 .. MaxEdits
    BY EditCounts DEF GetJob
<1>2. PICK j \in Present(mem[g]) : copy' = [service |-> g, id |-> j, job |-> mem[g][j]]
    BY DEF GetJob
<1>3. UNCHANGED <<now, mem, disk, cur, running, pc, timer, due, added, missed>>
      /\ UNCHANGED <<fired, twice, restored>>
    BY DEF GetJob, loop, ghost
<1>4. j \in Jobs /\ mem[g][j] \in StoredJob \ {Absent}
    BY <1>1, InvTypes DEF Present
<1>5. StoredInv' /\ ServiceInv' /\ NoDoubleRun' /\ Serving' = Serving
    BY <1>2, <1>3, <1>4 DEF Inv, StoredInv, ServiceInv, NoDoubleRun, Serving
<1>6. mem[g][j] \in JobType
    BY <1>4, SchedulesAreKinds DEF StoredJob, JobType
<1>7. copy' \in CopyType
    BY <1>2, <1>4, <1>6, CronAssumption DEF Jobs, Services
<1>8. TypeOK'
    BY <1>1, <1>3, <1>7 DEF Inv, TypeOK
<1>9. FiredInv'
    BY <1>3, <1>8, InvTypes, FiredKept
<1>10. PlanInv'
    BY <1>3, <1>5, PlanKept
<1>11. SleepInv'
    BY <1>3, <1>5, <1>8, InvTypes, SleepKept
<1> QED
    BY <1>5, <1>8, <1>9, <1>10, <1>11 DEF Inv

LEMMA UpdateJobKeeps ==
    ASSUME Inv, NEW g \in Services, UpdateJob(g)
    PROVE  Inv'
<1>1. /\ copy # NoCopy /\ copy' = NoCopy
      /\ UNCHANGED <<now, cur, running, due, added, edits, fired, twice>>
  <2>1. copy.service = g /\ copy' = NoCopy
        /\ UNCHANGED <<now, cur, running, due, added, edits, fired, twice>>
      BY DEF UpdateJob
  <2>2. NoCopy.service = 0 /\ g # 0
      BY CronAssumption DEF NoCopy, Services
  <2> QED
      BY <2>1, <2>2
<1>2. /\ now \in Nat /\ mem \in [Services -> [Jobs -> StoredJob]]
      /\ copy.id \in Jobs
      /\ copy.job \in [enabled : BOOLEAN, schedule : Schedules, next : Nat]
    BY <1>1, InvTypes DEF Inv, StoredInv, StoredJob
<1> DEFINE j == copy.id
<1>3. CASE mem[g][j] = Absent
  <2>1. UNCHANGED <<mem, disk, pc, timer, missed, restored>>
      BY <1>3 DEF UpdateJob
  <2>2. StoredInv' /\ ServiceInv' /\ NoDoubleRun' /\ Serving' = Serving
      BY <1>1, <2>1 DEF Inv, StoredInv, ServiceInv, NoDoubleRun, Serving
  <2>3. NoCopy \in CopyType
      BY SchedulesAreKinds, CronAssumption DEF NoCopy
  <2>4. TypeOK'
      BY <1>1, <2>1, <2>3 DEF Inv, TypeOK
  <2>5. FiredInv'
      BY <1>1, <1>2, <2>4, FiredKept
  <2>6. PlanInv'
      BY <1>1, <2>1, <2>2, PlanKept
  <2>7. SleepInv'
      BY <1>1, <1>2, <2>1, <2>2, <2>4, SleepKept
  <2> QED
      BY <2>2, <2>4, <2>5, <2>6, <2>7 DEF Inv
<1>4. CASE mem[g][j] # Absent
  <2> DEFINE upd(s) == [copy.job EXCEPT !.schedule = s]
             old == mem[g][j]
             T(s) == IF ~upd(s).enabled THEN NoTime
                     ELSE IF old.enabled /\ old.schedule = s THEN upd(s).next
                     ELSE NextRun(s, now)
  <2>1. PICK s \in Schedules \cup {copy.job.schedule} :
            /\ mem' = [mem EXCEPT ![g][j] = [upd(s) EXCEPT !.next = T(s)]]
            /\ restored' = IF running[g] THEN restored \cup ({<<j, T(s)>>} \cap fired)
                           ELSE restored
      BY <1>4 DEF UpdateJob
  <2>2. Notify(g) /\ disk' \in {mem'[g], disk}
      BY <1>4 DEF UpdateJob, Save
  <2>3. s \in Schedules
      BY <1>2, <2>1
  <2>4. upd(s) = [enabled |-> copy.job.enabled, schedule |-> s, next |-> copy.job.next]
      BY <1>2, <2>3
  <2>5. NextRun(s, now) \in Nat
      BY <1>2, <2>3, NextRunIsLater
  <2>6. T(s) \in Nat
      BY <1>2, <2>4, <2>5 DEF NoTime
  <2> DEFINE t == T(s)
             b == [upd(s) EXCEPT !.next = t]
  <2>7. /\ t \in Nat /\ mem' = [mem EXCEPT ![g][j] = b]
        /\ restored' = IF running[g] THEN restored \cup ({<<j, t>>} \cap fired) ELSE restored
      BY <2>1, <2>6
  <2> HIDE DEF t
  <2>8. b = [enabled |-> copy.job.enabled, schedule |-> s, next |-> t]
    <3> DEFINE u == upd(s)
    <3>1. u = [enabled |-> copy.job.enabled, schedule |-> s, next |-> copy.job.next]
        BY <2>4
    <3>2. b = [u EXCEPT !.next = t]
        OBVIOUS
    <3> HIDE DEF u, b
    <3> QED
        BY <3>1, <3>2
  <2> HIDE DEF b
  <2>9. b \in StoredJob /\ b.next = t
      BY <1>2, <2>3, <2>7, <2>8, StoredJobs
  <2>10. /\ restored' \subseteq fired /\ restored \subseteq restored'
         /\ running[g] => (<<j, b.next>> \in fired => <<j, b.next>> \in restored')
         /\ added' \in 0 .. MaxJobs /\ edits' \in 0 .. MaxEdits
      BY <1>1, <2>7, <2>9 DEF Inv, TypeOK
  <2> HIDE DEF j
  <2>11. j \in Jobs
      BY <1>2 DEF j
  <2> QED
      BY <1>1, <2>2, <2>7, <2>9, <2>10, <2>11, EditKeeps
<1> QED
    BY <1>3, <1>4

LEMMA TickKeeps ==
    ASSUME Inv, Tick
    PROVE  Inv'
<1>1. /\ now < MaxTime /\ now' = now + 1
      /\ UNCHANGED <<mem, disk, cur, running, pc, timer, due, copy, added, edits, missed>>
      /\ UNCHANGED <<fired, twice, restored>>
    BY DEF Tick, loop, client, ghost
<1>2. now' \in Times /\ now \in Nat /\ now' >= now
    BY <1>1, CronAssumption DEF Inv, TypeOK, Times
<1>3. StoredInv' /\ ServiceInv' /\ NoDoubleRun' /\ Serving' = Serving
    BY <1>1 DEF Inv, StoredInv, ServiceInv, NoDoubleRun, Serving
<1>4. TypeOK'
    BY <1>1, <1>2 DEF Inv, TypeOK
<1>5. FiredInv'
    BY <1>1, <1>2, <1>4, FiredKept
<1>6. PlanInv'
    BY <1>1, <1>3, PlanKept
<1>7. SleepInv'
    BY <1>1, <1>2, <1>3, <1>4, SleepKept
<1> QED
    BY <1>3, <1>4, <1>5, <1>6, <1>7 DEF Inv

LEMMA StutterKeeps ==
    ASSUME Inv, UNCHANGED vars
    PROVE  Inv'
<1>1. /\ UNCHANGED <<now, mem, disk, cur, running, pc, timer, due, copy, added, edits>>
      /\ UNCHANGED <<missed, fired, twice, restored>>
    BY DEF vars, loop, client, ghost
<1>2. TypeOK' /\ StoredInv' /\ ServiceInv' /\ NoDoubleRun' /\ Serving' = Serving
    BY <1>1 DEF Inv, TypeOK, StoredInv, ServiceInv, NoDoubleRun, Serving
<1>3. FiredInv' /\ PlanInv' /\ SleepInv'
    BY <1>1, <1>2, InvTypes, FiredKept, PlanKept, SleepKept
<1> QED
    BY <1>2, <1>3 DEF Inv

-----------------------------------------------------------------------------
(* The theorems.                                                           *)

LEMMA InitHolds == Init => Inv
<1> SUFFICES ASSUME Init
             PROVE  Inv
    OBVIOUS
<1>1. Empty \in [Jobs -> StoredJob] /\ Empty \in [Jobs -> JobType]
    BY SchedulesAreKinds DEF Empty
<1>2. NoCopy \in CopyType
    BY SchedulesAreKinds, CronAssumption DEF NoCopy
<1>3. TypeOK
  <2>1. now \in Times /\ cur \in 0 .. MaxServices /\ added \in 0 .. MaxJobs
        /\ edits \in 0 .. MaxEdits /\ missed \in BOOLEAN
    <3>1. MaxTime \in Nat \ {0} /\ MaxServices \in Nat /\ MaxJobs \in Nat /\ MaxEdits \in Nat
        BY CronAssumption
    <3>2. now = 1 /\ cur = 0 /\ added = 0 /\ edits = 0 /\ missed = FALSE
        BY DEF Init
    <3>3. now \in Times /\ cur \in 0 .. MaxServices
        BY <3>1, <3>2 DEF Times
    <3>4. added \in 0 .. MaxJobs /\ edits \in 0 .. MaxEdits
        BY <3>1, <3>2
    <3> QED
        BY <3>2, <3>3, <3>4
  <2>2. disk \in [Jobs -> JobType] /\ mem \in [Services -> [Jobs -> JobType]]
        /\ copy \in CopyType
      BY <1>1, <1>2 DEF Init
  <2>3. /\ running \in [Services -> BOOLEAN] /\ timer \in [Services -> Nat]
        /\ pc \in [Services -> PcNames]
        /\ due \in [Services -> SUBSET Jobs]
        /\ \A g \in Services : pc[g] \in {"exec", "call"} <=> due[g] # {}
      BY DEF Init, NoTime
  <2>4. fired \subseteq Jobs \X Nat /\ restored \subseteq fired /\ twice \subseteq fired
      BY DEF Init
  <2> QED
      BY <2>1, <2>2, <2>3, <2>4 DEF TypeOK
<1>4. StoredInv /\ ServiceInv /\ FiredInv /\ NoDoubleRun
    BY <1>1 DEF Init, StoredInv, ServiceInv, FiredInv, NoDoubleRun
<1>5. PlanInv /\ SleepInv
    BY DEF Init, Serving, PlanInv, SleepInv
<1> QED
    BY <1>3, <1>4, <1>5 DEF Inv

LEMMA StepKeeps == Inv /\ [Next]_vars => Inv'
<1> SUFFICES ASSUME Inv, [Next]_vars
             PROVE  Inv'
    OBVIOUS
<1>1. ASSUME NEW g \in Services, LoopStep(g)
      PROVE  Inv'
    BY <1>1, ReadWakeKeeps, SleepKeeps, SeeStopKeeps, CheckJobsKeeps, ExecuteKeeps,
       ExecutedKeeps DEF LoopStep
<1>2. CASE StartService \/ StopService \/ Crash
    BY <1>2, StartServiceKeeps, StopServiceKeeps, CrashKeeps
<1>3. ASSUME NEW g \in Services, Call(g)
      PROVE  Inv'
    BY <1>3, AddJobKeeps, GetJobKeeps, UpdateJobKeeps, EnableJobKeeps, RemoveJobKeeps
       DEF Call
<1>4. CASE Tick \/ UNCHANGED vars
    BY <1>4, TickKeeps, StutterKeeps
<1> QED
    BY <1>1, <1>2, <1>3, <1>4 DEF Next

LEMMA InvHolds == Spec => []Inv
<1> QED
    BY InitHolds, StepKeeps, PTL DEF Spec

\* Whatever the schedules and however many services follow each other, the variables
\* keep their types: a loop executes just while it has due jobs (service.go 172-212).
THEOREM TypeCorrect == Spec => []TypeOK
<1>1. Inv => TypeOK
    BY DEF Inv
<1> QED
    BY <1>1, InvHolds, PTL

\* checkJobs takes no due time of a job twice, whatever is stopped, reloaded, lost or
\* not saved in between, and while a stopped service still runs its list; but for a due
\* time that UpdateJob stored from an older copy (service.go 190-204, 463-503).
THEOREM NoJobTwice == Spec => []NoDoubleRun
<1>1. Inv => NoDoubleRun
    BY DEF Inv
<1> QED
    BY <1>1, InvHolds, PTL

\* runLoop sleeps past no planned job, unless the wake-up for a change was lost: every
\* operation that changes the plan tells the loop (service.go 133-165, 337-344).
THEOREM NeverOversleeps == Spec => []NoOversleep
<1>1. Inv => NoOversleep
  <2> SUFFICES ASSUME Inv, ~missed, Serving, pc[cur] = "select", NEW j \in Planned(mem[cur])
               PROVE  timer[cur] <= Max({now, mem[cur][j].next})
      BY DEF NoOversleep, Serving
  <2>1. timer[cur] <= now \/ timer[cur] <= mem[cur][j].next
      BY DEF Inv, SleepInv
  <2>2. timer[cur] \in Nat /\ now \in Nat /\ mem[cur][j].next \in Nat
      BY InvTypes, StoredTypes DEF Inv, TypeOK
  <2> QED
      BY <2>1, <2>2, MaxOfTwo
<1> QED
    BY <1>1, InvHolds, PTL

-----------------------------------------------------------------------------
(* SessionLog.                                                             *)

\* A history in the order in which it was sent, by the time n messages were.
InOrder(h, n) ==
    /\ \A i, j \in DOMAIN h : i < j => h[i] < h[j]
    /\ \A i \in DOMAIN h : h[i] <= n

\* The lines that parse are in order, as is what is held or about to be written.
OrderInv ==
    /\ \A p, q \in Readable(lines) : p < q => lines[p] < lines[q]
    /\ \A p \in Readable(lines) : lines[p] <= sent
    /\ InOrder(held, sent) /\ InOrder(arg, sent)

\* What is known of the files between the two writes of an operation.
WriteInv ==
    /\ unterminated => lines # <<>>
    /\ op = "add" => sent > 0
    /\ op \in {"set", "compact"} => skip = 0
    /\ op = "set" => arg \in Histories(held)
    /\ op = "compact" => arg = ReadMessages(before)

LogInv == LogTypeOK /\ OrderInv /\ WriteInv

-----------------------------------------------------------------------------
(* The places of the lines of a file.                                      *)

Line == Messages \cup {Corrupt}

\* How many of the places P come up to p.
Rank(P, p) == Cardinality({q \in P : q <= p})

LEMMA PlacesAreFinite ==
    ASSUME NEW n \in Nat, NEW P \in SUBSET (1 .. n)
    PROVE  /\ IsFiniteSet(P) /\ Cardinality(P) \in Nat /\ Cardinality(P) <= n
           /\ \A p \in P : p \in Nat /\ 1 <= p /\ p <= n
<1>1. IsFiniteSet(1 .. n) /\ Cardinality(1 .. n) = n
    BY FS_Interval
<1>2. IsFiniteSet(P) /\ Cardinality(P) <= n
    BY <1>1, FS_Subset
<1>3. Cardinality(P) \in Nat
    BY <1>2, FS_CardinalityType
<1> QED
    BY <1>2, <1>3

LEMMA RankInNat ==
    ASSUME NEW n \in Nat, NEW P \in SUBSET (1 .. n), NEW p \in Nat
    PROVE  Rank(P, p) \in Nat /\ Rank(P, p) <= Cardinality(P)
<1>1. {q \in P : q <= p} \in SUBSET P
    OBVIOUS
<1> QED
    BY <1>1, PlacesAreFinite, FS_Subset, FS_CardinalityType DEF Rank

\* The rank grows by one at each place.
LEMMA RankStep ==
    ASSUME NEW n \in Nat, NEW P \in SUBSET (1 .. n), NEW p \in Nat \ {0}
    PROVE  Rank(P, p) = IF p \in P THEN Rank(P, p - 1) + 1 ELSE Rank(P, p - 1)
<1> DEFINE L == {q \in P : q <= p - 1}
<1>1. L \in SUBSET P /\ IsFiniteSet(L)
    BY PlacesAreFinite, FS_Subset
<1>2. {q \in P : q <= p} = IF p \in P THEN L \cup {p} ELSE L
  <2>1. \A q \in P : q \in Nat
      OBVIOUS
  <2>2. \A q \in P : q <= p <=> q <= p - 1 \/ q = p
      BY <2>1
  <2> QED
      BY <2>2
<1>3. p \notin L
    OBVIOUS
<1> HIDE DEF L
<1>4. Rank(P, p) = IF p \in P THEN Cardinality(L) + 1 ELSE Cardinality(L)
    BY <1>1, <1>2, <1>3, FS_AddElement DEF Rank
<1> QED
    BY <1>4 DEF Rank, L

LEMMA RankMonotone ==
    ASSUME NEW n \in Nat, NEW P \in SUBSET (1 .. n), NEW p \in Nat, NEW q \in P, p < q
    PROVE  Rank(P, p) < Rank(P, q)
<1> DEFINE A == {r \in P : r <= p}
           B == {r \in P : r <= q}
<1>1. B \in SUBSET P /\ A \in SUBSET B /\ q \in B /\ q \notin A
  <2>1. \A r \in P : r \in Nat
      OBVIOUS
  <2>2. ~(q <= p) /\ q <= q /\ \A r \in P : r <= p => r <= q
      BY <2>1
  <2> QED
      BY <2>2
<1>2. IsFiniteSet(B)
    BY <1>1, PlacesAreFinite, FS_Subset
<1>3. Cardinality(A) <= Cardinality(B) /\ Cardinality(A) # Cardinality(B)
    BY <1>1, <1>2, FS_Subset
<1>4. Cardinality(A) \in Nat /\ Cardinality(B) \in Nat
    BY <1>1, <1>2, FS_Subset, FS_CardinalityType
<1> HIDE DEF A, B
<1>5. Cardinality(A) < Cardinality(B)
    BY <1>3, <1>4
<1> QED
    BY <1>5 DEF Rank, A, B

LEMMA NthIsUnique ==
    ASSUME NEW n \in Nat, NEW P \in SUBSET (1 .. n), NEW p \in P
    PROVE  Nth(P, Rank(P, p)) = p
<1> DEFINE r == Nth(P, Rank(P, p))
<1>1. r \in P /\ Rank(P, r) = Rank(P, p)
    BY DEF Nth, Rank
<1> HIDE DEF r
<1>2. r \in Nat /\ p \in Nat
    BY <1>1, PlacesAreFinite
<1>5. Rank(P, p) \in Nat
    BY <1>2, RankInNat
<1>3. ~(r < p) /\ ~(p < r)
    BY <1>1, <1>2, <1>5, RankMonotone
<1>4. r = p
    BY <1>2, <1>3
<1> QED
    BY <1>4 DEF r

\* As many places have a rank as there are places: the least number up to which i of
\* them come is the i-th.
LEMMA NthExists ==
    ASSUME NEW n \in Nat, NEW P \in SUBSET (1 .. n), NEW i \in 1 .. Cardinality(P)
    PROVE  Nth(P, i) \in P /\ Rank(P, Nth(P, i)) = i
<1> DEFINE S == {m \in Nat : Rank(P, m) >= i}
<1>1. \A m \in Nat : Rank(P, m) \in Nat
    BY RankInNat
<1>2. {q \in P : q <= n} = P /\ {q \in P : q <= 0} = {}
  <2>1. \A q \in P : q <= n /\ ~(q <= 0)
      BY PlacesAreFinite
  <2> QED
      BY <2>1
<1>3. Rank(P, n) = Cardinality(P) /\ Rank(P, 0) = 0
    BY <1>2, FS_EmptySet DEF Rank
<1>4. n \in S
    BY <1>3
<1>5. S \in SUBSET Nat
    OBVIOUS
<1>6. PICK m \in S : \A y \in S : m <= y
    BY <1>4, <1>5, MinIsLeast
<1>7. m \in Nat \ {0} /\ Rank(P, m) >= i
    BY <1>3, <1>6
<1>8. Rank(P, m - 1) < i
  <2>1. m - 1 \in Nat /\ ~(m <= m - 1)
      BY <1>7
  <2>2. m - 1 \notin S
      BY <1>6, <2>1
  <2> QED
      BY <2>1, <2>2, <1>1
<1>9. m \in P /\ Rank(P, m) = i
  <2>1. Rank(P, m) = IF m \in P THEN Rank(P, m - 1) + 1 ELSE Rank(P, m - 1)
      BY <1>7, RankStep
  <2>2. Rank(P, m) \in Nat /\ Rank(P, m - 1) \in Nat
      BY <1>7, <1>1
  <2> QED
      BY <2>1, <2>2, <1>7, <1>8
<1>10. Nth(P, i) = m
    BY <1>9, NthIsUnique
<1> QED
    BY <1>9, <1>10

\* A place added after the others is the last.
LEMMA NthAfterAdding ==
    ASSUME NEW n \in Nat, NEW P \in SUBSET (1 .. n)
    PROVE  /\ Cardinality(P \cup {n + 1}) = Cardinality(P) + 1
           /\ \A i \in 1 .. Cardinality(P) : Nth(P \cup {n + 1}, i) = Nth(P, i)
           /\ Nth(P \cup {n + 1}, Cardinality(P) + 1) = n + 1
<1> DEFINE Q == P \cup {n + 1}
<1>1. Q \in SUBSET (1 .. n + 1) /\ n + 1 \notin P /\ n + 1 \in Q
    OBVIOUS
<1>2. Cardinality(Q) = Cardinality(P) + 1
    BY <1>1, PlacesAreFinite, FS_AddElement
<1>3. \A p \in P : {q \in Q : q <= p} = {q \in P : q <= p}
    BY PlacesAreFinite
<1>4. {q \in Q : q <= n + 1} = Q
  <2>1. \A q \in Q : q <= n + 1
      BY PlacesAreFinite
  <2> QED
      BY <2>1
<1> HIDE DEF Q
<1>5. Rank(Q, n + 1) = Cardinality(P) + 1
    BY <1>2, <1>4 DEF Rank
<1>6. Nth(Q, Cardinality(P) + 1) = n + 1
    BY <1>1, <1>5, NthIsUnique
<1>7. ASSUME NEW p \in P
      PROVE  Nth(Q, Rank(P, p)) = p
  <2>1. Rank(Q, p) = Rank(P, p)
      BY <1>3 DEF Rank
  <2>2. p \in Q
      BY DEF Q
  <2>3. Nth(Q, Rank(Q, p)) = p
      BY <2>2, <1>1, NthIsUnique
  <2> QED
      BY <2>1, <2>3
<1>8. \A i \in 1 .. Cardinality(P) : Nth(Q, i) = Nth(P, i)
    BY <1>7, NthExists
<1> QED
    BY <1>2, <1>6, <1>8 DEF Q

-----------------------------------------------------------------------------
(* The messages of the lines that parse.                                   *)

\* A property of numbers that is not true of all has a least exception.
LEMMA NaturalInduction ==
    ASSUME NEW P \in [Nat -> BOOLEAN], P[0], \A n \in Nat : P[n] => P[n + 1]
    PROVE  \A n \in Nat : P[n]
<1> DEFINE S == {n \in Nat : ~P[n]}
<1> SUFFICES ASSUME S # {} PROVE FALSE
    OBVIOUS
<1>1. S \in SUBSET Nat
    OBVIOUS
<1>2. PICK n \in S : \A m \in S : n <= m
  <2> HIDE DEF S
  <2> QED
      BY <1>1, MinIsLeast
<1>3. n \in Nat /\ n # 0
    BY <1>2
<1>4. n - 1 \in Nat /\ n - 1 \notin S
    BY <1>2, <1>3
<1>5. P[n - 1]
    BY <1>4
<1>6. P[n - 1 + 1] /\ n - 1 + 1 = n
    BY <1>3, <1>4, <1>5
<1> QED
    BY <1>2, <1>6

LEMMA ReadablePlaces ==
    ASSUME NEW s \in Seq(Line)
    PROVE  /\ Readable(s) \in SUBSET (1 .. Len(s)) /\ Len(s) \in Nat
           /\ Cardinality(Readable(s)) \in Nat
           /\ \A p \in Readable(s) : s[p] \in Messages
<1>1. Readable(s) \in SUBSET (1 .. Len(s)) /\ Len(s) \in Nat
    BY DEF Readable
<1>2. Cardinality(Readable(s)) \in Nat
    BY <1>1, PlacesAreFinite
<1>3. \A p \in Readable(s) : s[p] \in Messages
    BY <1>1 DEF Readable, Line
<1> QED
    BY <1>1, <1>2, <1>3

LEMMA RetainedProperties ==
    ASSUME NEW s \in Seq(Line)
    PROVE  /\ Retained(s) \in Seq(Messages)
           /\ Len(Retained(s)) = Cardinality(Readable(s))
           /\ \A i \in 1 .. Cardinality(Readable(s)) :
                 /\ Nth(Readable(s), i) \in Readable(s)
                 /\ Rank(Readable(s), Nth(Readable(s), i)) = i
                 /\ Retained(s)[i] = s[Nth(Readable(s), i)]
<1> DEFINE P == Readable(s)
<1>1. P \in SUBSET (1 .. Len(s)) /\ Len(s) \in Nat /\ Cardinality(P) \in Nat
    BY ReadablePlaces
<1> HIDE DEF P
<1>2. \A i \in 1 .. Cardinality(P) : Nth(P, i) \in P /\ Rank(P, Nth(P, i)) = i
    BY <1>1, NthExists
<1>3. \A i \in 1 .. Cardinality(P) : s[Nth(P, i)] \in Messages
    BY <1>2, ReadablePlaces DEF P
<1>4. Retained(s) = [i \in 1 .. Cardinality(P) |-> s[Nth(P, i)]]
    BY DEF Retained, P
<1>5. Retained(s) \in Seq(Messages) /\ Len(Retained(s)) = Cardinality(P)
    BY <1>1, <1>3, <1>4
<1> QED
    BY <1>2, <1>4, <1>5 DEF P

LEMMA RetainedEmpty == Retained(<<>>) = <<>>
<1>1. Readable(<<>>) = {}
    BY DEF Readable
<1>2. Cardinality(Readable(<<>>)) = 0
    BY <1>1, FS_EmptySet
<1>3. <<>> \in Seq(Line)
    OBVIOUS
<1>4. Retained(<<>>) \in Seq(Messages) /\ Len(Retained(<<>>)) = 0
    BY <1>2, <1>3, RetainedProperties
<1> QED
    BY <1>4

\* A line that parses adds its message at the end, another one nothing.
LEMMA RetainedAppend ==
    ASSUME NEW s \in Seq(Line), NEW l \in Line
    PROVE  Retained(Append(s, l)) =
              IF l = Corrupt THEN Retained(s) ELSE Append(Retained(s), l)
<1> DEFINE P == Readable(s)
           t == Append(s, l)
           c == Cardinality(P)
<1>1. P \in SUBSET (1 .. Len(s)) /\ Len(s) \in Nat /\ c \in Nat
    BY ReadablePlaces
<1>2. t \in Seq(Line) /\ DOMAIN t = 1 .. Len(s) + 1 /\ t[Len(s) + 1] = l
      /\ \A p \in 1 .. Len(s) : t[p] = s[p]
    OBVIOUS
<1>3. Readable(t) = IF l = Corrupt THEN P ELSE P \cup {Len(s) + 1}
  <2> HIDE DEF t
  <2> QED
      BY <1>2 DEF Readable
<1>4. \A i \in 1 .. c : Nth(P, i) \in P /\ Retained(s)[i] = s[Nth(P, i)]
    BY RetainedProperties
<1>5. Retained(s) \in Seq(Messages) /\ Len(Retained(s)) = c
    BY RetainedProperties
<1>6. Retained(t) \in Seq(Messages) /\ Len(Retained(t)) = Cardinality(Readable(t))
    BY <1>2, RetainedProperties
<1>7. \A i \in 1 .. Cardinality(Readable(t)) : Retained(t)[i] = t[Nth(Readable(t), i)]
    BY <1>2, RetainedProperties
<1> HIDE DEF P, t, c
<1>8. CASE l = Corrupt
  <2>1. Len(Retained(t)) = c
      BY <1>3, <1>6, <1>8 DEF c
  <2>2. \A i \in 1 .. c : Retained(t)[i] = Retained(s)[i]
      BY <1>1, <1>2, <1>3, <1>4, <1>7, <1>8 DEF c
  <2>3. Retained(t) = Retained(s)
      BY <1>5, <1>6, <2>1, <2>2, SeqEqual
  <2> QED
      BY <2>3, <1>8 DEF t
<1>9. CASE l # Corrupt
  <2>1. /\ Cardinality(Readable(t)) = c + 1
        /\ \A i \in 1 .. c : Nth(Readable(t), i) = Nth(P, i)
        /\ Nth(Readable(t), c + 1) = Len(s) + 1
    <3>1. Readable(t) = P \cup {Len(s) + 1} /\ c = Cardinality(P)
        BY <1>3, <1>9 DEF c
    <3>2. /\ Cardinality(P \cup {Len(s) + 1}) = Cardinality(P) + 1
          /\ \A i \in 1 .. Cardinality(P) : Nth(P \cup {Len(s) + 1}, i) = Nth(P, i)
          /\ Nth(P \cup {Len(s) + 1}, Cardinality(P) + 1) = Len(s) + 1
        BY <1>1, NthAfterAdding
    <3> QED
        BY <3>1, <3>2
  <2>2. l \in Messages
      BY <1>9 DEF Line
  <2> DEFINE u == Append(Retained(s), l)
  <2>3. u \in Seq(Messages) /\ Len(u) = c + 1 /\ u[c + 1] = l
        /\ \A i \in 1 .. c : u[i] = Retained(s)[i]
      BY <1>1, <1>5, <2>2
  <2>4. ASSUME NEW i \in 1 .. c
        PROVE  Retained(t)[i] = Retained(s)[i]
    <3>1. i \in 1 .. Cardinality(Readable(t)) /\ Nth(Readable(t), i) = Nth(P, i)
        BY <1>1, <2>1
    <3>2. Retained(t)[i] = t[Nth(P, i)]
        BY <1>7, <3>1
    <3>3. Nth(P, i) \in 1 .. Len(s) /\ Retained(s)[i] = s[Nth(P, i)]
        BY <1>1, <1>4
    <3> QED
        BY <3>2, <3>3, <1>2
  <2>5. Retained(t)[c + 1] = l
      BY <1>1, <1>2, <1>7, <2>1
  <2> HIDE DEF u
  <2>6. Len(Retained(t)) = Len(u) /\ \A i \in 1 .. Len(Retained(t)) : Retained(t)[i] = u[i]
      BY <1>1, <1>6, <2>1, <2>3, <2>4, <2>5
  <2>7. Retained(t) = u
      BY <1>6, <2>3, <2>6, SeqEqual
  <2> QED
      BY <2>7, <1>9 DEF t, u
<1> QED
    BY <1>8, <1>9

LEMMA RetainedConcat ==
    ASSUME NEW s \in Seq(Line), NEW t \in Seq(Line)
    PROVE  Retained(s \o t) = Retained(s) \o Retained(t)
<1> DEFINE P == [n \in Nat |-> \A u \in Seq(Line) :
                    Len(u) = n => Retained(s \o u) = Retained(s) \o Retained(u)]
<1>1. P \in [Nat -> BOOLEAN]
    OBVIOUS
<1>2. P[0]
  <2>1. \A u \in Seq(Line) : Len(u) = 0 => u = <<>>
      OBVIOUS
  <2>2. s \o <<>> = s /\ Retained(s) \o <<>> = Retained(s)
      BY RetainedProperties, ConcatEmptySeq
  <2> QED
      BY <2>1, <2>2, RetainedEmpty
<1>3. ASSUME NEW n \in Nat, P[n]
      PROVE  P[n + 1]
  <2> SUFFICES ASSUME NEW u \in Seq(Line), Len(u) = n + 1
               PROVE  Retained(s \o u) = Retained(s) \o Retained(u)
      OBVIOUS
  <2>1. PICK v \in Seq(Line), l \in Line : u = Append(v, l)
      BY SMTT(20), SequenceEmptyOrAppend
  <2>2. Len(v) = n
      BY <2>1
  <2>3. Retained(s \o v) = Retained(s) \o Retained(v)
      BY <1>3, <2>2
  <2>4. s \o u = Append(s \o v, l) /\ s \o v \in Seq(Line)
      BY <2>1
  <2>5. Retained(s \o u) = IF l = Corrupt THEN Retained(s \o v)
                                          ELSE Append(Retained(s \o v), l)
      BY <2>4, RetainedAppend
  <2>6. Retained(u) = IF l = Corrupt THEN Retained(v) ELSE Append(Retained(v), l)
      BY <2>1, RetainedAppend
  <2>7. Retained(s) \in Seq(Messages) /\ Retained(v) \in Seq(Messages)
      BY RetainedProperties
  <2>8. l # Corrupt => l \in Messages
      BY DEF Line
  <2>9. l # Corrupt => Append(Retained(s) \o Retained(v), l) =
                       Retained(s) \o Append(Retained(v), l)
    <3> SUFFICES ASSUME l # Corrupt
                 PROVE  Append(Retained(s) \o Retained(v), l) =
                        Retained(s) \o Append(Retained(v), l)
        OBVIOUS
    <3>1. l \in Messages /\ <<l>> \in Seq(Messages)
        BY <2>8
    <3>2. Retained(s) \o Retained(v) \in Seq(Messages)
        BY <2>7
    <3>3. /\ Append(Retained(s) \o Retained(v), l) = (Retained(s) \o Retained(v)) \o <<l>>
          /\ Append(Retained(v), l) = Retained(v) \o <<l>>
        BY <2>7, <3>1, <3>2, AppendIsConcat
    <3>4. (Retained(s) \o Retained(v)) \o <<l>> = Retained(s) \o (Retained(v) \o <<l>>)
        BY ONLY SMTT(20), <2>7, <3>1, ConcatAssociative
    <3> QED
        BY ONLY <3>3, <3>4
  <2> QED
      BY <2>3, <2>5, <2>6, <2>9
<1> HIDE DEF P
<1>4. \A n \in Nat : P[n]
    BY <1>1, <1>2, <1>3, NaturalInduction
<1>5. P[Len(t)] /\ Len(t) \in Nat
    BY <1>4
<1> QED
    BY <1>5 DEF P

\* Where every line parses, nothing is lost.
LEMMA RetainedMessages ==
    ASSUME NEW h \in Seq(Messages)
    PROVE  Retained(h) = h
<1>1. h \in Seq(Line)
    BY DEF Line
<1>2. Readable(h) = 1 .. Len(h) /\ Len(h) \in Nat
  <2>1. \A p \in DOMAIN h : h[p] # Corrupt
    <3>1. \A p \in DOMAIN h : h[p] \in Messages
        OBVIOUS
    <3>2. Corrupt \notin Messages
        BY MaxMessagesAssumption DEF Messages, Corrupt
    <3> QED
        BY <3>1, <3>2
  <2> QED
      BY <2>1 DEF Readable
<1>3. \A i \in 1 .. Len(h) : {q \in 1 .. Len(h) : q <= i} = 1 .. i
    BY <1>2
<1>4. ASSUME NEW i \in 1 .. Len(h)
      PROVE  Rank(Readable(h), i) = i
  <2>1. Rank(Readable(h), i) = Cardinality(1 .. i)
      BY <1>2, <1>3 DEF Rank
  <2> QED
      BY <2>1, FS_Interval
<1>5. Cardinality(Readable(h)) = Len(h)
    BY SMTT(20), <1>2, FS_Interval
<1>6. \A i \in 1 .. Len(h) : Nth(Readable(h), i) = i
    BY <1>2, <1>4, NthIsUnique
<1>7. \A i \in 1 .. Len(h) : Retained(h)[i] = h[i]
    BY <1>1, <1>5, <1>6, RetainedProperties
<1>8. Retained(h) \in Seq(Messages) /\ Len(Retained(h)) = Len(h)
    BY <1>1, <1>5, RetainedProperties
<1> QED
    BY <1>7, <1>8, SeqEqual

\* A file read in two parts.
LEMMA RetainedSplit ==
    ASSUME NEW s \in Seq(Line), NEW k \in 0 .. Len(s)
    PROVE  /\ SubSeq(s, 1, k) \in Seq(Line) /\ SubSeq(s, k + 1, Len(s)) \in Seq(Line)
           /\ Retained(s) = Retained(SubSeq(s, 1, k)) \o Retained(SubSeq(s, k + 1, Len(s)))
<1>1. SubSeq(s, 1, k) \in Seq(Line) /\ SubSeq(s, k + 1, Len(s)) \in Seq(Line)
    OBVIOUS
<1>2. s = SubSeq(s, 1, k) \o SubSeq(s, k + 1, Len(s))
  <2>1. SubSeq(s, 1, k) \o SubSeq(s, k + 1, Len(s)) = SubSeq(s, 1, Len(s))
    <3>1. /\ 1 \in 1 .. Len(s) + 1 /\ k \in 1 - 1 .. Len(s) /\ Len(s) \in k .. Len(s)
        OBVIOUS
    <3> QED
        BY ONLY <3>1, s \in Seq(Line), ConcatAdjacentSubSeq
  <2> QED
      BY <2>1, SubSeqFull
<1> QED
    BY <1>1, <1>2, RetainedConcat

\* What follows place j, read up to place k and from there on; and what precedes k.
LEMMA RetainedTwoParts ==
    ASSUME NEW s \in Seq(Line), NEW k \in 0 .. Len(s), NEW j \in 0 .. k
    PROVE  /\ SubSeq(s, j + 1, k) \in Seq(Line)
           /\ Retained(SubSeq(s, j + 1, Len(s))) =
                 Retained(SubSeq(s, j + 1, k)) \o Retained(SubSeq(s, k + 1, Len(s)))
           /\ Retained(SubSeq(s, 1, k)) =
                 Retained(SubSeq(s, 1, j)) \o Retained(SubSeq(s, j + 1, k))
<1>1. /\ SubSeq(s, j + 1, k) \in Seq(Line)
      /\ SubSeq(s, 1, j) \in Seq(Line)
      /\ SubSeq(s, k + 1, Len(s)) \in Seq(Line)
    OBVIOUS
<1>2. SubSeq(s, j + 1, k) \o SubSeq(s, k + 1, Len(s)) = SubSeq(s, j + 1, Len(s))
  <2> DEFINE m == j + 1
  <2>1. m \in 1 .. Len(s) + 1 /\ k \in m - 1 .. Len(s) /\ Len(s) \in k .. Len(s)
      OBVIOUS
  <2> HIDE DEF m
  <2>2. SubSeq(s, m, k) \o SubSeq(s, k + 1, Len(s)) = SubSeq(s, m, Len(s))
      BY ONLY <2>1, s \in Seq(Line), ConcatAdjacentSubSeq
  <2> QED
      BY <2>2 DEF m
<1>3. SubSeq(s, 1, j) \o SubSeq(s, j + 1, k) = SubSeq(s, 1, k)
  <2>1. 1 \in 1 .. Len(s) + 1 /\ j \in 1 - 1 .. Len(s) /\ k \in j .. Len(s)
      OBVIOUS
  <2> QED
      BY ONLY <2>1, s \in Seq(Line), ConcatAdjacentSubSeq
<1> QED
    BY <1>1, <1>2, <1>3, RetainedConcat

\* A history is cut in two where its second part begins.
LEMMA PartsOfAHistory ==
    ASSUME NEW a \in Seq(Messages), NEW b \in Seq(Messages), NEW h, h = a \o b
    PROVE  /\ h \in Seq(Messages) /\ Len(h) = Len(a) + Len(b)
           /\ a = SubSeq(h, 1, Len(h) - Len(b))
           /\ b = SubSeq(h, Len(h) - Len(b) + 1, Len(h))
<1>1. h \in Seq(Messages) /\ Len(h) = Len(a) + Len(b) /\ Len(a) \in Nat /\ Len(b) \in Nat
      /\ Len(h) - Len(b) = Len(a)
    OBVIOUS
<1>2. /\ \A i \in 1 .. Len(a) : h[i] = a[i]
      /\ \A i \in 1 .. Len(b) : h[Len(a) + i] = b[i]
    OBVIOUS
<1>3. a = SubSeq(h, 1, Len(a))
  <2>1. SubSeq(h, 1, Len(a)) \in Seq(Messages) /\ Len(SubSeq(h, 1, Len(a))) = Len(a)
        /\ \A i \in 1 .. Len(a) : SubSeq(h, 1, Len(a))[i] = h[i]
      BY <1>1
  <2> QED
      BY <2>1, <1>2, SeqEqual
<1>4. b = SubSeq(h, Len(a) + 1, Len(h))
  <2> DEFINE u == SubSeq(h, Len(a) + 1, Len(h))
  <2>1. u \in Seq(Messages) /\ Len(u) = Len(b)
        /\ \A i \in 1 .. Len(b) : u[i] = h[Len(a) + i]
      BY <1>1
  <2> HIDE DEF u
  <2>2. \A i \in 1 .. Len(b) : u[i] = b[i]
      BY <1>2, <2>1
  <2>3. u = b
      BY <2>1, <2>2, SeqEqual
  <2> QED
      BY <2>3 DEF u
<1> QED
    BY <1>1, <1>3, <1>4

\* As many messages are read from a place on as lines after it parse.
LEMMA ActiveMessages ==
    ASSUME NEW s \in Seq(Line), NEW k \in 0 .. Len(s)
    PROVE  /\ Cardinality({p \in Readable(s) : p > k}) =
                 Len(Retained(SubSeq(s, k + 1, Len(s))))
           /\ Cardinality({p \in Readable(s) : p > k}) =
                 Cardinality(Readable(s)) - Rank(Readable(s), k)
<1> DEFINE P == Readable(s)
           u == SubSeq(s, 1, k)
           v == SubSeq(s, k + 1, Len(s))
           A == {p \in P : p <= k}
           B == {p \in P : p > k}
<1>1. P \in SUBSET (1 .. Len(s)) /\ Len(s) \in Nat /\ k \in Nat
    BY ReadablePlaces
<1>2. IsFiniteSet(P) /\ Cardinality(P) \in Nat
    BY <1>1, PlacesAreFinite
<1>3. A \in SUBSET P /\ B = P \ A /\ P \cap A = A
  <2>1. \A p \in P : p > k <=> ~(p <= k)
      BY <1>1
  <2> QED
      BY <2>1
<1> HIDE DEF P, A, B
<1>4. Cardinality(B) = Cardinality(P) - Cardinality(A)
  <2>1. Cardinality(P \ A) = Cardinality(P) - Cardinality(P \cap A)
      BY ONLY ZenonT(20), <1>2, FS_Difference
  <2> QED
      BY ONLY <1>3, <2>1
<1> USE DEF P, A, B
<1>5. u \in Seq(Line) /\ v \in Seq(Line) /\ Retained(s) = Retained(u) \o Retained(v)
    BY RetainedSplit
<1>6. Readable(u) = A
  <2>1. DOMAIN u = 1 .. k /\ \A p \in 1 .. k : u[p] = s[p]
      BY <1>1
  <2>2. \A p \in P : p <= k <=> p \in 1 .. k
      BY <1>1
  <2>3. DOMAIN s = 1 .. Len(s) /\ 1 .. k \subseteq 1 .. Len(s)
      BY <1>1
  <2> QED
      BY <2>1, <2>2, <2>3 DEF Readable
<1>7. /\ Retained(u) \in Seq(Messages) /\ Len(Retained(u)) = Cardinality(A)
      /\ Retained(v) \in Seq(Messages)
      /\ Len(Retained(s)) = Cardinality(P)
    BY <1>5, <1>6, RetainedProperties
<1> HIDE DEF P, A, B, u, v
<1>8. Len(Retained(s)) = Len(Retained(u)) + Len(Retained(v))
      /\ Len(Retained(u)) \in Nat /\ Len(Retained(v)) \in Nat
  <2> DEFINE a == Retained(u)
             b == Retained(v)
  <2>1. a \in Seq(Messages) /\ b \in Seq(Messages)
      BY <1>7
  <2>2. Retained(s) = a \o b
      BY <1>5
  <2> HIDE DEF a, b
  <2>3. Len(Retained(s)) = Len(a) + Len(b) /\ Len(a) \in Nat /\ Len(b) \in Nat
      BY <2>1, <2>2
  <2> QED
      BY <2>3 DEF a, b
<1>9. Cardinality(B) = Len(Retained(v))
    BY <1>4, <1>7, <1>8
<1> QED
    BY <1>4, <1>9 DEF A, B, P, v, Rank

\* TruncateHistory, however many lines do not parse: the offset is in the file, what is
\* read after it are the last k messages, and what it hides are the others.
LEMMA SkipForIsExact ==
    ASSUME lines \in Seq(Line), skip \in 0 .. Len(lines), NEW k \in Nat
    PROVE  LET h == ReadMessages(skip)
               n == IF k < Len(h) THEN k ELSE Len(h)
           IN  /\ h \in Seq(Messages)
               /\ SkipFor(k) \in skip .. Len(lines)
               /\ ReadMessages(SkipFor(k)) = SubSeq(h, Len(h) - n + 1, Len(h))
               /\ Retained(SubSeq(lines, skip + 1, SkipFor(k))) = SubSeq(h, 1, Len(h) - n)
<1> DEFINE h == ReadMessages(skip)
           n == IF k < Len(h) THEN k ELSE Len(h)
           P == Readable(lines)
           B == {q \in P : q > skip}
           p == SkipFor(k)
<1>1. P \in SUBSET (1 .. Len(lines)) /\ Len(lines) \in Nat /\ skip \in Nat
    BY ReadablePlaces
<1>2. B \in SUBSET (1 .. Len(lines))
    BY <1>1
<1>3. h \in Seq(Messages) /\ Len(h) \in Nat
  <2>1. SubSeq(lines, skip + 1, Len(lines)) \in Seq(Line)
      OBVIOUS
  <2>2. ReadMessages(skip) \in Seq(Messages)
      BY <2>1, RetainedProperties DEF ReadMessages
  <2> HIDE DEF h
  <2>3. h \in Seq(Messages)
      BY <2>2 DEF h
  <2> QED
      BY <2>3
<1>4. Cardinality(B) = Len(h)
    BY ActiveMessages DEF ReadMessages
<1>5. p = IF k = 0 \/ Len(h) = 0 THEN Len(lines)
          ELSE IF k < Len(h) THEN Nth(B, Len(h) - k) ELSE skip
    BY <1>4 DEF SkipFor
<1> HIDE DEF h, P, B, p
<1>6. p \in skip .. Len(lines) /\ Len(ReadMessages(p)) = n
  <2>1. CASE k = 0 \/ Len(h) = 0
    <3>1. p = Len(lines) /\ n = 0
        BY <1>3, <1>5, <2>1
    <3>2. SubSeq(lines, Len(lines) + 1, Len(lines)) = <<>>
        BY <1>1, SubSeqEmpty
    <3>3. ReadMessages(p) = <<>>
        BY <3>1, <3>2, RetainedEmpty DEF ReadMessages
    <3> QED
        BY <1>1, <3>1, <3>3
  <2>2. CASE ~(k = 0 \/ Len(h) = 0) /\ k < Len(h)
    <3>1. p = Nth(B, Len(h) - k) /\ n = k /\ Len(h) - k \in 1 .. Cardinality(B)
        BY <1>3, <1>4, <1>5, <2>2
    <3>2. p \in B /\ Rank(B, p) = Len(h) - k
        BY <1>1, <1>2, <3>1, NthExists
    <3>3. p \in P /\ p > skip /\ p \in skip .. Len(lines) /\ p \in 0 .. Len(lines)
        BY <1>1, <3>2 DEF B
    <3>4. Cardinality({q \in P : q > p}) = Len(ReadMessages(p))
        BY <3>3, ActiveMessages DEF ReadMessages, P
    <3>5. {q \in P : q > p} = B \ {q \in B : q <= p}
      <4>1. \A q \in P : q \in Nat
          BY <1>1
      <4>2. \A q \in P : q > p <=> q > skip /\ ~(q <= p)
          BY <1>1, <3>3, <4>1
      <4> QED
          BY <4>2 DEF B
    <3>6. IsFiniteSet(B)
        BY <1>1, <1>2, PlacesAreFinite
    <3>7. B \cap {q \in B : q <= p} = {q \in B : q <= p}
        OBVIOUS
    <3>8. Cardinality(B \ {q \in B : q <= p}) = Cardinality(B) - Rank(B, p)
        BY <3>6, <3>7, FS_Difference DEF Rank
    <3>9. Len(ReadMessages(p)) = Len(h) - (Len(h) - k)
        BY <1>4, <3>2, <3>4, <3>5, <3>8
    <3> QED
        BY <1>3, <3>1, <3>3, <3>9
  <2>3. CASE ~(k = 0 \/ Len(h) = 0) /\ ~(k < Len(h))
    <3>1. p = skip /\ n = Len(h)
        BY <1>5, <2>3
    <3> QED
        BY <3>1, <1>1 DEF h
  <2> QED
      BY <2>1, <2>2, <2>3
<1>7. /\ SubSeq(lines, skip + 1, p) \in Seq(Line)
      /\ h = Retained(SubSeq(lines, skip + 1, p)) \o ReadMessages(p)
  <2>1. p \in 0 .. Len(lines) /\ skip \in 0 .. p
      BY <1>1, <1>6
  <2> QED
      BY <2>1, RetainedTwoParts DEF ReadMessages, h
<1>8. /\ Retained(SubSeq(lines, skip + 1, p)) \in Seq(Messages)
      /\ ReadMessages(p) \in Seq(Messages)
  <2>1. SubSeq(lines, p + 1, Len(lines)) \in Seq(Line)
      BY <1>1, <1>6
  <2> QED
      BY <1>7, <2>1, RetainedProperties DEF ReadMessages
<1>9. /\ Retained(SubSeq(lines, skip + 1, p)) = SubSeq(h, 1, Len(h) - n)
      /\ ReadMessages(p) = SubSeq(h, Len(h) - n + 1, Len(h))
  <2> DEFINE b == ReadMessages(p)
  <2>1. b \in Seq(Messages) /\ h = Retained(SubSeq(lines, skip + 1, p)) \o b
      BY <1>7, <1>8
  <2>2. Len(b) = n
      BY <1>6
  <2> HIDE DEF b, n
  <2>3. /\ Retained(SubSeq(lines, skip + 1, p)) = SubSeq(h, 1, Len(h) - Len(b))
        /\ b = SubSeq(h, Len(h) - Len(b) + 1, Len(h))
      BY <2>1, <1>8, PartsOfAHistory
  <2>4. b = SubSeq(h, Len(h) - n + 1, Len(h))
      BY <2>2, <2>3
  <2> QED
      BY <2>2, <2>3, <2>4 DEF b
<1> QED
    BY <1>3, <1>6, <1>9 DEF h, p

-----------------------------------------------------------------------------
(* Histories in order.                                                     *)

LEMMA RetainedInOrder ==
    ASSUME NEW s \in Seq(Line), NEW n,
           \A p, q \in Readable(s) : p < q => s[p] < s[q],
           \A p \in Readable(s) : s[p] <= n
    PROVE  InOrder(Retained(s), n)
<1> DEFINE P == Readable(s)
           c == Cardinality(P)
           h == Retained(s)
<1>1. P \in SUBSET (1 .. Len(s)) /\ Len(s) \in Nat /\ c \in Nat
    BY ReadablePlaces
<1>2. h \in Seq(Messages) /\ Len(h) = c /\ DOMAIN h = 1 .. c
    BY RetainedProperties
<1>3. \A i \in 1 .. c : /\ Nth(P, i) \in P /\ Rank(P, Nth(P, i)) = i
                        /\ h[i] = s[Nth(P, i)]
    BY RetainedProperties
<1> HIDE DEF P, c, h
<1>4. ASSUME NEW i \in 1 .. c, NEW j \in 1 .. c, i < j
      PROVE  h[i] < h[j]
  <2> DEFINE p == Nth(P, i)
             q == Nth(P, j)
  <2>1. p \in P /\ q \in P /\ Rank(P, p) = i /\ Rank(P, q) = j
      BY <1>3
  <2>2. h[i] = s[p] /\ h[j] = s[q]
      BY <1>3
  <2> HIDE DEF p, q
  <2>3. p \in Nat /\ q \in Nat
      BY <1>1, <2>1
  <2>4. ASSUME q < p PROVE FALSE
    <3>1. Rank(P, q) < Rank(P, p)
        BY <1>1, <2>1, <2>3, <2>4, RankMonotone
    <3> QED
        BY <3>1, <2>1, <1>4
  <2>5. p # q
      BY <2>1, <1>4
  <2>6. p < q
      BY <2>3, <2>4, <2>5
  <2> QED
      BY <2>1, <2>2, <2>6 DEF P
<1>5. \A i \in 1 .. c : h[i] <= n
    BY <1>3 DEF P
<1> QED
    BY <1>2, <1>4, <1>5 DEF InOrder, h

LEMMA InOrderSlice ==
    ASSUME NEW h \in Seq(Messages), NEW n, InOrder(h, n), NEW g \in Histories(h)
    PROVE  g \in Seq(Messages) /\ InOrder(g, n)
<1>1. PICK i \in 1 .. Len(h) + 1, j \in 0 .. Len(h) : g = SubSeq(h, i, j)
    BY DEF Histories
<1>2. g \in Seq(Messages)
      /\ \A x \in DOMAIN g : x \in Nat /\ i + x - 1 \in DOMAIN h /\ g[x] = h[i + x - 1]
    BY <1>1
<1>3. \A x, y \in DOMAIN g : x < y => i + x - 1 < i + y - 1
  <2>1. \A x, y \in Nat : x < y => i + x - 1 < i + y - 1
      OBVIOUS
  <2> QED
      BY ONLY <1>2, <2>1
<1>4. \A x, y \in DOMAIN g : x < y => g[x] < g[y]
    BY <1>2, <1>3 DEF InOrder
<1>5. \A x \in DOMAIN g : g[x] <= n
    BY <1>2 DEF InOrder
<1> QED
    BY <1>2, <1>4, <1>5 DEF InOrder

LEMMA InOrderLater ==
    ASSUME NEW h \in Seq(Messages), NEW n \in Nat, InOrder(h, n)
    PROVE  InOrder(h, n + 1)
<1>1. \A i \in DOMAIN h : h[i] \in Messages
    OBVIOUS
<1>2. \A i \in DOMAIN h : h[i] <= n + 1
    BY <1>1 DEF InOrder, Messages
<1> QED
    BY <1>2 DEF InOrder

\* The rest of a file whose lines are in order is in order.
LEMMA ReadInOrder ==
    ASSUME lines \in Seq(Line), NEW k \in 0 .. Len(lines), OrderInv
    PROVE  ReadMessages(k) \in Seq(Messages) /\ InOrder(ReadMessages(k), sent)
<1> DEFINE a == Retained(SubSeq(lines, 1, k))
           b == ReadMessages(k)
           h == Retained(lines)
<1>1. a \in Seq(Messages) /\ b \in Seq(Messages) /\ h = a \o b
    BY RetainedSplit, RetainedProperties DEF ReadMessages
<1>2. InOrder(h, sent)
    BY RetainedInOrder DEF OrderInv
<1> HIDE DEF a, b, h
<1>3. h \in Seq(Messages) /\ Len(h) = Len(a) + Len(b)
      /\ b = SubSeq(h, Len(h) - Len(b) + 1, Len(h))
    BY <1>1, PartsOfAHistory
<1>4. Len(h) - Len(b) + 1 \in 1 .. Len(h) + 1 /\ Len(h) \in 0 .. Len(h)
    BY <1>1, <1>3
<1>5. b \in Histories(h)
  <2>1. \E i \in 1 .. Len(h) + 1, j \in 0 .. Len(h) : b = SubSeq(h, i, j)
      BY <1>3, <1>4
  <2> QED
      BY <2>1 DEF Histories
<1>6. InOrder(b, sent)
    BY <1>2, <1>3, <1>5, InOrderSlice
<1> QED
    BY <1>1, <1>6 DEF b

\* A line is appended, or what follows an unterminated line spoils it.
LEMMA AppendedFile ==
    ASSUME lines \in Seq(Line), unterminated \in BOOLEAN,
           unterminated => lines # <<>>, NEW l \in Line
    PROVE  /\ Appended(l) \in Seq(Line) /\ Appended(l) # <<>>
           /\ Len(lines) \in Nat /\ Len(Appended(l)) \in Nat
           /\ Len(lines) <= Len(Appended(l))
           /\ ~unterminated =>
                /\ Appended(l) = Append(lines, l)
                /\ Len(Appended(l)) = Len(lines) + 1
           /\ unterminated =>
                /\ Len(lines) > 0 /\ Len(Appended(l)) = Len(lines)
                /\ \A p \in 1 .. Len(lines) - 1 : Appended(l)[p] = lines[p]
                /\ Appended(l)[Len(lines)] = Corrupt
           /\ \A p \in Readable(Appended(l)) :
                \/ p \in Readable(lines) /\ Appended(l)[p] = lines[p]
                \/ p = Len(lines) + 1 /\ Appended(l)[p] = l
<1> DEFINE A == Appended(l)
<1>1. Len(lines) \in Nat /\ DOMAIN lines = 1 .. Len(lines)
    BY SMTT(20)
<1>2. ASSUME unterminated
      PROVE  /\ A \in Seq(Line) /\ A # <<>>
             /\ Len(lines) <= Len(A)
             /\ Len(lines) > 0 /\ Len(A) = Len(lines)
             /\ \A p \in 1 .. Len(lines) - 1 : A[p] = lines[p]
             /\ A[Len(lines)] = Corrupt
             /\ \A p \in Readable(A) : p \in Readable(lines) /\ A[p] = lines[p]
  <2>1. A = [lines EXCEPT ![Len(lines)] = Corrupt] /\ Len(lines) > 0
      BY <1>2 DEF Appended
  <2>2. A \in Seq(Line) /\ Len(A) = Len(lines) /\ DOMAIN A = DOMAIN lines
      BY <2>1 DEF Line
  <2>3. \A p \in 1 .. Len(lines) : A[p] = IF p = Len(lines) THEN Corrupt ELSE lines[p]
      BY ONLY SMTT(20), <2>1, <1>1
  <2>4. \A p \in 1 .. Len(lines) - 1 : p \in 1 .. Len(lines) /\ p # Len(lines)
    <3>1. \A n \in Nat : \A p \in 1 .. n - 1 : p \in 1 .. n /\ p # n
        OBVIOUS
    <3> QED
        BY ONLY <1>1, <3>1
  <2>5. \A p \in 1 .. Len(lines) - 1 : A[p] = lines[p]
      BY <2>3, <2>4
  <2>6. A # <<>> /\ A[Len(lines)] = Corrupt
      BY SMTT(20), <1>1, <2>1, <2>2, <2>3
  <2> HIDE DEF A
  <2>7. \A p \in Readable(A) : p \in Readable(lines) /\ A[p] = lines[p]
      BY <1>1, <2>2, <2>3 DEF Readable
  <2> QED
    <3>1. Len(lines) <= Len(A)
        BY <1>1, <2>2
    <3> QED
        BY <3>1, <2>1, <2>2, <2>5, <2>6, <2>7
<1>3. ASSUME ~unterminated
      PROVE  /\ A \in Seq(Line) /\ A # <<>>
             /\ Len(lines) <= Len(A)
             /\ A = Append(lines, l) /\ Len(A) = Len(lines) + 1
             /\ \A p \in Readable(A) : \/ p \in Readable(lines) /\ A[p] = lines[p]
                                       \/ p = Len(lines) + 1 /\ A[p] = l
  <2>1. A = Append(lines, l)
      BY <1>3 DEF Appended
  <2>2. A \in Seq(Line) /\ Len(A) = Len(lines) + 1 /\ DOMAIN A = 1 .. Len(lines) + 1
        /\ A # <<>> /\ A[Len(lines) + 1] = l /\ \A p \in 1 .. Len(lines) : A[p] = lines[p]
      BY <2>1
  <2> HIDE DEF A
  <2>3. \A p \in Readable(A) : \/ p \in Readable(lines) /\ A[p] = lines[p]
                               \/ p = Len(lines) + 1 /\ A[p] = l
      BY <1>1, <2>2 DEF Readable
  <2> QED
    <3>1. Len(lines) <= Len(A)
        BY <1>1, <2>2
    <3> QED
        BY <3>1, <2>1, <2>2, <2>3
<1>4. /\ A \in Seq(Line) /\ A # <<>>
      /\ Len(lines) <= Len(A)
      /\ ~unterminated => A = Append(lines, l) /\ Len(A) = Len(lines) + 1
      /\ unterminated =>
           /\ Len(lines) > 0 /\ Len(A) = Len(lines)
           /\ \A p \in 1 .. Len(lines) - 1 : A[p] = lines[p]
           /\ A[Len(lines)] = Corrupt
      /\ \A p \in Readable(A) : \/ p \in Readable(lines) /\ A[p] = lines[p]
                                \/ p = Len(lines) + 1 /\ A[p] = l
    BY <1>2, <1>3
<1> QED
    BY <1>1, <1>4 DEF A

LEMMA AppendedInOrder ==
    ASSUME lines \in Seq(Line), unterminated \in BOOLEAN,
           unterminated => lines # <<>>, sent \in Nat, OrderInv,
           NEW l \in {Corrupt, sent + 1}, l \in Line
    PROVE  /\ \A p, q \in Readable(Appended(l)) : p < q => Appended(l)[p] < Appended(l)[q]
           /\ \A p \in Readable(Appended(l)) : Appended(l)[p] <= sent + 1
<1> DEFINE A == Appended(l)
<1>1. \A p \in Readable(A) : \/ p \in Readable(lines) /\ A[p] = lines[p]
                             \/ p = Len(lines) + 1 /\ A[p] = l
    BY AppendedFile
<1>2. /\ \A p \in Readable(lines) : lines[p] \in Nat /\ p \in Nat /\ p < Len(lines) + 1
      /\ Len(lines) \in Nat
  <2>1. \A p \in Readable(lines) : lines[p] \in Messages /\ p \in 1 .. Len(lines)
      BY ReadablePlaces
  <2> QED
      BY <2>1 DEF Messages
<1>3. \A p \in Readable(A) : A[p] # Corrupt
    BY DEF Readable
<1> HIDE DEF A
<1>4. \A p \in Readable(A) : \/ p \in Readable(lines) /\ A[p] = lines[p]
                             \/ p = Len(lines) + 1 /\ A[p] = sent + 1
    BY <1>1, <1>3
<1>5. \A p \in Readable(lines) : lines[p] <= sent
    BY DEF OrderInv
<1>6. \A p \in Readable(A) : A[p] <= sent + 1
    BY <1>2, <1>4, <1>5
<1>7. ASSUME NEW p \in Readable(A), NEW q \in Readable(A), p < q
      PROVE  A[p] < A[q]
  <2>1. p \in Readable(lines) /\ A[p] = lines[p] /\ lines[p] <= sent
      BY <1>2, <1>4, <1>5, <1>7
  <2>2. CASE q \in Readable(lines) /\ A[q] = lines[q]
      BY <2>1, <2>2, <1>7 DEF OrderInv
  <2>3. CASE q = Len(lines) + 1 /\ A[q] = sent + 1
      BY <2>1, <2>3, <1>2
  <2> QED
      BY <1>4, <2>2, <2>3
<1> QED
    BY <1>6, <1>7 DEF A

-----------------------------------------------------------------------------
(* The invariant is kept.                                                  *)

LEMMA LogTypes ==
    ASSUME LogInv
    PROVE  /\ lines \in Seq(Line) /\ unterminated \in BOOLEAN
           /\ Len(lines) \in Nat /\ skip \in Nat /\ sent \in Nat
           /\ unterminated => lines # <<>>
BY MaxMessagesAssumption DEF LogInv, LogTypeOK, WriteInv, Line

LEMMA LogInitHolds == LogInit => LogInv
<1> SUFFICES ASSUME LogInit PROVE LogInv
    OBVIOUS
<1>1. LogTypeOK
  <2>1. Len(<<>>) = 0 /\ 0 \in 0 .. 0 /\ 0 \in 0 .. MaxMessages
      BY MaxMessagesAssumption
  <2>2. <<>> \in Seq(Messages \cup {Corrupt}) /\ <<>> \in Seq(Messages)
      OBVIOUS
  <2> QED
      BY <2>1, <2>2 DEF LogInit, LogTypeOK
<1>2. OrderInv
    BY DEF LogInit, OrderInv, InOrder, Readable
<1>3. WriteInv
    BY DEF LogInit, WriteInv
<1> QED
    BY <1>1, <1>2, <1>3 DEF LogInv

\* An append, complete or not, keeps the lines and the messages in order.
LEMMA AppendKeeps ==
    ASSUME LogInv, sent < MaxMessages, sent' = sent + 1,
           NEW l \in {Corrupt, sent'}, lines' = Appended(l),
           UNCHANGED <<skip, arg, held, before, acked>>
    PROVE  /\ lines' \in Seq(Messages \cup {Corrupt}) /\ lines' # <<>>
           /\ skip' \in 0 .. Len(lines') /\ before' \in 0 .. Len(lines')
           /\ arg' \in Seq(Messages) /\ held' \in Seq(Messages)
           /\ sent' \in 1 .. MaxMessages /\ acked' \in SUBSET (1 .. sent')
           /\ OrderInv'
<1>1. l \in Line /\ sent' \in 1 .. MaxMessages
    BY LogTypes, MaxMessagesAssumption DEF Line, Messages
<1>2. /\ lines' \in Seq(Line) /\ lines' # <<>> /\ Len(lines') \in Nat
      /\ Len(lines) <= Len(lines') /\ Len(lines) \in Nat
    BY <1>1, LogTypes, AppendedFile
<1>3. skip' \in 0 .. Len(lines') /\ before' \in 0 .. Len(lines')
    BY <1>2 DEF LogInv, LogTypeOK
<1>4. arg' \in Seq(Messages) /\ held' \in Seq(Messages)
    BY DEF LogInv, LogTypeOK
<1>5. acked' \in SUBSET (1 .. sent')
    BY LogTypes DEF LogInv, LogTypeOK
<1>6. OrderInv'
  <2>1. /\ \A p, q \in Readable(lines') : p < q => lines'[p] < lines'[q]
        /\ \A p \in Readable(lines') : lines'[p] <= sent'
      BY <1>1, LogTypes, AppendedInOrder DEF LogInv
  <2>2. InOrder(held', sent') /\ InOrder(arg', sent')
      BY LogTypes, InOrderLater DEF LogInv, LogTypeOK, OrderInv
  <2> QED
      BY <2>1, <2>2 DEF OrderInv
<1> QED
    BY <1>1, <1>2, <1>3, <1>4, <1>5, <1>6 DEF Line

LEMMA LogStepKeeps == LogInv /\ [LogNext]_logVars => LogInv'
<1> SUFFICES ASSUME LogInv, [LogNext]_logVars PROVE LogInv'
    OBVIOUS
<1>1. CASE AddMessage
  <2>1. sent < MaxMessages /\ sent' = sent + 1 /\ lines' = Appended(sent')
        /\ UNCHANGED <<skip, arg, held, before, acked>>
        /\ op' = "add" /\ unterminated' = FALSE
      BY <1>1 DEF AddMessage
  <2>2. /\ lines' \in Seq(Messages \cup {Corrupt}) /\ lines' # <<>>
        /\ skip' \in 0 .. Len(lines') /\ before' \in 0 .. Len(lines')
        /\ arg' \in Seq(Messages) /\ held' \in Seq(Messages)
        /\ sent' \in 1 .. MaxMessages /\ acked' \in SUBSET (1 .. sent')
        /\ OrderInv'
      BY <2>1, AppendKeeps
  <2>3. sent' \in 0 .. MaxMessages /\ sent' > 0
      BY <2>2, MaxMessagesAssumption
  <2>4. LogTypeOK'
      BY <2>1, <2>2, <2>3 DEF LogTypeOK
  <2>5. WriteInv'
      BY <2>1, <2>3 DEF WriteInv
  <2> QED
      BY <2>2, <2>4, <2>5 DEF LogInv
<1>2. CASE AppendTorn
  <2>1. sent < MaxMessages /\ sent' = sent + 1
        /\ UNCHANGED <<skip, op, arg, held, before, acked>>
        /\ op = "idle" /\ unterminated' = TRUE
        /\ \E l \in {Corrupt, sent'} : lines' = Appended(l)
      BY <1>2 DEF AppendTorn
  <2>2. /\ lines' \in Seq(Messages \cup {Corrupt}) /\ lines' # <<>>
        /\ skip' \in 0 .. Len(lines') /\ before' \in 0 .. Len(lines')
        /\ arg' \in Seq(Messages) /\ held' \in Seq(Messages)
        /\ sent' \in 1 .. MaxMessages /\ acked' \in SUBSET (1 .. sent')
        /\ OrderInv'
      BY <2>1, AppendKeeps
  <2>3. sent' \in 0 .. MaxMessages
      BY <2>2, MaxMessagesAssumption
  <2>4. LogTypeOK'
      BY <2>1, <2>2, <2>3 DEF LogTypeOK
  <2>5. WriteInv'
      BY <2>1, <2>2 DEF WriteInv
  <2> QED
      BY <2>2, <2>4, <2>5 DEF LogInv
<1>3. CASE Added
  <2>1. op = "add" /\ op' = "idle" /\ acked' = acked \cup {sent}
        /\ UNCHANGED <<lines, unterminated, skip, arg, held, before, sent>>
      BY <1>3 DEF Added, files
  <2>2. sent \in 1 .. sent
      BY <2>1, LogTypes DEF LogInv, WriteInv
  <2>3. LogTypeOK'
      BY <2>1, <2>2 DEF LogInv, LogTypeOK
  <2>4. OrderInv' /\ WriteInv'
      BY <2>1 DEF LogInv, OrderInv, WriteInv
  <2> QED
      BY <2>3, <2>4 DEF LogInv
<1>4. CASE GetHistory
  <2>1. op = "idle" /\ held' = ReadMessages(skip)
        /\ UNCHANGED <<lines, unterminated, skip, op, arg, before, sent, acked>>
      BY <1>4 DEF GetHistory, files
  <2>2. held' \in Seq(Messages) /\ InOrder(held', sent)
      BY <2>1, LogTypes, ReadInOrder DEF LogInv, LogTypeOK
  <2>3. LogTypeOK'
      BY <2>1, <2>2 DEF LogInv, LogTypeOK
  <2>4. OrderInv'
      BY <2>1, <2>2 DEF LogInv, OrderInv
  <2>5. WriteInv'
      BY <2>1 DEF LogInv, WriteInv
  <2> QED
      BY <2>3, <2>4, <2>5 DEF LogInv
<1>5. CASE \E k \in 0 .. MaxMessages : TruncateHistory(k)
  <2>1. PICK k \in 0 .. MaxMessages : TruncateHistory(k)
      BY <1>5
  <2>2. op = "idle" /\ skip' = SkipFor(k) /\ acked' \in SUBSET acked
        /\ UNCHANGED <<lines, unterminated, op, arg, held, before, sent>>
      BY <2>1 DEF TruncateHistory
  <2>3. k \in Nat
      BY MaxMessagesAssumption
  <2>4. SkipFor(k) \in skip .. Len(lines)
      BY <2>3, LogTypes, SkipForIsExact DEF LogInv, LogTypeOK
  <2>5. skip' \in 0 .. Len(lines)
      BY <2>2, <2>4, LogTypes
  <2>6. LogTypeOK'
      BY <2>2, <2>5 DEF LogInv, LogTypeOK
  <2>7. OrderInv' /\ WriteInv'
      BY <2>2 DEF LogInv, OrderInv, WriteInv
  <2> QED
      BY <2>6, <2>7 DEF LogInv
<1>6. CASE \E h \in Histories(held) : SetHistory(h)
  <2>1. PICK h \in Histories(held) : SetHistory(h)
      BY <1>6
  <2>2. op = "idle" /\ op' = "set" /\ arg' = h /\ skip' = 0 /\ before' = skip
        /\ acked' \in SUBSET acked /\ UNCHANGED <<lines, unterminated, held, sent>>
      BY <2>1 DEF SetHistory, ResetSkip
  <2>3. h \in Seq(Messages) /\ InOrder(h, sent)
      BY InOrderSlice DEF LogInv, LogTypeOK, OrderInv
  <2>4. 0 \in 0 .. Len(lines)
      BY LogTypes
  <2>5. LogTypeOK'
      BY <2>2, <2>3, <2>4 DEF LogInv, LogTypeOK
  <2>6. OrderInv'
      BY <2>2, <2>3 DEF LogInv, OrderInv
  <2>7. WriteInv'
      BY <2>2 DEF LogInv, WriteInv
  <2> QED
      BY <2>5, <2>6, <2>7 DEF LogInv
<1>7. CASE Compact
  <2>1. op = "idle" /\ op' = "compact" /\ arg' = ReadMessages(skip) /\ skip' = 0
        /\ before' = skip /\ UNCHANGED <<lines, unterminated, held, sent, acked>>
      BY <1>7 DEF Compact, ResetSkip
  <2>2. arg' \in Seq(Messages) /\ InOrder(arg', sent)
      BY <2>1, LogTypes, ReadInOrder DEF LogInv, LogTypeOK
  <2>3. 0 \in 0 .. Len(lines)
      BY LogTypes
  <2>4. LogTypeOK'
      BY <2>1, <2>2, <2>3 DEF LogInv, LogTypeOK
  <2>5. OrderInv'
      BY <2>1, <2>2 DEF LogInv, OrderInv
  <2>6. WriteInv'
      BY <2>1 DEF LogInv, WriteInv, ReadMessages
  <2> QED
      BY <2>4, <2>5, <2>6 DEF LogInv
<1>8. CASE RewriteJSONL
  <2>1. op \in {"set", "compact"} /\ lines' = arg /\ unterminated' = FALSE
        /\ op' = "idle" /\ arg' = <<>> /\ before' = 0
        /\ UNCHANGED <<skip, held, sent, acked>>
      BY <1>8 DEF RewriteJSONL, Rewritten
  <2>2. arg \in Seq(Messages) /\ InOrder(arg, sent) /\ skip = 0
      BY <2>1 DEF LogInv, LogTypeOK, OrderInv, WriteInv
  <2>3. arg \in Seq(Messages \cup {Corrupt}) /\ 0 \in 0 .. Len(arg)
        /\ <<>> \in Seq(Messages)
      BY <2>2
  <2>4. LogTypeOK'
      BY <2>1, <2>2, <2>3 DEF LogInv, LogTypeOK
  <2>5. InOrder(<<>>, sent)
      BY DEF InOrder
  <2>6. OrderInv'
      BY <2>1, <2>2, <2>5 DEF LogInv, OrderInv, InOrder, Readable
  <2>7. WriteInv'
      BY <2>1 DEF WriteInv
  <2> QED
      BY <2>4, <2>6, <2>7 DEF LogInv
<1>9. CASE Interrupted
  <2>1. op' = "idle" /\ arg' = <<>> /\ before' = 0
        /\ UNCHANGED <<lines, unterminated, skip, held, sent, acked>>
      BY <1>9 DEF Interrupted, files
  <2>2. 0 \in 0 .. Len(lines) /\ <<>> \in Seq(Messages)
      BY LogTypes
  <2>3. LogTypeOK'
      BY <2>1, <2>2 DEF LogInv, LogTypeOK
  <2>4. InOrder(<<>>, sent)
      BY DEF InOrder
  <2>5. OrderInv'
      BY <2>1, <2>4 DEF LogInv, OrderInv
  <2>6. WriteInv'
      BY <2>1 DEF LogInv, WriteInv
  <2> QED
      BY <2>3, <2>5, <2>6 DEF LogInv
<1>10. CASE UNCHANGED logVars
  <2>1. UNCHANGED <<lines, unterminated, skip, op, arg, held, before, sent, acked>>
      BY <1>10 DEF logVars, files
  <2> QED
      BY <2>1 DEF LogInv, LogTypeOK, OrderInv, WriteInv, ReadMessages
<1> QED
    BY <1>1, <1>2, <1>3, <1>4, <1>5, <1>6, <1>7, <1>8, <1>9, <1>10 DEF LogNext

LEMMA LogInvHolds == LogSpec => []LogInv
BY LogInitHolds, LogStepKeeps, PTL DEF LogSpec

\* The files keep their types: the skip offset never exceeds the file, whatever is
\* truncated, rewritten or cut short, so that no message added later is invisible.
THEOREM LogTypesHold == LogSpec => []LogTypeOK
<1>1. LogInv => LogTypeOK
    BY DEF LogInv
<1> QED
    BY <1>1, LogInvHolds, PTL

\* What is read is in the order in which it was sent, without a message twice, after
\* any crashes, torn lines, truncations and histories written back however late.
THEOREM OrderSurvives == LogSpec => []HistoryInOrder
<1>1. LogInv => HistoryInOrder
  <2> SUFFICES ASSUME LogInv PROVE HistoryInOrder
      OBVIOUS
  <2>1. InOrder(ReadMessages(skip), sent)
      BY LogTypes, ReadInOrder DEF LogInv, LogTypeOK
  <2> QED
      BY <2>1 DEF HistoryInOrder, InOrder
<1> QED
    BY <1>1, LogInvHolds, PTL

\* TruncateHistory leaves exactly the last k messages, whatever does not parse.
THEOREM TruncationKeepsTheLast == LogSpec => TruncationIsExact
<1> DEFINE A == \A k \in 0 .. MaxMessages : TruncateHistory(k) =>
                   LET h == ReadMessages(skip)
                       n == IF k < Len(h) THEN k ELSE Len(h)
                   IN  ReadMessages(skip)' = SubSeq(h, Len(h) - n + 1, Len(h))
<1>1. LogInv => A
  <2> SUFFICES ASSUME LogInv, NEW k \in 0 .. MaxMessages, TruncateHistory(k)
               PROVE  LET h == ReadMessages(skip)
                          n == IF k < Len(h) THEN k ELSE Len(h)
                      IN  ReadMessages(skip)' = SubSeq(h, Len(h) - n + 1, Len(h))
      OBVIOUS
  <2>1. skip' = SkipFor(k) /\ lines' = lines
      BY DEF TruncateHistory
  <2>2. ReadMessages(skip)' = ReadMessages(SkipFor(k))
      BY <2>1 DEF ReadMessages
  <2>3. k \in Nat /\ lines \in Seq(Line) /\ skip \in 0 .. Len(lines)
      BY MaxMessagesAssumption, LogTypes DEF LogInv, LogTypeOK
  <2> QED
      BY <2>2, <2>3, SkipForIsExact
<1> QED
    BY <1>1, LogInvHolds, PTL DEF TruncationIsExact

-----------------------------------------------------------------------------
(* The files implement the history that the store promises.                *)

\* What a reader sees, and what was truncated, through the refinement mapping.
Seen   == ReadMessages(offset)
Unseen == Retained(SubSeq(lines, 1, offset))

LEMMA FrontOfAppend ==
    ASSUME NEW h \in Seq(Messages), NEW m \in Messages
    PROVE  Append(h, m) # <<>> /\ Front(Append(h, m)) = h
<1> DEFINE g == Append(h, m)
<1>1. g \in Seq(Messages) /\ Len(g) = Len(h) + 1 /\ g # <<>> /\ Len(h) \in Nat
      /\ \A i \in 1 .. Len(h) : g[i] = h[i]
    OBVIOUS
<1>2. Len(g) - 1 = Len(h)
    BY <1>1
<1>3. SubSeq(g, 1, Len(h)) \in Seq(Messages) /\ Len(SubSeq(g, 1, Len(h))) = Len(h)
      /\ \A i \in 1 .. Len(h) : SubSeq(g, 1, Len(h))[i] = g[i]
    BY <1>1
<1> HIDE DEF g
<1>4. SubSeq(g, 1, Len(h)) = h
    BY <1>1, <1>3, SeqEqual
<1> QED
    BY <1>1, <1>2, <1>4 DEF g, Front

LEMMA PartsOfAppend ==
    ASSUME NEW s \in Seq(Line), NEW l \in Line, NEW k \in 0 .. Len(s)
    PROVE  /\ SubSeq(Append(s, l), k + 1, Len(s) + 1) = Append(SubSeq(s, k + 1, Len(s)), l)
           /\ SubSeq(Append(s, l), 1, k) = SubSeq(s, 1, k)
<1> DEFINE t == Append(s, l)
           u == SubSeq(t, k + 1, Len(s) + 1)
           v == Append(SubSeq(s, k + 1, Len(s)), l)
<1>1. t \in Seq(Line) /\ Len(t) = Len(s) + 1 /\ Len(s) \in Nat /\ k \in Nat
      /\ t[Len(s) + 1] = l /\ \A i \in 1 .. Len(s) : t[i] = s[i]
    OBVIOUS
<1> HIDE DEF t
<1>2. u \in Seq(Line) /\ Len(u) = Len(s) + 1 - k
      /\ \A i \in 1 .. Len(s) + 1 - k : u[i] = t[k + i]
    BY <1>1
<1>3. v \in Seq(Line) /\ Len(v) = Len(s) + 1 - k
      /\ \A i \in 1 .. Len(s) + 1 - k : v[i] = IF i = Len(s) + 1 - k THEN l ELSE s[k + i]
    BY <1>1
<1> HIDE DEF u, v
<1>4. \A i \in 1 .. Len(s) + 1 - k : u[i] = v[i]
  <2> SUFFICES ASSUME NEW i \in 1 .. Len(s) + 1 - k PROVE u[i] = v[i]
      OBVIOUS
  <2>1. CASE i = Len(s) + 1 - k
    <3>1. k + i = Len(s) + 1
        BY <1>1, <2>1
    <3> QED
        BY SMTT(20), <3>1, <2>1, <1>1, <1>2, <1>3
  <2>2. CASE i # Len(s) + 1 - k
    <3>1. k + i \in 1 .. Len(s)
        BY <1>1, <2>2
    <3> QED
        BY <3>1, <2>2, <1>1, <1>2, <1>3
  <2> QED
      BY <2>1, <2>2
<1>5. u = v
    BY <1>2, <1>3, <1>4, SeqEqual
<1>6. SubSeq(t, 1, k) = SubSeq(s, 1, k)
  <2> DEFINE a == SubSeq(t, 1, k)
             b == SubSeq(s, 1, k)
  <2>1. a \in Seq(Line) /\ Len(a) = k /\ \A i \in 1 .. k : a[i] = t[i]
      BY <1>1
  <2>2. b \in Seq(Line) /\ Len(b) = k /\ \A i \in 1 .. k : b[i] = s[i]
      BY <1>1
  <2> HIDE DEF a, b
  <2>3. \A i \in 1 .. k : a[i] = b[i]
      BY <1>1, <2>1, <2>2
  <2>4. a = b
      BY <2>1, <2>2, <2>3, SeqEqual
  <2> QED
      BY <2>4 DEF a, b
<1> QED
    BY <1>5, <1>6 DEF t, u, v

LEMMA SeenProperties ==
    ASSUME LogInv
    PROVE  /\ offset \in 0 .. Len(lines) /\ offset \in Nat
           /\ Seen \in Seq(Messages) /\ Unseen \in Seq(Messages)
           /\ Retained(lines) = Unseen \o Seen
<1>1. offset \in 0 .. Len(lines)
    BY DEF LogInv, LogTypeOK, offset
<1>2. /\ SubSeq(lines, 1, offset) \in Seq(Line)
      /\ SubSeq(lines, offset + 1, Len(lines)) \in Seq(Line)
      /\ Retained(lines) = Unseen \o Seen
    BY <1>1, LogTypes, RetainedSplit DEF Seen, Unseen, ReadMessages
<1>3. Seen \in Seq(Messages) /\ Unseen \in Seq(Messages)
    BY <1>2, RetainedProperties DEF Seen, Unseen, ReadMessages
<1> QED
    BY <1>1, <1>2, <1>3

\* An append to whole lines adds a message, or nothing.
LEMMA AppendSeen ==
    ASSUME LogInv, ~unterminated, NEW l \in Line, lines' = Appended(l), offset' = offset
    PROVE  /\ Seen' = IF l = Corrupt THEN Seen ELSE Append(Seen, l)
           /\ Unseen' = Unseen
<1>1. lines' = Append(lines, l) /\ Len(lines') = Len(lines) + 1 /\ lines \in Seq(Line)
    BY LogTypes, AppendedFile
<1>2. offset \in 0 .. Len(lines)
    BY SeenProperties
<1>3. /\ SubSeq(lines', offset + 1, Len(lines')) =
            Append(SubSeq(lines, offset + 1, Len(lines)), l)
      /\ SubSeq(lines', 1, offset) = SubSeq(lines, 1, offset)
    BY <1>1, <1>2, PartsOfAppend
<1>4. SubSeq(lines, offset + 1, Len(lines)) \in Seq(Line)
    BY <1>1, <1>2
<1>5. Seen' = Retained(Append(SubSeq(lines, offset + 1, Len(lines)), l))
    BY <1>3 DEF Seen, ReadMessages
<1>6. Seen' = IF l = Corrupt THEN Seen ELSE Append(Seen, l)
    BY <1>4, <1>5, RetainedAppend DEF Seen, ReadMessages
<1> QED
    BY <1>3, <1>6 DEF Unseen

\* An append onto an unterminated line costs at most the message of that line.
LEMMA GlueSeen ==
    ASSUME LogInv, unterminated, NEW l \in Line, lines' = Appended(l), offset' = offset
    PROVE  \/ Seen' = Seen /\ Unseen' = Unseen
           \/ Seen # <<>> /\ Seen' = Front(Seen) /\ Unseen' = Unseen
           \/ Unseen # <<>> /\ Unseen' = Front(Unseen) /\ Seen' = Seen
<1> DEFINE n == Len(lines)
           b == SubSeq(lines, 1, n - 1)
           z == lines[n]
<1>1. lines \in Seq(Line) /\ n \in Nat /\ n > 0 /\ lines' \in Seq(Line) /\ Len(lines') = n
      /\ (\A p \in 1 .. n - 1 : lines'[p] = lines[p]) /\ lines'[n] = Corrupt
    BY LogTypes, AppendedFile
<1>2. offset \in 0 .. n
    BY SeenProperties
<1>3. b \in Seq(Line) /\ Len(b) = n - 1 /\ z \in Line /\ Corrupt \in Line
      /\ \A p \in 1 .. n - 1 : b[p] = lines[p]
    BY <1>1 DEF Line
<1> HIDE DEF b, z
<1>4. lines = Append(b, z)
  <2> DEFINE t == Append(b, z)
  <2>1. t \in Seq(Line) /\ Len(t) = n /\ t[n] = z /\ \A p \in 1 .. n - 1 : t[p] = lines[p]
      BY <1>1, <1>3
  <2> HIDE DEF t
  <2>2. \A p \in 1 .. n : t[p] = lines[p]
      BY <1>1, <2>1 DEF z
  <2>3. t = lines
      BY <1>1, <2>1, <2>2, SeqEqual
  <2> QED
      BY <2>3 DEF t
<1>5. lines' = Append(b, Corrupt)
  <2> DEFINE t == Append(b, Corrupt)
  <2>1. t \in Seq(Line) /\ Len(t) = n /\ t[n] = Corrupt
        /\ \A p \in 1 .. n - 1 : t[p] = lines[p]
      BY <1>1, <1>3
  <2> HIDE DEF t
  <2>2. \A p \in 1 .. n : t[p] = lines'[p]
      BY <1>1, <2>1
  <2>3. t = lines'
      BY <1>1, <2>1, <2>2, SeqEqual
  <2> QED
      BY <2>3 DEF t
<1>6. CASE offset < n
  <2> DEFINE c == SubSeq(b, offset + 1, n - 1)
  <2>1. offset \in 0 .. Len(b) /\ Len(b) + 1 = n /\ Len(b) = n - 1
      BY <1>1, <1>2, <1>3, <1>6
  <2>2. /\ SubSeq(lines, offset + 1, n) = Append(c, z)
        /\ SubSeq(lines, 1, offset) = SubSeq(b, 1, offset)
      BY <1>3, <1>4, <2>1, PartsOfAppend
  <2>3. /\ SubSeq(lines', offset + 1, n) = Append(c, Corrupt)
        /\ SubSeq(lines', 1, offset) = SubSeq(b, 1, offset)
    <3>1. /\ SubSeq(Append(b, Corrupt), offset + 1, Len(b) + 1) =
                Append(SubSeq(b, offset + 1, Len(b)), Corrupt)
          /\ SubSeq(Append(b, Corrupt), 1, offset) = SubSeq(b, 1, offset)
        BY ONLY ZenonT(20), <1>3, <2>1, PartsOfAppend
    <3> QED
        BY ONLY <1>5, <2>1, <3>1
  <2>4. c \in Seq(Line)
      BY <1>3, <2>1
  <2> HIDE DEF c
  <2>5. Seen = IF z = Corrupt THEN Retained(c) ELSE Append(Retained(c), z)
      BY <1>3, <2>2, <2>4, RetainedAppend DEF Seen, ReadMessages
  <2>6. Seen' = Retained(Append(c, Corrupt))
      BY <1>1, <2>3 DEF Seen, ReadMessages
  <2>7. Seen' = Retained(c)
      BY <1>3, <2>4, <2>6, RetainedAppend
  <2>8. Unseen' = Unseen
      BY <2>2, <2>3 DEF Unseen
  <2>9. z # Corrupt => Seen # <<>> /\ Retained(c) = Front(Seen)
    <3>1. Retained(c) \in Seq(Messages)
        BY <2>4, RetainedProperties
    <3>2. z # Corrupt => z \in Messages
        BY <1>3 DEF Line
    <3> QED
        BY <3>1, <3>2, <2>5, FrontOfAppend
  <2> QED
      BY <2>5, <2>7, <2>8, <2>9
<1>7. CASE offset = n
  <2>1. SubSeq(lines, n + 1, n) = <<>> /\ SubSeq(lines', n + 1, n) = <<>>
      BY <1>1, SubSeqEmpty
  <2>2. Seen' = Seen
      BY <1>1, <1>7, <2>1 DEF Seen, ReadMessages
  <2>3. SubSeq(lines, 1, n) = lines /\ SubSeq(lines', 1, n) = lines'
      BY <1>1, SubSeqFull
  <2>4. Unseen = Retained(Append(b, z)) /\ Unseen' = Retained(Append(b, Corrupt))
      BY <1>4, <1>5, <1>7, <2>3 DEF Unseen
  <2>5. Unseen = IF z = Corrupt THEN Retained(b) ELSE Append(Retained(b), z)
      BY <1>3, <2>4, RetainedAppend
  <2>6. Unseen' = Retained(b)
      BY <1>3, <2>4, RetainedAppend
  <2>7. z # Corrupt => Unseen # <<>> /\ Retained(b) = Front(Unseen)
    <3>1. Retained(b) \in Seq(Messages)
        BY <1>3, RetainedProperties
    <3>2. z # Corrupt => z \in Messages
        BY <1>3 DEF Line
    <3> QED
        BY <3>1, <3>2, <2>5, FrontOfAppend
  <2> QED
      BY <2>2, <2>5, <2>6, <2>7
<1> QED
    BY <1>1, <1>2, <1>6, <1>7

\* An append, complete or not, adds its message, or costs the message before it.
LEMMA AppendImplements ==
    ASSUME LogInv, op = "idle", sent < MaxMessages, sent' = sent + 1,
           NEW l \in {Corrupt, sent'}, lines' = Appended(l), UNCHANGED <<skip, held>>,
           op' \in {"idle", "add"}, unterminated' \in BOOLEAN,
           l = Corrupt => unterminated'
    PROVE  \/ \E m \in Messages :
                 \/ ~unterminated' /\ History!Add(m)
                 \/ History!AddTorn(m)
           \/ History!AddGlued
<1>1. sent' \in Messages /\ l \in Line
    BY LogTypes, MaxMessagesAssumption DEF Messages, Line
<1>2. offset = skip /\ offset' = offset
    BY DEF offset
<1>3. unterminated \in BOOLEAN
    BY LogTypes
<1>4. CASE unterminated
  <2>1. \/ Seen' = Seen /\ Unseen' = Unseen
        \/ Seen # <<>> /\ Seen' = Front(Seen) /\ Unseen' = Unseen
        \/ Unseen # <<>> /\ Unseen' = Front(Unseen) /\ Seen' = Seen
      BY <1>1, <1>2, <1>4, GlueSeen
  <2>2. Seen # <<>> => Front(Seen) \in {Front(h) : h \in {Seen} \ {<<>>}}
      OBVIOUS
  <2>3. Unseen # <<>> => Front(Unseen) \in {Front(h) : h \in {Unseen} \ {<<>>}}
      OBVIOUS
  <2>4. \/ Seen' \in {Seen} \cup {Front(h) : h \in {Seen} \ {<<>>}} /\ Unseen' = Unseen
        \/ Unseen' \in {Front(h) : h \in {Unseen} \ {<<>>}} /\ Seen' = Seen
      BY <2>1, <2>2, <2>3
  <2> QED
    <3>1. unterminated' \in BOOLEAN /\ held' = held
        OBVIOUS
    <3>2. History!AddGlued
        BY <2>4, <3>1, <1>4, Zenon DEF History!AddGlued, History!Front, Front, Seen, Unseen
    <3> QED
        BY <3>2
<1>5. CASE ~unterminated
  <2>1. /\ Seen' = IF l = Corrupt THEN Seen ELSE Append(Seen, l)
        /\ Unseen' = Unseen
      BY <1>1, <1>2, <1>5, AppendSeen
  <2>2. l # Corrupt => l = sent'
      OBVIOUS
  <2>3. Seen' \in {Seen, Append(Seen, sent')}
      BY <2>1, <2>2
  <2>4. History!AddTorn(sent')
      BY <2>1, <2>3, <1>5 DEF History!AddTorn, Seen, Unseen
  <2> QED
      BY <2>4, <1>1
<1> QED
    BY <1>3, <1>4, <1>5

LEMMA HistoryInit == LogInit => History!Init
<1> SUFFICES ASSUME LogInit PROVE History!Init
    OBVIOUS
<1>1. lines = <<>> /\ offset = 0 /\ held = <<>> /\ unterminated = FALSE
    BY DEF LogInit, offset
<1>2. SubSeq(<<>>, 1, 0) = <<>> /\ 0 + 1 = 1 /\ Len(<<>>) = 0
    BY SubSeqEmpty
<1>3. Seen = <<>> /\ Unseen = <<>>
    BY <1>1, <1>2, RetainedEmpty DEF Seen, Unseen, ReadMessages
<1> QED
    BY <1>1, <1>3 DEF History!Init, Seen, Unseen

LEMMA HistoryStep ==
    LogInv /\ [LogNext]_logVars => [History!Next]_(History!vars)
<1> SUFFICES ASSUME LogInv, [LogNext]_logVars PROVE [History!Next]_(History!vars)
    OBVIOUS
<1>1. CASE AddMessage
  <2>1. /\ op = "idle" /\ sent < MaxMessages /\ sent' = sent + 1
        /\ lines' = Appended(sent') /\ UNCHANGED <<skip, held>>
        /\ op' = "add" /\ unterminated' = FALSE
      BY <1>1 DEF AddMessage
  <2>2. sent' # Corrupt
      BY <2>1, LogTypes DEF Corrupt
  <2>3. \/ \E m \in Messages : \/ ~unterminated' /\ History!Add(m)
                               \/ History!AddTorn(m)
        \/ History!AddGlued
      BY <2>1, <2>2, AppendImplements
  <2> QED
      BY <2>3 DEF History!Next
<1>2. CASE AppendTorn
  <2>1. /\ op = "idle" /\ sent < MaxMessages /\ sent' = sent + 1
        /\ UNCHANGED <<skip, held>> /\ op' = "idle" /\ unterminated' = TRUE
        /\ \E l \in {Corrupt, sent'} : lines' = Appended(l)
      BY <1>2 DEF AppendTorn
  <2>2. \/ \E m \in Messages : \/ ~unterminated' /\ History!Add(m)
                               \/ History!AddTorn(m)
        \/ History!AddGlued
      BY <2>1, AppendImplements
  <2> QED
      BY <2>2 DEF History!Next
<1>3. CASE Added
  <2>1. op = "add" /\ op' = "idle" /\ UNCHANGED <<lines, unterminated, skip, held, before>>
      BY <1>3 DEF Added, files
  <2>2. offset' = offset
      BY <2>1 DEF offset
  <2>3. Seen' = Seen /\ Unseen' = Unseen
      BY <2>1, <2>2 DEF Seen, Unseen, ReadMessages
  <2> QED
      BY <2>1, <2>3 DEF History!vars, Seen, Unseen
<1>4. CASE GetHistory
  <2>1. op = "idle" /\ held' = ReadMessages(skip)
        /\ UNCHANGED <<lines, unterminated, skip, op, before>>
      BY <1>4 DEF GetHistory, files
  <2>2. offset' = offset /\ offset = skip
      BY <2>1 DEF offset
  <2>3. Seen' = Seen /\ Unseen' = Unseen /\ held' = Seen
      BY <2>1, <2>2 DEF Seen, Unseen, ReadMessages
  <2>4. History!Get
      BY <2>1, <2>3 DEF History!Get, Seen, Unseen
  <2> QED
      BY <2>4 DEF History!Next
<1>5. CASE \E k \in 0 .. MaxMessages : TruncateHistory(k)
  <2>1. PICK k \in 0 .. MaxMessages : TruncateHistory(k)
      BY <1>5
  <2>2. op = "idle" /\ skip' = SkipFor(k)
        /\ UNCHANGED <<lines, unterminated, op, held>>
      BY <2>1 DEF TruncateHistory
  <2>3. offset = skip /\ offset' = SkipFor(k) /\ Seen = ReadMessages(skip)
      BY <2>2 DEF offset, Seen
  <2>4. k \in Nat /\ lines \in Seq(Line) /\ skip \in 0 .. Len(lines)
      BY MaxMessagesAssumption, LogTypes DEF LogInv, LogTypeOK
  <2> DEFINE n == IF k < Len(Seen) THEN k ELSE Len(Seen)
  <2>5. /\ SkipFor(k) \in skip .. Len(lines)
        /\ ReadMessages(SkipFor(k)) = SubSeq(Seen, Len(Seen) - n + 1, Len(Seen))
        /\ Retained(SubSeq(lines, skip + 1, SkipFor(k))) = SubSeq(Seen, 1, Len(Seen) - n)
      BY <2>3, <2>4, SkipForIsExact
  <2>6. Seen' = SubSeq(Seen, Len(Seen) - n + 1, Len(Seen))
      BY <2>2, <2>3, <2>5 DEF Seen, ReadMessages
  <2>7. Unseen' = Unseen \o SubSeq(Seen, 1, Len(Seen) - n)
    <3>1. SkipFor(k) \in 0 .. Len(lines) /\ skip \in 0 .. SkipFor(k)
        BY <2>4, <2>5
    <3>2. Retained(SubSeq(lines, 1, SkipFor(k))) =
             Retained(SubSeq(lines, 1, skip)) \o Retained(SubSeq(lines, skip + 1, SkipFor(k)))
        BY <2>4, <3>1, RetainedTwoParts
    <3> QED
        BY <2>2, <2>3, <2>5, <3>2 DEF Unseen
  <2>8. Seen \in Seq(Messages) /\ Unseen \in Seq(Messages) /\ Len(Seen) \in Nat
      BY SeenProperties
  <2>9. CASE k < Len(Seen)
    <3>1. History!Truncate(k)
        BY <2>2, <2>6, <2>7, <2>9 DEF History!Truncate, Seen, Unseen
    <3>2. k \in 0 .. Len(ReadMessages(offset))
        BY <2>4, <2>8, <2>9 DEF Seen
    <3> QED
        BY <3>1, <3>2 DEF History!Next
  <2>10. CASE ~(k < Len(Seen))
    <3>1. n = Len(Seen) /\ Len(Seen) - n + 1 = 1 /\ Len(Seen) - n = 0
        BY <2>8, <2>10
    <3>2. SubSeq(Seen, 1, Len(Seen)) = Seen /\ SubSeq(Seen, 1, 0) = <<>>
          /\ Unseen \o <<>> = Unseen
        BY ONLY SMTT(20), <2>8, SubSeqFull, SubSeqEmpty, ConcatEmptySeq
    <3>3. Seen' = Seen /\ Unseen' = Unseen
        BY <2>6, <2>7, <3>1, <3>2
    <3> QED
        BY <2>2, <3>3 DEF History!vars, Seen, Unseen
  <2> QED
      BY <2>9, <2>10
<1>6. CASE \E h \in Histories(held) : SetHistory(h)
  <2>1. op = "idle" /\ op' = "set" /\ before' = skip
        /\ UNCHANGED <<lines, unterminated, held>>
      BY <1>6 DEF SetHistory
  <2>2. offset' = offset
      BY <2>1 DEF offset
  <2>3. Seen' = Seen /\ Unseen' = Unseen
      BY <2>1, <2>2 DEF Seen, Unseen, ReadMessages
  <2> QED
      BY <2>1, <2>3 DEF History!vars, Seen, Unseen
<1>7. CASE Compact
  <2>1. op = "idle" /\ op' = "compact" /\ before' = skip
        /\ UNCHANGED <<lines, unterminated, held>>
      BY <1>7 DEF Compact
  <2>2. offset' = offset
      BY <2>1 DEF offset
  <2>3. Seen' = Seen /\ Unseen' = Unseen
      BY <2>1, <2>2 DEF Seen, Unseen, ReadMessages
  <2> QED
      BY <2>1, <2>3 DEF History!vars, Seen, Unseen
<1>8. CASE RewriteJSONL
  <2>1. op \in {"set", "compact"} /\ lines' = arg /\ unterminated' = FALSE
        /\ op' = "idle" /\ UNCHANGED <<skip, held>>
      BY <1>8 DEF RewriteJSONL, Rewritten
  <2>2. skip = 0 /\ arg \in Seq(Messages)
      BY <2>1 DEF LogInv, LogTypeOK, WriteInv
  <2>3. offset' = 0
      BY <2>1, <2>2 DEF offset
  <2>4. SubSeq(arg, 1, Len(arg)) = arg /\ SubSeq(arg, 1, 0) = <<>> /\ Retained(arg) = arg
        /\ 0 + 1 = 1
      BY <2>2, SubSeqFull, SubSeqEmpty, RetainedMessages
  <2>5. Seen' = arg
      BY <2>1, <2>3, <2>4 DEF Seen, ReadMessages
  <2>6. Unseen' = <<>>
      BY <2>1, <2>3, <2>4, RetainedEmpty DEF Unseen
  <2>7. CASE op = "set"
    <3>1. arg \in Histories(held)
        BY <2>7 DEF LogInv, WriteInv
    <3>2. History!Replace(arg)
        BY <2>1, <2>5, <2>6 DEF History!Replace, Seen, Unseen
    <3> QED
        BY <3>1, <3>2 DEF History!Next, History!Histories, Histories
  <2>8. CASE op = "compact"
    <3>1. arg = Seen
        BY <2>8 DEF LogInv, WriteInv, Seen, offset
    <3>2. History!Reclaim
        BY <2>1, <2>5, <2>6, <3>1 DEF History!Reclaim, Seen, Unseen
    <3> QED
        BY <3>2 DEF History!Next
  <2> QED
      BY <2>1, <2>7, <2>8
<1>9. CASE Interrupted
  <2>1. op' = "idle" /\ UNCHANGED <<lines, unterminated, skip, held>> /\ op # "idle"
      BY <1>9 DEF Interrupted, files
  <2>2. offset' = skip
      BY <2>1 DEF offset
  <2>3. CASE op \in {"set", "compact"}
    <3>1. skip = 0
        BY <2>3 DEF LogInv, WriteInv
    <3>2. SubSeq(lines, 1, Len(lines)) = lines /\ SubSeq(lines, 1, 0) = <<>> /\ 0 + 1 = 1
        BY LogTypes, SubSeqFull, SubSeqEmpty
    <3>3. Seen' = Retained(lines)
        BY <2>1, <2>2, <3>1, <3>2 DEF Seen, ReadMessages
    <3>4. Unseen' = <<>>
        BY <2>1, <2>2, <3>1, <3>2, RetainedEmpty DEF Unseen
    <3>5. Seen' = Unseen \o Seen
        BY <3>3, SeenProperties
    <3>6. History!Reappear
        BY <2>1, <3>4, <3>5 DEF History!Reappear, Seen, Unseen
    <3> QED
        BY <3>6 DEF History!Next
  <2>4. CASE op \notin {"set", "compact"}
    <3>1. offset' = offset
        BY <2>2, <2>4 DEF offset
    <3>2. Seen' = Seen /\ Unseen' = Unseen
        BY <2>1, <3>1 DEF Seen, Unseen, ReadMessages
    <3> QED
        BY <2>1, <3>2 DEF History!vars, Seen, Unseen
  <2> QED
      BY <2>3, <2>4
<1>10. CASE UNCHANGED logVars
  <2>1. UNCHANGED <<lines, unterminated, skip, held, op, before>>
      BY <1>10 DEF logVars, files
  <2>2. offset' = offset
      BY <2>1 DEF offset
  <2>3. Seen' = Seen /\ Unseen' = Unseen
      BY <2>1, <2>2 DEF Seen, Unseen, ReadMessages
  <2> QED
      BY <2>1, <2>3 DEF History!vars, Seen, Unseen
<1> QED
    BY <1>1, <1>2, <1>3, <1>4, <1>5, <1>6, <1>7, <1>8, <1>9, <1>10 DEF LogNext

\* The files implement the history that the store promises, through crashes, torn
\* appends and rewrites in two steps, for any number of messages.
THEOREM FilesImplementHistory == LogSpec => Implements
<1>1. LogInit => History!Init
    BY HistoryInit
<1>2. LogInv /\ [LogNext]_logVars => [History!Next]_(History!vars)
    BY HistoryStep
<1> QED
    BY <1>1, <1>2, LogInvHolds, PTL DEF LogSpec, Implements, History!Spec

=============================================================================
