-------------------------------- MODULE Cron --------------------------------
(***************************************************************************)
(* The scheduler of jobs (pkg/cron/service.go) with its client, the cron   *)
(* tool: a loop sleeps until the next job is due and runs what is, while   *)
(* jobs are added, updated from a copy, enabled and removed, saving the    *)
(* file may fail, and the gateway reloads - which stops the service and    *)
(* starts another one on the same file - or crashes.                       *)
(*                                                                         *)
(* Time is counted in units of the bounded clock now; NoTime is nil.       *)
(***************************************************************************)
EXTENDS Integers, FiniteSetsExt

CONSTANTS
    MaxJobs,        \* bound: jobs ever added
    MaxTime,        \* bound of the clock
    Hour,           \* what the loop sleeps when no job is planned (an hour)
    Schedules,      \* schedules of jobs: records of a kind and a number
    MaxEdits,       \* bound: calls of the service by its clients
    MaxServices     \* bound: services started, by reloads and restarts

ASSUME CronAssumption ==
    /\ MaxJobs \in Nat /\ MaxTime \in Nat \ {0} /\ Hour \in Nat \ {0}
    /\ MaxEdits \in Nat /\ MaxServices \in Nat \ {0}
    /\ Schedules \subseteq [kind : {"at", "every", "cron"}, v : Nat \ {0}]

Jobs     == 1 .. MaxJobs
Services == 1 .. MaxServices
NoTime   == 0
Times    == 1 .. MaxTime

\* A job: State.NextRunAtMS is next; DeleteAfterRun is set for one-time jobs, by
\* AddJob and by the tool's update.
Job(s, t) == [enabled |-> TRUE, schedule |-> s, next |-> t]

NoSchedule == [kind |-> "none", v |-> 0]
Absent     == [enabled |-> FALSE, schedule |-> NoSchedule, next |-> NoTime]

VARIABLES
    now,        \* the clock
    mem,        \* cs.store of each service
    disk,       \* the jobs in the file
    cur,        \* the service the gateway uses now; 0 before the first
    running,    \* cs.running
    pc,         \* control of runLoop of each service
    timer,      \* when the timer of runLoop fires
    due,        \* dueJobIDs the loop has still to execute, in the order of the store,
                \* which is that of the ids
    copy,       \* the copy of a job a call of the tool works on, and its service
    added,      \* jobs added so far
    edits,      \* calls so far
    missed,     \* history variable: the loop was not told of a change
    fired,      \* history variable: the due times taken, with their jobs
    twice,      \* history variable: those that were taken once more
    restored    \* history variable: those an update has put back

client == <<copy, added, edits>>
ghost  == <<fired, twice, restored>>
loop   == <<pc, timer, due>>
vars   == <<now, mem, disk, cur, running, loop, client, missed, ghost>>

Empty  == [j \in Jobs |-> Absent]
NoCopy == [service |-> 0, id |-> 0, job |-> Absent]

Init ==
    /\ now = 1
    /\ mem = [g \in Services |-> Empty]
    /\ disk = Empty
    /\ cur = 0
    /\ running = [g \in Services |-> FALSE]
    /\ pc = [g \in Services |-> "gone"]
    /\ timer = [g \in Services |-> NoTime]
    /\ due = [g \in Services |-> {}]
    /\ copy = NoCopy
    /\ added = 0
    /\ edits = 0
    /\ missed = FALSE
    /\ fired = {} /\ twice = {} /\ restored = {}

-----------------------------------------------------------------------------
(* Helpers.  A "Mutant" states the next definition as a plausible bug      *)
(* would; no specification here uses it.                                   *)

\* The gateway has a service that runs.
Serving == IF cur = 0 THEN FALSE ELSE running[cur]

Present(m) == {j \in Jobs : m[j] # Absent}
Planned(m) == {j \in Present(m) : m[j].enabled /\ m[j].next # NoTime}

\* computeNextRun at time t.
NextRun(s, t) ==
    CASE s.kind = "at"    -> IF s.v > t THEN s.v ELSE NoTime
      [] s.kind = "every" -> t + s.v
      [] s.kind = "cron"  -> (t \div s.v + 1) * s.v

\* recomputeNextRuns, when a service starts; the mutant trusts what was saved.
RecomputedMutant(m) == m
Recomputed(m) ==
    [j \in Jobs |->
        IF m[j] # Absent /\ m[j].enabled
          THEN [m[j] EXCEPT !.next = NextRun(m[j].schedule, now)] ELSE m[j]]

DueJobs(m) == {j \in Planned(m) : m[j].next <= now}

\* The due jobs are marked, before they run.
Marked(m) == [j \in Jobs |-> IF j \in DueJobs(m) THEN [m[j] EXCEPT !.next = NoTime] ELSE m[j]]

\* When the timer fires, armed at time now.  The mutants take the last due time for
\* the first one, and sleep until they are woken when no job is planned.
WakeAtMutantLast(m) ==
    IF Planned(m) = {} THEN now + Hour
    ELSE Max({now} \cup {m[j].next : j \in Planned(m)})
WakeAtMutantForever(m) ==
    IF Planned(m) = {} THEN MaxTime + Hour
    ELSE Max({now, Min({m[j].next : j \in Planned(m)})})
WakeAt(m) ==
    IF Planned(m) = {} THEN now + Hour
    ELSE Max({now, Min({m[j].next : j \in Planned(m)})})

\* saveStoreUnsafe writes the whole store, atomically, or fails.
Save(m) == disk' \in {m, disk}

\* The loop of service g waits in its select, where a wake-up reaches it.  (A stopped one
\* takes the closed stopChan, which is always ready.)
Wakes(g) == pc[g] = "select" /\ running[g]

\* Nobody tells the loop of a change; it matters for the service in use.
Untold(g) ==
    /\ missed' = (missed \/ (g = cur /\ pc[g] \in {"armed", "select"}))
    /\ UNCHANGED <<pc, timer>>

\* notify: the channel has no buffer, so that only a waiting loop is woken.
Notify(g) ==
    \/ /\ Wakes(g)
       /\ pc' = [pc EXCEPT ![g] = "top"]
       /\ timer' = [timer EXCEPT ![g] = NoTime]
       /\ UNCHANGED missed
    \/ ~Wakes(g) /\ Untold(g)

-----------------------------------------------------------------------------
(* runLoop.                                                                *)

ReadWake(g) ==
    /\ pc[g] = "top"
    /\ pc' = [pc EXCEPT ![g] = "armed"]
    /\ timer' = [timer EXCEPT ![g] = WakeAt(mem[g])]
    /\ missed' = IF g = cur THEN FALSE ELSE missed
    /\ UNCHANGED <<now, mem, disk, cur, running, due, client, ghost>>

Sleep(g) ==
    /\ pc[g] = "armed"
    /\ pc' = [pc EXCEPT ![g] = "select"]
    /\ UNCHANGED <<now, mem, disk, cur, running, timer, due, client, missed, ghost>>

\* The loop ends; the service is still there for the calls of older turns.
SeeStop(g) ==
    /\ pc[g] = "select" /\ ~running[g]
    /\ pc' = [pc EXCEPT ![g] = "ended"]
    /\ timer' = [timer EXCEPT ![g] = NoTime]
    /\ UNCHANGED <<now, mem, disk, cur, running, due, client, missed, ghost>>

\* checkJobs: what is due is marked, and the store saved, also when nothing is due; then
\* the due jobs run, outside the lock.  (When the service was stopped it does nothing, and
\* the loop comes back to its select.)
CheckJobs(g) ==
    /\ pc[g] = "select" /\ timer[g] <= now /\ running[g]
    /\ timer' = [timer EXCEPT ![g] = NoTime]
    /\ IF DueJobs(mem[g]) # {}
         THEN LET taken == {<<j, mem[g][j].next>> : j \in DueJobs(mem[g])}
              IN  /\ mem' = [mem EXCEPT ![g] = Marked(@)]
                  /\ Save(Marked(mem[g]))
                  /\ due' = [due EXCEPT ![g] = DueJobs(mem[g])]
                  /\ pc' = [pc EXCEPT ![g] = "exec"]
                  /\ fired' = fired \cup taken
                  /\ twice' = twice \cup (taken \cap fired)
         ELSE /\ Save(mem[g])
              /\ pc' = [pc EXCEPT ![g] = "top"]
              /\ UNCHANGED <<mem, due, fired, twice>>
    /\ UNCHANGED <<now, cur, running, client, missed, restored>>

\* The job the loop is at.
FirstDue(g) == Min(due[g])

\* The rest of the due jobs, then the head of the loop; the mutant is off by one.
ContinueMutant(g) ==
    /\ due' = [due EXCEPT ![g] = @ \ {FirstDue(g)}]
    /\ pc' = [pc EXCEPT ![g] = IF due[g] # {} THEN "exec" ELSE "top"]
Continue(g) ==
    /\ due' = [due EXCEPT ![g] = @ \ {FirstDue(g)}]
    /\ pc' = [pc EXCEPT ![g] = IF due[g] # {FirstDue(g)} THEN "exec" ELSE "top"]

\* executeJobByID: the job is looked up once more, and nothing else is asked.
Execute(g) ==
    /\ pc[g] = "exec"
    /\ IF mem[g][FirstDue(g)] = Absent
         THEN Continue(g)
         ELSE pc' = [pc EXCEPT ![g] = "call"] /\ UNCHANGED due
    /\ UNCHANGED <<now, mem, disk, cur, running, timer, client, missed, ghost>>

\* The callback has returned: the state of the job as it is by now is updated.
Executed(g) ==
    /\ pc[g] = "call"
    /\ LET j == FirstDue(g)
           s == mem[g][j].schedule
       IN  IF mem[g][j] = Absent
             THEN UNCHANGED <<mem, disk>>
             ELSE /\ mem' = [mem EXCEPT ![g][j] =
                                IF s.kind = "at" THEN Absent
                                ELSE [@ EXCEPT !.next = NextRun(s, now)]]
                  /\ Save(mem'[g])
    /\ Continue(g)
    /\ UNCHANGED <<now, cur, running, timer, client, missed, ghost>>

-----------------------------------------------------------------------------
(* The gateway: a new service for every start, and crashes.                *)

StartService ==
    /\ cur < MaxServices /\ ~Serving
    /\ LET g == cur + 1
       IN  /\ cur' = g
           /\ mem' = [mem EXCEPT ![g] = Recomputed(disk)]
           /\ disk' = Recomputed(disk)
           /\ running' = [running EXCEPT ![g] = TRUE]
           /\ pc' = [pc EXCEPT ![g] = "top"]
    /\ missed' = FALSE
    /\ UNCHANGED <<now, timer, due, client, ghost>>

\* A reload, or a shutdown; a job that is running goes on.
StopService ==
    /\ Serving
    /\ running' = [running EXCEPT ![cur] = FALSE]
    /\ UNCHANGED <<now, mem, disk, cur, loop, client, missed, ghost>>

\* The process stops: what is not in the file is gone.
Crash ==
    /\ \E g \in Services : pc[g] # "gone"
    /\ mem' = [g \in Services |-> Empty]
    /\ running' = [g \in Services |-> FALSE]
    /\ pc' = [g \in Services |-> "gone"]
    /\ timer' = [g \in Services |-> NoTime]
    /\ due' = [g \in Services |-> {}]
    /\ copy' = NoCopy
    /\ UNCHANGED <<now, disk, cur, added, edits, missed, ghost>>

-----------------------------------------------------------------------------
(* The operations of the service, called by the cron tool.  None of them    *)
(* asks whether the service runs: a turn that is older than a reload calls  *)
(* the stopped service, whose store it saves over that of the new one.      *)

\* Clients have every service this process has started.
Edit(g) == pc[g] # "gone" /\ edits < MaxEdits /\ edits' = edits + 1

\* Saves fail without a wake-up, although the job is in the store already.
AddJob(g) ==
    /\ Edit(g) /\ added < MaxJobs
    /\ added' = added + 1
    /\ \E s \in Schedules :
          mem' = [mem EXCEPT ![g][added'] = Job(s, NextRun(s, now))]
    /\ \/ disk' = mem'[g] /\ Notify(g)
       \/ UNCHANGED disk /\ Untold(g)
    /\ UNCHANGED <<now, cur, running, due, copy, ghost>>

\* The tool's update reads a copy of the job, changes it, and stores it.
GetJob(g) ==
    /\ Edit(g) /\ copy = NoCopy
    /\ \E j \in Present(mem[g]) : copy' = [service |-> g, id |-> j, job |-> mem[g][j]]
    /\ UNCHANGED <<now, mem, disk, cur, running, loop, added, missed, ghost>>

\* Other fields than the schedule leave the next run as it is in the copy.
UpdateJob(g) ==
    /\ copy.service = g
    /\ copy' = NoCopy
    /\ LET j == copy.id
       IN  IF mem[g][j] = Absent
             THEN UNCHANGED <<mem, disk, pc, timer, missed, restored>>
             ELSE /\ \E s \in Schedules \cup {copy.job.schedule} :
                       LET old == mem[g][j]
                           upd == [copy.job EXCEPT !.schedule = s]
                           t   == IF ~upd.enabled THEN NoTime
                                  ELSE IF old.enabled /\ old.schedule = s THEN upd.next
                                  ELSE NextRun(s, now)
                       IN  /\ mem' = [mem EXCEPT ![g][j] = [upd EXCEPT !.next = t]]
                           /\ restored' = IF running[g]
                                            THEN restored \cup ({<<j, t>>} \cap fired)
                                            ELSE restored
                  /\ Notify(g)
                  /\ Save(mem'[g])
    /\ UNCHANGED <<now, cur, running, due, added, edits, fired, twice>>

EnableJob(g) ==
    /\ Edit(g)
    /\ \E j \in Present(mem[g]), on \in BOOLEAN :
          mem' = [mem EXCEPT ![g][j].enabled = on,
                             ![g][j].next =
                                 IF on THEN NextRun(mem[g][j].schedule, now) ELSE NoTime]
    /\ Save(mem'[g])
    /\ Notify(g)
    /\ UNCHANGED <<now, cur, running, due, copy, added, ghost>>

RemoveJob(g) ==
    /\ Edit(g)
    /\ \E j \in Present(mem[g]) : mem' = [mem EXCEPT ![g][j] = Absent]
    /\ Save(mem'[g])
    /\ Notify(g)
    /\ UNCHANGED <<now, cur, running, due, copy, added, ghost>>

Call(g) == AddJob(g) \/ GetJob(g) \/ UpdateJob(g) \/ EnableJob(g) \/ RemoveJob(g)

\* Time passes while the loops sleep or a job runs; the other steps are short.
Tick ==
    /\ now < MaxTime
    /\ \A g \in Services :
          \/ pc[g] \in {"gone", "ended", "call"}
          \/ pc[g] = "select" /\ timer[g] > now
    /\ now' = now + 1
    /\ UNCHANGED <<mem, disk, cur, running, loop, client, missed, ghost>>

-----------------------------------------------------------------------------
LoopStep(g) ==
    ReadWake(g) \/ Sleep(g) \/ SeeStop(g) \/ CheckJobs(g) \/ Execute(g) \/ Executed(g)

Next ==
    \/ \E g \in Services : LoopStep(g) \/ Call(g)
    \/ StartService \/ StopService \/ Crash
    \/ Tick

\* The loops run, callbacks return, and time passes; nothing else must happen.  (The
\* select of a stopped loop chooses at random, so that it sees the stop.)
Fairness ==
    /\ \A g \in Services : WF_vars(LoopStep(g))
    /\ WF_vars(Tick)

Spec == Init /\ [][Next]_vars /\ Fairness

-----------------------------------------------------------------------------
(* Properties.                                                             *)

JobType ==
    [enabled : BOOLEAN, schedule : Schedules \cup {NoSchedule}, next : Nat]

\* The variables keep their types, and a loop is executing just while its list of due
\* jobs is not empty.
TypeOK ==
    /\ now \in Times
    /\ disk \in [Jobs -> JobType] /\ mem \in [Services -> [Jobs -> JobType]]
    /\ cur \in 0 .. MaxServices /\ running \in [Services -> BOOLEAN]
    /\ pc \in [Services -> {"gone", "top", "armed", "select", "exec", "call", "ended"}]
    /\ timer \in [Services -> Nat]
    /\ due \in [Services -> SUBSET Jobs]
    /\ \A g \in Services : pc[g] \in {"exec", "call"} <=> due[g] # {}
    /\ copy \in [service : 0 .. MaxServices, id : 0 .. MaxJobs, job : JobType]
    /\ added \in 0 .. MaxJobs /\ edits \in 0 .. MaxEdits /\ missed \in BOOLEAN
    /\ fired \subseteq Jobs \X Nat /\ restored \subseteq fired /\ twice \subseteq fired

\* No job runs twice for one due time, over stops, reloads, crashes and failed saves,
\* and while an old service still runs its list: but for a due time that an update
\* made from an older copy has put back.
NoDoubleRun == twice \subseteq restored

\* A loop that sleeps wakes in time for every planned job, unless the wake-up for a
\* change was lost: no operation forgets to recompute what the loop waits for.
NoOversleep ==
    ~missed /\ (IF Serving THEN pc[cur] = "select" ELSE FALSE) =>
        \A j \in Planned(mem[cur]) : timer[cur] <= Max({now, mem[cur][j].next})

\* The latest time for which a loop can have set its timer by now: in an hour when it knew
\* of no job, and for the first job it knew of otherwise, which nothing limits.
Horizon ==
    Max({now + Hour} \cup {IF s.kind = "at" THEN s.v ELSE now + s.v : s \in Schedules})

\* A planned job is taken, changed or removed in the end, also when the wake-up for it was
\* lost: the loop wakes for what it knew of before, which may be long after the job is
\* due (the clock must leave it that long).  No job is planned for the first instant.
DueJobRuns ==
    \A j \in Jobs, t \in Times \ {1} :
        LET planned == IF Serving THEN j \in Planned(mem[cur]) /\ mem[cur][j].next = t
                       ELSE FALSE
        IN  planned /\ Horizon <= MaxTime ~> ~planned

\* notify's comment (service.go:342): when nobody takes the wake-up, the loop will wake up
\* soon anyway.  It does not hold: the channel has no buffer, and a loop that has read the
\* store but is not in its select yet sleeps for what it has read.
SkippedWakesSoon ==
    (IF Serving THEN pc[cur] = "select" ELSE FALSE) =>
        \A j \in Planned(mem[cur]) : timer[cur] <= Max({now, mem[cur][j].next})

\* checkJobs's comment (service.go:190): the next run is reset to avoid a duplicate
\* execution.  It does not hold: UpdateJob stores the next run of an older copy.
NeverTwice == twice = {}

=============================================================================
