------------------------------ MODULE Fallback ------------------------------
(***************************************************************************)
(* The fallback chain of models (pkg/providers/fallback.go) with what its   *)
(* executions share: the cooldown of each candidate (cooldown.go) and its   *)
(* token bucket (ratelimiter.go).  Turns of several sessions execute the    *)
(* chain at the same time, and any of them may be canceled.  A reload of    *)
(* the configuration builds another chain, which shares nothing with it.    *)
(*                                                                         *)
(* The clock is an integer that jumps to the instants at which something    *)
(* may change; Minute is its resolution, and NoTime the zero time.          *)
(***************************************************************************)
EXTENDS Integers, Sequences, FiniteSetsExt, SequencesExt

CONSTANTS
    Keys,           \* stable keys of candidates
    RPM,            \* their requests per minute; 0: unrestricted
    Requests,       \* what each execution may be asked for: a candidate list without
                    \* repetition, and whether there are images in the request
    Minute,         \* ticks of the clock per minute
    MaxExecs,       \* bound: executions of a chain, after which no more start
    MaxCancels,     \* bound: executions canceled
    MaxJumps        \* bound: jumps of the clock nobody waits for

Execs == 1 .. MaxExecs

ASSUME FallbackAssumption ==
    /\ RPM \in [Keys -> Nat]
    /\ \A e \in Execs : Requests[e] \subseteq [list : Seq(Keys) \ {<<>>}, image : BOOLEAN]
    /\ Minute \in Nat \ {0} /\ MaxExecs \in Nat
    /\ MaxCancels \in Nat /\ MaxJumps \in Nat

NoTime  == 0
Hour    == 60 * Minute

\* Classes of the errors a provider returns: billing, the other retriable ones, and
\* those that end the execution (format, context overflow, unclassified).
Errors == {"billing", "retriable", "fatal"}

NoEntry == [errors |-> 0, billing |-> 0, cooldown |-> NoTime, disabled |-> NoTime,
            last |-> NoTime]

VARIABLES
    now,        \* the clock
    entry,      \* the cooldown entry of a key
    tokens,     \* the bucket of a key, in 1/Minute tokens
    tick,       \* lastTick of the bucket
    pc,         \* control of each execution
    todo,       \* candidates it has still to try, the present one first
    image,      \* it goes through ExecuteImageCandidate
    canceled,   \* its context was canceled
    wake,       \* when the timer of its Wait fires
    jumps,      \* jumps of the clock so far
    cancels,    \* executions canceled so far
    grants      \* history variable: when tokens were taken, per key

execs   == <<pc, todo, image, canceled, wake>>
buckets == <<tokens, tick, grants>>
bounds  == <<jumps, cancels>>
vars    == <<now, entry, buckets, execs, bounds>>

Full == [k \in Keys |-> RPM[k] * Minute]

Init ==
    /\ now = 1
    /\ entry = [k \in Keys |-> NoEntry]
    /\ tokens = Full
    /\ tick = [k \in Keys |-> now]
    /\ pc = [e \in Execs |-> "idle"]
    /\ todo = [e \in Execs |-> <<>>]
    /\ image = [e \in Execs |-> FALSE]
    /\ canceled = [e \in Execs |-> FALSE]
    /\ wake = [e \in Execs |-> NoTime]
    /\ jumps = 0 /\ cancels = 0
    /\ grants = [k \in Keys |-> <<>>]

-----------------------------------------------------------------------------
(* The cooldown tracker.  A "Mutant" states the next definition as a        *)
(* plausible bug would; no specification here uses it.                      *)

\* The billing disable and the standard cooldown are over.
IsAvailable(x) == now >= x.disabled /\ now >= x.cooldown

\* min(1h, 1min * 5^min(n-1, 3)).
StandardCooldown(n) == Min({Hour, Minute * 5 ^ Min({n - 1, 3})})

\* min(24h, 5h * 2^min(n-1, 10)).
BillingCooldown(n) == Min({24 * Hour, 5 * Hour * 2 ^ Min({n - 1, 10})})

\* The counts a new failure adds to; the mutant turns the comparison around.
CountedMutant(x) ==
    IF x.last # NoTime /\ now - x.last <= 24 * Hour
      THEN [x EXCEPT !.errors = 0, !.billing = 0] ELSE x
Counted(x) ==
    IF x.last # NoTime /\ now - x.last > 24 * Hour
      THEN [x EXCEPT !.errors = 0, !.billing = 0] ELSE x

MarkFailure(x, reason) ==
    LET y == [Counted(x) EXCEPT !.errors = @ + 1, !.last = now]
    IN IF reason = "billing"
         THEN [y EXCEPT !.billing = @ + 1, !.disabled = now + BillingCooldown(y.billing + 1)]
         ELSE [y EXCEPT !.cooldown = now + StandardCooldown(y.errors)]

MarkSuccess(x) == [NoEntry EXCEPT !.last = x.last]

-----------------------------------------------------------------------------
(* The token bucket.                                                       *)

\* refillLocked; the mutant forgets the cap.
RefilledMutant(k) == tokens[k] + (now - tick[k]) * RPM[k]
Refilled(k) == Min({RPM[k] * Minute, tokens[k] + (now - tick[k]) * RPM[k]})

HasToken(k) == RPM[k] = 0 \/ Refilled(k) >= Minute

\* lastTick after a test of the bucket; the mutant moves it only when a token is taken.
TickAfterMutant(k) == IF HasToken(k) THEN now ELSE tick[k]
TickAfter(k) == now

\* What the test of the bucket leaves: the token is taken when there is one.
TakeToken(k) ==
    IF RPM[k] = 0 THEN UNCHANGED buckets
    ELSE /\ tokens' = [tokens EXCEPT ![k] =
                          Refilled(k) - (IF HasToken(k) THEN Minute ELSE 0)]
         /\ tick' = [tick EXCEPT ![k] = TickAfter(k)]
         /\ grants' = IF HasToken(k)
                        THEN [grants EXCEPT ![k] = Append(@, now)] ELSE grants

\* How long the timer of Wait runs, rounded up.
Deficit(k) == (Minute - Refilled(k) + RPM[k] - 1) \div RPM[k]

-----------------------------------------------------------------------------
(* An execution.                                                           *)

Candidate(e) == Head(todo[e])
IsLast(e)    == Len(todo[e]) = 1

Goto(e, p) == pc' = [pc EXCEPT ![e] = p]

\* The execution returns: a result, an error or FallbackExhausted.
Return(e) ==
    /\ Goto(e, "done")
    /\ todo' = [todo EXCEPT ![e] = <<>>]
    /\ image' = [image EXCEPT ![e] = FALSE]
    /\ canceled' = [canceled EXCEPT ![e] = FALSE]
    /\ wake' = [wake EXCEPT ![e] = NoTime]

\* The next iteration of the loop over the candidates, if there is one.
Continue(e) ==
    IF IsLast(e) THEN Return(e)
    ELSE /\ Goto(e, "check")
         /\ todo' = [todo EXCEPT ![e] = Tail(@)]
         /\ UNCHANGED <<image, canceled, wake>>

\* A candidate is skipped; the mutant comes back to it.
SkipMutant(e) == Goto(e, "check") /\ UNCHANGED <<todo, image, canceled, wake>>
Skip(e) == Continue(e)

\* A turn calls its model.
Execute(e) ==
    /\ pc[e] = "idle"
    /\ Goto(e, "check")
    /\ \E r \in Requests[e] :
          /\ todo' = [todo EXCEPT ![e] = r.list]
          /\ image' = [image EXCEPT ![e] = r.image]
    /\ UNCHANGED <<now, entry, buckets, canceled, wake, bounds>>

\* The head of an iteration: a canceled execution returns, a candidate in cooldown is
\* skipped; images do not look at the cooldown.
Check(e) ==
    /\ pc[e] = "check"
    /\ IF canceled[e] THEN Return(e)
       ELSE IF image[e] \/ IsAvailable(entry[Candidate(e)])
         THEN Goto(e, "acquire") /\ UNCHANGED <<todo, image, canceled, wake>>
         ELSE Skip(e)
    /\ UNCHANGED <<now, entry, buckets, bounds>>

\* TryAcquire: without a token the candidate is skipped, unless it is the last one.
Acquire(e) ==
    LET k == Candidate(e)
    IN /\ pc[e] = "acquire"
       /\ TakeToken(k)
       /\ IF HasToken(k)
            THEN Goto(e, "running") /\ UNCHANGED <<todo, image, canceled, wake>>
          ELSE IF IsLast(e)
            THEN Goto(e, "wait") /\ UNCHANGED <<todo, image, canceled, wake>>
          ELSE Skip(e)
       /\ UNCHANGED <<now, entry, bounds>>

\* One iteration of Wait: it takes a token, or sleeps until there should be one.
Wait(e) ==
    LET k == Candidate(e)
    IN /\ pc[e] = "wait" /\ now >= wake[e]
       /\ TakeToken(k)
       /\ IF HasToken(k)
            THEN Goto(e, "running") /\ wake' = [wake EXCEPT ![e] = NoTime]
            ELSE wake' = [wake EXCEPT ![e] = now + Deficit(k)] /\ UNCHANGED pc
       /\ UNCHANGED <<now, entry, todo, image, canceled, bounds>>

\* The select of Wait, when the context is done.
WaitCanceled(e) ==
    /\ pc[e] = "wait" /\ wake[e] # NoTime /\ canceled[e]
    /\ Return(e)
    /\ UNCHANGED <<now, entry, buckets, bounds>>

\* The provider answers, even though the context may have been canceled.
Succeed(e) ==
    LET k == Candidate(e)
    IN /\ pc[e] = "running"
       /\ entry' = IF image[e] THEN entry ELSE [entry EXCEPT ![k] = MarkSuccess(@)]
       /\ Return(e)
       /\ UNCHANGED <<now, buckets, bounds>>

\* The call returns an error.  After a cancellation it is not looked at; a fatal one ends
\* the execution; for an image the others are not classified and mark nothing.
Fail(e, error) ==
    LET k == Candidate(e)
    IN /\ pc[e] = "running"
       /\ IF canceled[e] \/ error = "fatal"
            THEN Return(e) /\ UNCHANGED entry
            ELSE /\ Continue(e)
                 /\ entry' = IF image[e] THEN entry
                             ELSE [entry EXCEPT ![k] = MarkFailure(@, error)]
       /\ UNCHANGED <<now, buckets, bounds>>

\* The user aborts the turn.
Cancel(e) ==
    /\ pc[e] \in {"check", "acquire", "wait", "running"} /\ ~canceled[e]
    /\ cancels < MaxCancels /\ cancels' = cancels + 1
    /\ canceled' = [canceled EXCEPT ![e] = TRUE]
    /\ UNCHANGED <<now, entry, buckets, pc, todo, image, wake, jumps>>

-----------------------------------------------------------------------------
(* The surroundings.                                                       *)

Timers == {wake[e] : e \in {f \in Execs : pc[f] = "wait"}}

\* Instants at which a test of the time may change.
Instants ==
    {now + 1} \cup Timers \cup
    UNION {{entry[k].cooldown, entry[k].disabled, entry[k].last + 24 * Hour + 1} :
              k \in {x \in Keys : entry[x] # NoEntry}}

\* Time passes, at most MaxJumps times unless an execution waits for it.
Advance(t) ==
    /\ t > now
    /\ now' = t
    /\ \/ jumps < MaxJumps /\ jumps' = jumps + 1
       \/ jumps = MaxJumps /\ t \in Timers /\ UNCHANGED jumps
    /\ UNCHANGED <<entry, buckets, execs, cancels>>

Step(e) ==
    \/ Check(e) \/ Acquire(e) \/ Wait(e) \/ WaitCanceled(e) \/ Succeed(e)
    \/ \E error \in Errors : Fail(e, error)

Next ==
    \/ \E e \in Execs : Execute(e) \/ Step(e) \/ Cancel(e)
    \/ \E t \in Instants : Advance(t)

\* An execution goes on, its provider returns, and time passes for those who wait.
Fairness ==
    /\ \A e \in Execs : WF_vars(Step(e))
    /\ WF_vars(\E t \in Timers : Advance(t))

Spec == Init /\ [][Next]_vars /\ Fairness

-----------------------------------------------------------------------------
(* Properties.                                                             *)

Entries == [errors : Nat, billing : Nat, cooldown : Nat, disabled : Nat, last : Nat]

\* Values stay in their types: a bucket is never overdrawn nor above its burst, and no
\* backoff is longer than an hour, or than a day for billing (cooldown.go:176, 191).
TypeOK ==
    /\ now \in Nat \ {0} /\ jumps \in 0 .. MaxJumps
    /\ cancels \in 0 .. MaxCancels
    /\ entry \in [Keys -> Entries]
    /\ \A k \in Keys :
          /\ entry[k].cooldown <= entry[k].last + Hour
          /\ entry[k].disabled <= entry[k].last + 24 * Hour
          /\ tokens[k] <= RPM[k] * Minute /\ tick[k] \in 1 .. now
    /\ tokens \in [Keys -> Nat] /\ tick \in [Keys -> Nat] /\ grants \in [Keys -> Seq(Nat)]
    /\ pc \in [Execs -> {"idle", "check", "acquire", "wait", "running", "done"}]
    /\ todo \in [Execs -> Seq(Keys)]
    /\ image \in [Execs -> BOOLEAN] /\ canceled \in [Execs -> BOOLEAN]
    /\ wake \in [Execs -> Nat]

\* Whatever the executions that compete for the bucket of a candidate, waiting or not, in
\* any window of time no more calls are admitted than its burst and what the window
\* refills (ratelimiter.go:12 "Allows up to RPM requests per minute with a burst equal to RPM").
RateIsBounded ==
    \A k \in Keys :
        \A i, j \in DOMAIN grants[k] :
            i <= j => (j - i + 1) * Minute
                          <= RPM[k] * (Minute + grants[k][j] - grants[k][i])

\* Failures of overlapping calls, of any reasons and in any order, never bring a candidate
\* back earlier: only a success shortens what an earlier failure imposed (cooldown.go:42).
FailureNeverShortens ==
    [][\A k \in Keys :
          entry[k] # entry'[k] =>
              \/ entry'[k] = MarkSuccess(entry[k])
              \/ /\ entry'[k].cooldown >= entry[k].cooldown
                 /\ entry'[k].disabled >= entry[k].disabled]_vars

\* From some time on no execution starts.
NewcomersStop == <>[][\A e \in Execs : pc[e] = "idle" => pc'[e] = "idle"]_vars

\* Once no more executions start, every execution returns: no candidate is tried forever,
\* no cooldown is waited for, and those that wait for tokens of the same last candidate get
\* one after the other.  Nothing better can be said: Wait has no queue, so that a sleeper
\* finds the bucket empty for as long as newcomers take each token first (ratelimiter.go:43).
ExecutionsReturn ==
    NewcomersStop => \A e \in Execs : pc[e] = "check" ~> pc[e] = "done"

\* What the comment of Execute says: a candidate in cooldown is skipped (fallback.go:119), so
\* that no call of it starts.  The last candidate's token is waited for, up to a minute or
\* longer, between the check of the cooldown and the call.
CoolingIsSkipped ==
    [][\A e \in Execs :
          pc[e] = "wait" /\ wake[e] # NoTime /\ pc'[e] = "running" /\ ~image[e] =>
              IsAvailable(entry[Candidate(e)])]_vars
=============================================================================
