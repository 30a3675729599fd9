---------------------------- MODULE TurnLoopProofs ----------------------------
(***************************************************************************)
(* Proofs about TurnLoop, for any number of iterations, retries, calls and *)
(* steering messages, in both steering modes.  The inductive invariant     *)
(* says where the answers to the calls stand in the middle of a round of   *)
(* tools (PairInv), that the model's view is the end of the session        *)
(* (SeenInv), where a steering message that was taken is (SteerInv), and   *)
(* what a rollback can find (RestoreInv).                                  *)
(***************************************************************************)
EXTENDS TurnLoop, FiniteSetTheorems, NaturalsInduction, WellFoundedInduction, TLAPS

-----------------------------------------------------------------------------
(* The inductive invariant.                                                *)

\* The points of ExecuteTools at which a call waits for its answer, and when it has it.
Asked    == pc \in {"tool", "running", "executed"}
Answered == pc = "poll"

\* How many answers to the present calls are missing.
Missing == IF Asked THEN nCalls - call + 1 ELSE IF Answered THEN nCalls - call ELSE 0

\* A history in which the calls of iteration i, n of them, miss their last k answers; all
\* others are paired, and no answer is to a call that was not made.
Open(h, i, n, k) ==
    /\ \A p \in DOMAIN h :
          /\ h[p][1] = "calls" =>
                /\ \/ p + h[p][3] <= Len(h)
                   \/ h[p] = Calls(i, n) /\ p + n = Len(h) + k
                /\ \A c \in 1 .. h[p][3] : p + c <= Len(h) => h[p + c] = Result(h[p][2], c)
          /\ h[p][1] = "tool" =>
                /\ h[p][3] \in 1 .. p - 1
                /\ h[p - h[p][3]][1] = "calls" /\ h[p - h[p][3]][2] = h[p][2]
                /\ h[p - h[p][3]][3] >= h[p][3]
    /\ k > 0 => /\ Len(h) + k - n \in 1 .. Len(h)
                /\ h[Len(h) + k - n] = Calls(i, n)

\* A history in which no answer is missing.
Closed(h) ==
    \A p \in DOMAIN h :
        /\ h[p][1] = "calls" =>
              /\ p + h[p][3] <= Len(h)
              /\ \A c \in 1 .. h[p][3] : h[p + c] = Result(h[p][2], c)
        /\ h[p][1] = "tool" =>
              /\ h[p][3] \in 1 .. p - 1
              /\ h[p - h[p][3]][1] = "calls" /\ h[p - h[p][3]][2] = h[p][2]
              /\ h[p - h[p][3]][3] >= h[p][3]

\* Until the turn is aborted it leaves no answer out but those still to come, and there is
\* a user message to cut the session at.
PairInv ==
    ~hardAbort =>
        /\ pc # "done" \/ outcome = "completed" =>
              /\ Open(log, iteration, nCalls, Missing)
              /\ Open(persisted, iteration, nCalls, Missing)
              /\ Boundaries(log) # {}
        /\ Open(msgs, iteration, nCalls, Missing)

\* The first k messages from the end are the same.
Common(h, own, k) ==
    /\ k <= Len(h) /\ k <= Len(own)
    /\ \A i \in 0 .. k - 1 : h[Len(h) - i] = own[Len(own) - i]

\* The model sees the end of the session, and all of it that the turn has written.
SeenInv ==
    ~hardAbort /\ pc \notin {"done", "finalHandled"} =>
        /\ Common(msgs, log, Len(msgs))
        /\ \A k \in Nat : Common(log, persisted, k) => k <= Len(msgs)

In(m, q) == \E i \in DOMAIN q : q[i] = m

\* A steering message is queued, pending, about to be injected or persisted.
Placed(m) ==
    \/ In(m, queue) \/ In(m, exec) \/ (pc = "inject" /\ In(m, local)) \/ In(User(m), persisted)

AllPlaced == \A m \in 1 .. nSteer : Placed(m)

\* Nothing is pending where the turn can end, nor where it is injected a second time.
PendingInv ==
    /\ pc \in {"start", "setup"} \/ (pc = "loop" /\ iteration = 0) => local = exec
    /\ pc = "inject" => exec = <<>> \/ local = exec
    /\ pc \in {"call", "llm", "backoff", "answered", "running", "executed", "poll", "final",
               "finalHandled"} => exec = <<>>
    /\ pc = "tool" /\ exec # <<>> => call > nCalls

SteerInv ==
    /\ pc \notin {"abort", "done"} => AllPlaced
    /\ outcome \in {"completed", "error"} =>
          \A m \in 1 .. nSteer : In(m, queue) \/ In(User(m), persisted)
    /\ PendingInv

\* Until the session is compacted it begins with what the turn found, and that is what a
\* rollback puts back.
RestoreInv ==
    ~compacted =>
        /\ restore = OldLog
        /\ Len(log) >= Len(OldLog) /\ SubSeq(log, 1, Len(OldLog)) = OldLog
        /\ stopper = "write" => snap = OldLog
        /\ outcome = "aborted" => log = OldLog

\* The points of the turn.
ControlInv ==
    /\ call <= nCalls + 1
    /\ pc \in {"running", "executed", "poll"} => call <= nCalls
    /\ pc \notin {"tool", "running", "executed", "poll", "abort"} => call = 1
    /\ pc \in {"start", "setup"} =>
          ~compacted /\ log = OldLog /\ persisted = <<>> /\ msgs = <<>> /\ iteration = 0
    /\ pc \notin {"start", "setup", "loop", "final", "abort", "done"} => iteration > 0
    /\ pc = "backoff" => retry < MaxRetries
    /\ stopper # "idle" \/ pc = "abort" => hardAbort
    /\ pc = "done" <=> outcome # "none"
    /\ pc = "done" => msgs = <<>>

Inv == TypeOK /\ ControlInv /\ PairInv /\ SeenInv /\ SteerInv /\ RestoreInv

-----------------------------------------------------------------------------
(* The least and the greatest of a set of numbers.                          *)

Less == {ss \in Nat \X Nat : ss[1] < ss[2]}

LEMMA LessWellFounded == IsWellFoundedOn(Less, Nat)
BY Zenon, NatLessThanWellFounded DEF OpToRel, Less

LEMMA LeastExists ==
    ASSUME NEW S, S \subseteq Nat, S # {}
    PROVE  \E x \in S : \A y \in S : x <= y
<1>1. PICK x \in S : \A y \in S : ~(<<y, x>> \in Less)
    BY LessWellFounded, WFMin, Zenon
<1>2. ASSUME NEW y \in S
      PROVE  x <= y
  <2>1. x \in Nat /\ y \in Nat
      OBVIOUS
  <2>2. ~(<<y, x>> \in Less)
      BY <1>1
  <2>3. ~(y < x)
      BY <2>1, <2>2 DEF Less
  <2> QED BY <2>1, <2>3
<1> QED BY <1>2

LEMMA GreatestExists ==
    ASSUME NEW S, S \subseteq Nat, S # {}, NEW n \in Nat, \A x \in S : x <= n
    PROVE  \E x \in S : \A y \in S : x >= y
<1> DEFINE T == {n - x : x \in S}
<1>1. T \subseteq Nat /\ T # {}
  <2>1. ASSUME NEW x \in S PROVE n - x \in Nat
      OBVIOUS
  <2>2. \E x \in S : n - x \in T
      OBVIOUS
  <2> QED BY <2>1, <2>2
<1>2. PICK z \in T : \A y \in T : z <= y
    BY <1>1, LeastExists
<1>3. PICK x \in S : z = n - x
    BY <1>2
<1>4. ASSUME NEW y \in S
      PROVE  x >= y
  <2>1. n - y \in T /\ x \in Nat /\ y \in Nat
      OBVIOUS
  <2>2. n - x <= n - y
      BY <1>2, <1>3, <2>1
  <2> QED BY <2>1, <2>2
<1> QED BY <1>4

LEMMA MaxOfSet ==
    ASSUME NEW S, S \subseteq Nat, S # {}, NEW n \in Nat, \A x \in S : x <= n
    PROVE  Max(S) \in S /\ \A y \in S : y <= Max(S)
<1>1. \E x \in S : \A y \in S : x >= y
    BY GreatestExists
<1>2. Max(S) \in S /\ \A y \in S : Max(S) >= y
    BY <1>1 DEF Max
<1>3. \A a, b \in Nat : a >= b => b <= a
    OBVIOUS
<1> QED BY <1>2, <1>3

-----------------------------------------------------------------------------
(* Sequences.                                                              *)

LEMMA AppendedTo ==
    ASSUME NEW S, NEW s \in Seq(S), NEW u \in Seq(S)
    PROVE  /\ s \o u \in Seq(S) /\ Len(s \o u) = Len(s) + Len(u)
           /\ DOMAIN s = 1 .. Len(s) /\ DOMAIN u = 1 .. Len(u)
           /\ DOMAIN (s \o u) = 1 .. Len(s) + Len(u)
           /\ Len(s) \in Nat /\ Len(u) \in Nat
           /\ \A i \in 1 .. Len(s) : (s \o u)[i] = s[i]
           /\ \A i \in 1 .. Len(u) : (s \o u)[Len(s) + i] = u[i]
OBVIOUS

LEMMA PartOf ==
    ASSUME NEW S, NEW s \in Seq(S), NEW a \in 1 .. Len(s) + 1, NEW b \in a - 1 .. Len(s)
    PROVE  /\ SubSeq(s, a, b) \in Seq(S) /\ Len(SubSeq(s, a, b)) = b - a + 1
           /\ DOMAIN SubSeq(s, a, b) = 1 .. b - a + 1
           /\ \A i \in 1 .. b - a + 1 : SubSeq(s, a, b)[i] = s[a + i - 1]
OBVIOUS

LEMMA DropOf ==
    ASSUME NEW S, NEW s \in Seq(S), NEW k \in 0 .. Len(s)
    PROVE  /\ Drop(s, k) \in Seq(S) /\ Len(Drop(s, k)) = Len(s) - k
           /\ DOMAIN Drop(s, k) = 1 .. Len(s) - k
           /\ \A i \in 1 .. Len(s) - k : Drop(s, k)[i] = s[k + i]
<1> DEFINE a == k + 1
<1>1. a \in 1 .. Len(s) + 1 /\ Len(s) \in a - 1 .. Len(s) /\ Len(s) - a + 1 = Len(s) - k
    OBVIOUS
<1>2. Drop(s, k) = SubSeq(s, a, Len(s)) /\ \A i \in 1 .. Len(s) - k : a + i - 1 = k + i
    BY DEF Drop
<1> HIDE DEF a
<1> QED BY <1>1, <1>2, PartOf

LEMMA SameSequence ==
    ASSUME NEW S, NEW s \in Seq(S), NEW u \in Seq(S), Len(s) = Len(u),
           \A i \in 1 .. Len(s) : s[i] = u[i]
    PROVE  s = u
OBVIOUS

\* A history is the part before a cut and the part after it.
LEMMA CutInTwo ==
    ASSUME NEW S, NEW s \in Seq(S), NEW k \in 0 .. Len(s)
    PROVE  s = SubSeq(s, 1, k) \o Drop(s, k)
<1> DEFINE a == SubSeq(s, 1, k)
           b == Drop(s, k)
<1>1. a \in Seq(S) /\ Len(a) = k /\ \A i \in 1 .. k : a[i] = s[i]
  <2>1. 1 \in 1 .. Len(s) + 1 /\ k \in 1 - 1 .. Len(s)
      OBVIOUS
  <2>2. /\ a \in Seq(S) /\ Len(a) = k - 1 + 1
        /\ \A i \in 1 .. k - 1 + 1 : a[i] = s[1 + i - 1]
      BY <2>1, PartOf
  <2>3. k - 1 + 1 = k /\ \A i \in 1 .. k : 1 + i - 1 = i
      OBVIOUS
  <2> QED BY <2>2, <2>3
<1>2. b \in Seq(S) /\ Len(b) = Len(s) - k /\ \A i \in 1 .. Len(s) - k : b[i] = s[k + i]
    BY DropOf
<1> HIDE DEF a, b
<1> DEFINE c == a \o b
<1>3. /\ c \in Seq(S) /\ Len(c) = Len(s)
      /\ \A i \in 1 .. k : c[i] = a[i]
      /\ \A i \in 1 .. Len(s) - k : c[k + i] = b[i]
    BY SMTT(20), <1>1, <1>2, AppendedTo
<1> HIDE DEF c
<1>4. ASSUME NEW i \in 1 .. Len(s)
      PROVE  s[i] = c[i]
  <2>1. CASE i <= k
      BY <1>1, <1>3, <2>1
  <2>2. CASE i > k
    <3>1. i - k \in 1 .. Len(s) - k /\ k + (i - k) = i
        BY <2>2
    <3> DEFINE j == i - k
    <3>2. j \in 1 .. Len(s) - k /\ k + j = i
        BY <3>1
    <3> HIDE DEF j
    <3>3. c[k + j] = s[k + j]
        BY <1>2, <1>3, <3>2
    <3> QED BY <3>2, <3>3
  <2> QED BY <2>1, <2>2
<1>5. s = c
    BY <1>3, <1>4, SameSequence
<1> QED BY <1>5 DEF a, b, c

\* The library's suffixes end with the same messages.
LEMMA SuffixIsCommon ==
    ASSUME NEW S, NEW s \in Seq(S), NEW u \in Seq(S), Common(s, u, Len(s))
    PROVE  IsSuffix(s, u)
<1>1. Len(s) <= Len(u) /\ \A i \in 0 .. Len(s) - 1 : s[Len(s) - i] = u[Len(u) - i]
    BY DEF Common
<1>2. /\ Reverse(s) \in Seq(S) /\ Len(Reverse(s)) = Len(s)
      /\ \A i \in 1 .. Len(s) : Reverse(s)[i] = s[Len(s) - i + 1]
    BY DEF Reverse
<1>3. /\ Reverse(u) \in Seq(S) /\ Len(Reverse(u)) = Len(u)
      /\ \A i \in 1 .. Len(u) : Reverse(u)[i] = u[Len(u) - i + 1]
    BY DEF Reverse
<1>4. \A i \in 1 .. Len(s) : Reverse(s)[i] = Reverse(u)[i]
  <2> TAKE i \in 1 .. Len(s)
  <2>1. /\ i - 1 \in 0 .. Len(s) - 1 /\ i \in 1 .. Len(u)
        /\ Len(s) - (i - 1) = Len(s) - i + 1 /\ Len(u) - (i - 1) = Len(u) - i + 1
      BY <1>1
  <2> QED BY <1>1, <1>2, <1>3, <2>1
<1> QED BY <1>1, <1>2, <1>3, <1>4 DEF IsSuffix, IsPrefix

LEMMA CommonTails ==
    ASSUME NEW S, NEW h \in Seq(S), NEW own \in Seq(S), NEW k \in Nat,
           k <= Len(h), k <= Len(own)
    PROVE  Drop(h, Len(h) - k) = Drop(own, Len(own) - k) <=> Common(h, own, k)
<1> DEFINE a == Len(h) - k
           b == Len(own) - k
           x == Drop(h, a)
           y == Drop(own, b)
<1>1. a \in 0 .. Len(h) /\ b \in 0 .. Len(own) /\ Len(h) - a = k /\ Len(own) - b = k
    OBVIOUS
<1>2. /\ x \in Seq(S) /\ Len(x) = k /\ \A i \in 1 .. k : x[i] = h[a + i]
      /\ y \in Seq(S) /\ Len(y) = k /\ \A i \in 1 .. k : y[i] = own[b + i]
    BY <1>1, DropOf
<1> HIDE DEF x, y
<1>3. ASSUME x = y
      PROVE  Common(h, own, k)
  <2>1. ASSUME NEW i \in 0 .. k - 1
        PROVE  h[Len(h) - i] = own[Len(own) - i]
    <3>1. k - i \in 1 .. k /\ a + (k - i) = Len(h) - i /\ b + (k - i) = Len(own) - i
        OBVIOUS
    <3>2. x[k - i] = h[a + (k - i)] /\ y[k - i] = own[b + (k - i)]
        BY <1>2, <3>1
    <3> QED BY <1>3, <3>1, <3>2
  <2> QED BY <2>1 DEF Common
<1>4. ASSUME Common(h, own, k)
      PROVE  x = y
  <2>1. ASSUME NEW i \in 1 .. k
        PROVE  x[i] = y[i]
    <3>1. k - i \in 0 .. k - 1 /\ Len(h) - (k - i) = a + i /\ Len(own) - (k - i) = b + i
        OBVIOUS
    <3>2. h[Len(h) - (k - i)] = own[Len(own) - (k - i)]
        BY <1>4, <3>1 DEF Common
    <3> QED BY <1>2, <3>1, <3>2
  <2> QED BY <1>2, <2>1, SameSequence
<1> QED BY <1>3, <1>4 DEF x, y

\* matchingTurnMessageTail finds the longest common end.
LEMMA MatchingTailIsLongest ==
    ASSUME NEW S, NEW h \in Seq(S), NEW own \in Seq(S)
    PROVE  /\ MatchingTail(h, own) \in 0 .. Len(own) /\ MatchingTail(h, own) <= Len(h)
           /\ Common(h, own, MatchingTail(h, own))
           /\ \A k \in Nat : Common(h, own, k) => k <= MatchingTail(h, own)
<1> DEFINE T == {k \in 0 .. Len(own) : Common(h, own, k)}
           Longest(k) == /\ k <= Len(h) /\ Drop(h, Len(h) - k) = Drop(own, Len(own) - k)
                         /\ \A j \in k + 1 .. Len(own) :
                               j <= Len(h) => Drop(h, Len(h) - j) # Drop(own, Len(own) - j)
<1>1. Len(h) \in Nat /\ Len(own) \in Nat
    OBVIOUS
<1>2. 0 \in T
    BY <1>1 DEF Common
<1>3. PICK m \in T : \A k \in T : m >= k
  <2>1. T \subseteq Nat /\ T # {} /\ \A k \in T : k <= Len(own)
      BY <1>1, <1>2
  <2> QED BY <1>1, <2>1, GreatestExists
<1>4. \A k \in 0 .. Len(own) : Longest(k) <=> /\ Common(h, own, k)
                                              /\ \A j \in k + 1 .. Len(own) : ~Common(h, own, j)
  <2> TAKE k \in 0 .. Len(own)
  <2>1. ASSUME NEW j \in k .. Len(own)
        PROVE  j <= Len(h) /\ Drop(h, Len(h) - j) = Drop(own, Len(own) - j) <=> Common(h, own, j)
    <3>1. j \in Nat /\ j <= Len(own)
        BY <1>1
    <3>2. CASE j <= Len(h)
        BY <3>1, <3>2, CommonTails
    <3>3. CASE ~(j <= Len(h))
        BY <3>3 DEF Common
    <3> QED BY <3>2, <3>3
  <2>2. k \in k .. Len(own) /\ k + 1 .. Len(own) \subseteq k .. Len(own)
      BY <1>1
  <2>3. k <= Len(h) /\ Drop(h, Len(h) - k) = Drop(own, Len(own) - k) <=> Common(h, own, k)
      BY <2>1, <2>2
  <2>4. \A j \in k + 1 .. Len(own) :
            (j <= Len(h) => Drop(h, Len(h) - j) # Drop(own, Len(own) - j)) <=> ~Common(h, own, j)
      BY <2>1, <2>2
  <2> QED BY <2>3, <2>4
<1>5. Longest(m)
  <2>1. m \in 0 .. Len(own) /\ Common(h, own, m)
      OBVIOUS
  <2>2. \A j \in m + 1 .. Len(own) : ~Common(h, own, j)
      BY <1>1, <1>3, <2>1
  <2> QED BY <1>4, <2>1, <2>2
<1>6. MatchingTail(h, own) \in 0 .. Len(own) /\ Longest(MatchingTail(h, own))
    BY <1>5 DEF MatchingTail
<1> DEFINE t == MatchingTail(h, own)
<1>7. /\ t \in 0 .. Len(own) /\ Common(h, own, t) /\ t <= Len(h)
      /\ \A j \in t + 1 .. Len(own) : ~Common(h, own, j)
    BY <1>4, <1>6 DEF Common
<1> HIDE DEF t
<1>8. ASSUME NEW k \in Nat, Common(h, own, k)
      PROVE  k <= t
    BY <1>1, <1>7, <1>8 DEF Common
<1> QED BY <1>7, <1>8 DEF t

\* What is appended to both is common to both.
LEMMA CommonAppended ==
    ASSUME NEW S, NEW h \in Seq(S), NEW own \in Seq(S), NEW u \in Seq(S), NEW k \in Nat
    PROVE  /\ Common(h, own, k) => Common(h \o u, own \o u, k + Len(u))
           /\ Common(h \o u, own \o u, k) /\ k >= Len(u) => Common(h, own, k - Len(u))
<1> DEFINE x == h \o u
           y == own \o u
           n == Len(u)
<1>1. /\ Len(x) = Len(h) + n /\ Len(y) = Len(own) + n
      /\ \A i \in 1 .. Len(h) : x[i] = h[i]
      /\ \A i \in 1 .. Len(own) : y[i] = own[i]
      /\ \A i \in 1 .. n : x[Len(h) + i] = u[i] /\ y[Len(own) + i] = u[i]
      /\ Len(h) \in Nat /\ Len(own) \in Nat /\ n \in Nat
    BY AppendedTo
<1> HIDE DEF x, y, n
<1>2. ASSUME Common(h, own, k)
      PROVE  Common(x, y, k + n)
  <2> DEFINE m == k + n
  <2>1. ASSUME NEW i \in 0 .. m - 1
        PROVE  x[Len(x) - i] = y[Len(y) - i]
    <3>1. CASE i < n
      <4>1. n - i \in 1 .. n /\ Len(x) - i = Len(h) + (n - i) /\ Len(y) - i = Len(own) + (n - i)
          BY <1>1, <3>1
      <4> QED BY <1>1, <4>1
    <3>2. CASE i >= n
      <4> DEFINE j == i - n
      <4>1. /\ j \in 0 .. k - 1 /\ Len(x) - i = Len(h) - j /\ Len(y) - i = Len(own) - j
            /\ k <= Len(h) /\ k <= Len(own)
          BY <1>1, <1>2, <3>2 DEF Common
      <4> HIDE DEF j
      <4>2. Len(h) - j \in 1 .. Len(h) /\ Len(own) - j \in 1 .. Len(own)
          BY <1>1, <4>1
      <4> QED BY <1>1, <1>2, <4>1, <4>2 DEF Common
    <3> QED BY <1>1, <3>1, <3>2
  <2>2. m <= Len(x) /\ m <= Len(y)
      BY <1>1, <1>2 DEF Common
  <2> HIDE DEF m
  <2>3. Common(x, y, m)
      BY <2>1, <2>2 DEF Common
  <2> QED BY <2>3 DEF m
<1>3. ASSUME Common(x, y, k), k >= n
      PROVE  Common(h, own, k - n)
  <2>1. k - n <= Len(h) /\ k - n <= Len(own)
      BY <1>1, <1>3 DEF Common
  <2>2. ASSUME NEW j \in 0 .. k - n - 1
        PROVE  h[Len(h) - j] = own[Len(own) - j]
    <3> DEFINE i == j + n
    <3>1. i \in 0 .. k - 1 /\ Len(x) - i = Len(h) - j /\ Len(y) - i = Len(own) - j
        BY <1>1, <1>3
    <3> HIDE DEF i
    <3>2. Len(h) - j \in 1 .. Len(h) /\ Len(own) - j \in 1 .. Len(own)
        BY <1>1, <1>3, <2>1
    <3> QED BY <1>1, <1>3, <3>1, <3>2 DEF Common
  <2> QED BY <2>1, <2>2 DEF Common
<1> QED BY <1>2, <1>3 DEF x, y, n

-----------------------------------------------------------------------------
(* Compaction.                                                             *)

LEMMA MiddleTurnIsTurn ==
    ASSUME NEW S, NEW h \in Seq(S), Boundaries(h) # {}
    PROVE  /\ MiddleTurn(h) \in Boundaries(h) /\ Max(Boundaries(h)) \in Boundaries(h)
           /\ Boundaries(h) \subseteq 1 .. Len(h)
<1> DEFINE B == Boundaries(h)
           T == {p \in B : Cardinality({q \in B : q < p}) <= Cardinality(B) \div 2}
<1>1. Len(h) \in Nat /\ B \subseteq 1 .. Len(h) /\ B \subseteq Nat /\ \A x \in B : x <= Len(h)
    BY DEF Boundaries
<1>2. Cardinality(B) \div 2 \in Nat
  <2>1. IsFiniteSet(1 .. Len(h))
      BY <1>1, FS_Interval
  <2>2. Cardinality(B) \in Nat
      BY <1>1, <2>1, FS_Subset, FS_CardinalityType
  <2>3. \A n \in Nat : n \div 2 \in Nat
      OBVIOUS
  <2> QED BY <2>2, <2>3
<1>3. PICK m \in B : \A q \in B : m <= q
    BY <1>1, LeastExists
<1>4. m \in T
  <2>1. {q \in B : q < m} = {}
      BY <1>1, <1>3
  <2>2. Cardinality({q \in B : q < m}) = 0
      BY <2>1, FS_EmptySet
  <2> QED BY <1>2, <2>2
<1> HIDE DEF B
<1>5. T \subseteq Nat /\ T # {} /\ \A x \in T : x <= Len(h)
    BY <1>1, <1>4
<1>6. Max(T) \in T /\ Max(B) \in B
    BY <1>1, <1>5, MaxOfSet DEF B
<1> QED BY <1>1, <1>6 DEF MiddleTurn, B

\* forceCompression cuts a history at one of its user messages, or keeps only that message.
LEMMA CompressCuts ==
    ASSUME NEW S, NEW h \in Seq(S)
    PROVE  /\ Compress(h) \in Seq(S)
           /\ Len(h) > 2 => Compress(h) # h
           /\ Boundaries(h) # {} =>
                 \/ Compress(h) = h
                 \/ \E p \in Boundaries(h) : Compress(h) = <<h[p]>> \/ Compress(h) = Drop(h, p - 1)
<1>1. CASE Len(h) <= 2
    BY <1>1 DEF Compress
<1>2. CASE ~(Len(h) <= 2) /\ Boundaries(h) = {}
  <2> DEFINE k == Len(h) \div 2
  <2>1. k \in 1 .. Len(h)
      BY <1>2
  <2>2. Compress(h) = Drop(h, k)
      BY <1>2, <2>1 DEF Compress
  <2> HIDE DEF k
  <2>3. k \in 0 .. Len(h) /\ Len(h) \in Nat
      BY <2>1
  <2>4. Drop(h, k) \in Seq(S) /\ Len(Drop(h, k)) = Len(h) - k
      BY <2>3, DropOf
  <2>5. Len(Drop(h, k)) # Len(h)
      BY <2>1, <2>3, <2>4
  <2> QED BY <1>2, <2>2, <2>4, <2>5
<1>3. CASE ~(Len(h) <= 2) /\ Boundaries(h) # {}
  <2> DEFINE p == MiddleTurn(h)
             m == Max(Boundaries(h))
  <2>1. /\ p \in Boundaries(h) /\ p \in 1 .. Len(h) /\ m \in Boundaries(h) /\ m \in 1 .. Len(h)
        /\ Len(h) \in Nat /\ Len(h) > 2
      BY <1>3, MiddleTurnIsTurn
  <2>2. Compress(h) = IF p - 1 = 0 THEN <<h[m]>> ELSE Drop(h, p - 1)
      BY <1>3 DEF Compress
  <2> HIDE DEF p, m
  <2>3. CASE p = 1
    <3>1. Compress(h) = <<h[m]>> /\ h[m] \in S
        BY <2>1, <2>2, <2>3
    <3>2. Compress(h) \in Seq(S) /\ Len(Compress(h)) = 1
        BY <3>1
    <3>3. \A x \in Nat : x > 2 => x # 1
        OBVIOUS
    <3>4. Len(h) # 1
        BY <2>1, <3>3
    <3>5. Len(Compress(h)) # Len(h)
        BY <3>2, <3>4
    <3> QED BY <2>1, <3>1, <3>2, <3>5
  <2>4. CASE p # 1
    <3> DEFINE k == p - 1
    <3>1. k \in 1 .. Len(h) /\ k \in 0 .. Len(h)
        BY <2>1, <2>4
    <3>2. Compress(h) = Drop(h, k)
        BY <2>1, <2>2, <2>4
    <3>3. p \in Boundaries(h) /\ Compress(h) = Drop(h, p - 1)
        BY <2>1, <3>2
    <3> HIDE DEF k
    <3>4. Compress(h) \in Seq(S) /\ Len(Compress(h)) = Len(h) - k
        BY <3>1, <3>2, DropOf
    <3>5. Len(Compress(h)) # Len(h)
        BY <2>1, <3>1, <3>4
    <3> QED BY <3>3, <3>4, <3>5
  <2> QED BY <2>3, <2>4
<1> QED BY <1>1, <1>2, <1>3

\* trimHistoryToFitContextWindow keeps an end of the history.
LEMMA TrimmedIsEnd ==
    ASSUME NEW S, NEW h \in Seq(S), NEW s \in Trimmed(h)
    PROVE  s \in Seq(S) /\ Common(s, h, Len(s))
<1>1. CASE s = h
    BY <1>1 DEF Common
<1>2. CASE s = <<>>
    BY <1>2 DEF Common
<1>3. CASE \E p \in Boundaries(h) : s = Drop(h, p - 1)
  <2>1. PICK p \in Boundaries(h) : s = Drop(h, p - 1)
      BY <1>3
  <2> DEFINE k == p - 1
  <2>2. k \in 0 .. Len(h) /\ s = Drop(h, k)
      BY <2>1 DEF Boundaries
  <2> HIDE DEF k
  <2>3. s \in Seq(S) /\ Len(s) = Len(h) - k /\ \A i \in 1 .. Len(h) - k : s[i] = h[k + i]
      BY <2>2, DropOf
  <2>4. ASSUME NEW i \in 0 .. Len(s) - 1
        PROVE  s[Len(s) - i] = h[Len(h) - i]
    <3>1. Len(s) - i \in 1 .. Len(h) - k /\ k + (Len(s) - i) = Len(h) - i
        BY <2>2, <2>3
    <3> QED BY <2>3, <3>1
  <2>5. Len(s) <= Len(h)
      BY <2>2, <2>3
  <2> QED BY <2>3, <2>4, <2>5 DEF Common
<1> QED BY <1>1, <1>2, <1>3 DEF Trimmed

-----------------------------------------------------------------------------
(* Calls and answers.                                                      *)

\* A message is its role, its subject and its number.
LEMMA MessageParts ==
    ASSUME NEW m \in Messages
    PROVE  /\ m[1] \in Roles /\ m[2] \in Int /\ m[3] \in Nat /\ m = <<m[1], m[2], m[3]>>
BY DEF Messages

LEMMA OpenNone ==
    ASSUME NEW h \in Seq(Messages), NEW i, NEW n
    PROVE  Open(h, i, n, 0) <=> Closed(h)
<1>1. \A p \in DOMAIN h : p \in Nat /\ Len(h) \in Nat /\ h[p][3] \in Nat
    BY MessageParts
<1>2. ASSUME Open(h, i, n, 0)
      PROVE  Closed(h)
  <2>1. ASSUME NEW p \in DOMAIN h, h[p][1] = "calls"
        PROVE  p + h[p][3] <= Len(h) /\ \A c \in 1 .. h[p][3] : p + c <= Len(h)
    <3>1. p + h[p][3] <= Len(h) \/ (h[p] = Calls(i, n) /\ p + n = Len(h) + 0)
        BY <1>2, <2>1 DEF Open
    <3>2. p + h[p][3] <= Len(h)
        BY <1>1, <3>1 DEF Calls
    <3> QED BY <1>1, <3>2
  <2> QED BY <1>2, <2>1 DEF Open, Closed
<1>3. ASSUME Closed(h)
      PROVE  Open(h, i, n, 0)
    BY <1>3 DEF Open, Closed
<1> QED BY <1>2, <1>3

LEMMA ClosedIsPaired ==
    ASSUME NEW h \in Seq(Messages), Closed(h)
    PROVE  WellPaired(h)
<1>1. \A p \in DOMAIN h : p \in Nat /\ Len(h) \in Nat /\ h[p][3] \in Nat
    BY MessageParts
<1> QED BY <1>1 DEF Closed, WellPaired

\* No calls are parted from their answers by a cut after k messages.
Whole(h, k) == \A q \in DOMAIN h : q <= k /\ h[q][1] = "calls" => q + h[q][3] <= k

LEMMA CutAfter ==
    ASSUME NEW h \in Seq(Messages), Closed(h), NEW k \in 0 .. Len(h), Whole(h, k)
    PROVE  Closed(Drop(h, k)) /\ Closed(SubSeq(h, 1, k))
<1> DEFINE a == SubSeq(h, 1, k)
           b == Drop(h, k)
<1>0. /\ DOMAIN h = 1 .. Len(h) /\ Len(h) \in Nat /\ k \in Nat /\ k <= Len(h)
      /\ \A p \in DOMAIN h : h[p][3] \in Nat
    BY MessageParts
<1>1. /\ a \in Seq(Messages) /\ Len(a) = k /\ DOMAIN a = 1 .. k
      /\ \A i \in 1 .. k : a[i] = h[i]
  <2>1. 1 \in 1 .. Len(h) + 1 /\ k \in 1 - 1 .. Len(h) /\ k - 1 + 1 = k
      BY <1>0
  <2>2. \A i \in 1 .. k : 1 + i - 1 = i
      OBVIOUS
  <2> QED BY <2>1, <2>2, PartOf
<1>2. /\ b \in Seq(Messages) /\ Len(b) = Len(h) - k /\ DOMAIN b = 1 .. Len(h) - k
      /\ \A i \in 1 .. Len(h) - k : b[i] = h[k + i]
    BY DropOf
<1> HIDE DEF a, b
<1>3. ASSUME NEW p \in DOMAIN a
      PROVE  /\ a[p][1] = "calls" =>
                   /\ p + a[p][3] <= Len(a)
                   /\ \A c \in 1 .. a[p][3] : a[p + c] = Result(a[p][2], c)
             /\ a[p][1] = "tool" =>
                   /\ a[p][3] \in 1 .. p - 1
                   /\ a[p - a[p][3]][1] = "calls" /\ a[p - a[p][3]][2] = a[p][2]
                   /\ a[p - a[p][3]][3] >= a[p][3]
  <2>1. p \in DOMAIN h /\ p \in 1 .. k /\ a[p] = h[p] /\ h[p][3] \in Nat
      BY <1>0, <1>1
  <2>2. ASSUME h[p][1] = "calls"
        PROVE  p + h[p][3] <= k /\ \A c \in 1 .. h[p][3] : a[p + c] = Result(h[p][2], c)
    <3>1. p + h[p][3] <= k
        BY <2>1, <2>2 DEF Whole
    <3>2. ASSUME NEW c \in 1 .. h[p][3]
          PROVE  a[p + c] = Result(h[p][2], c)
      <4>1. p + c \in 1 .. k
          BY <1>0, <2>1, <3>1
      <4>2. h[p + c] = Result(h[p][2], c)
          BY <2>1, <2>2 DEF Closed
      <4> QED BY <1>1, <4>1, <4>2
    <3> QED BY <3>1, <3>2
  <2>3. ASSUME h[p][1] = "tool"
        PROVE  /\ h[p][3] \in 1 .. p - 1
               /\ a[p - h[p][3]][1] = "calls" /\ a[p - h[p][3]][2] = h[p][2]
               /\ a[p - h[p][3]][3] >= h[p][3]
    <3>1. /\ h[p][3] \in 1 .. p - 1
          /\ h[p - h[p][3]][1] = "calls" /\ h[p - h[p][3]][2] = h[p][2]
          /\ h[p - h[p][3]][3] >= h[p][3]
        BY <2>1, <2>3 DEF Closed
    <3>2. p - h[p][3] \in 1 .. k
        BY <2>1, <3>1
    <3> QED BY <1>1, <3>1, <3>2
  <2> QED BY <1>1, <2>1, <2>2, <2>3
<1>4. ASSUME NEW i \in DOMAIN b
      PROVE  /\ b[i][1] = "calls" =>
                   /\ i + b[i][3] <= Len(b)
                   /\ \A c \in 1 .. b[i][3] : b[i + c] = Result(b[i][2], c)
             /\ b[i][1] = "tool" =>
                   /\ b[i][3] \in 1 .. i - 1
                   /\ b[i - b[i][3]][1] = "calls" /\ b[i - b[i][3]][2] = b[i][2]
                   /\ b[i - b[i][3]][3] >= b[i][3]
  <2> DEFINE p == k + i
  <2>1. p \in DOMAIN h /\ b[i] = h[p] /\ h[p][3] \in Nat /\ i \in 1 .. Len(h) - k /\ p = k + i
      BY <1>0, <1>2
  <2> HIDE DEF p
  <2>2. ASSUME h[p][1] = "calls"
        PROVE  i + h[p][3] <= Len(b) /\ \A c \in 1 .. h[p][3] : b[i + c] = Result(h[p][2], c)
    <3>1. p + h[p][3] <= Len(h) /\ \A c \in 1 .. h[p][3] : h[p + c] = Result(h[p][2], c)
        BY <2>1, <2>2 DEF Closed
    <3>2. i + h[p][3] <= Len(h) - k
        BY <1>0, <2>1, <3>1
    <3>3. ASSUME NEW c \in 1 .. h[p][3]
          PROVE  b[i + c] = Result(h[p][2], c)
      <4>1. i + c \in 1 .. Len(h) - k /\ k + (i + c) = p + c
          BY SMTT(20), <1>0, <2>1, <3>2
      <4> QED BY <1>2, <3>1, <4>1
    <3> QED BY <1>2, <3>2, <3>3
  <2>3. ASSUME h[p][1] = "tool"
        PROVE  /\ h[p][3] \in 1 .. i - 1
               /\ b[i - h[p][3]][1] = "calls" /\ b[i - h[p][3]][2] = h[p][2]
               /\ b[i - h[p][3]][3] >= h[p][3]
    <3> DEFINE q == p - h[p][3]
    <3>1. /\ h[p][3] \in 1 .. p - 1
          /\ h[q][1] = "calls" /\ h[q][2] = h[p][2] /\ h[q][3] >= h[p][3]
        BY <2>1, <2>3 DEF Closed
    <3>2. q \in DOMAIN h /\ q + h[p][3] = p
        BY <1>0, <2>1, <3>1
    <3> HIDE DEF q
    <3>3. q > k
      <4>1. SUFFICES ASSUME q <= k PROVE FALSE
          BY <1>0, <3>2
      <4>2. q + h[q][3] <= k /\ h[q][3] \in Nat
          BY <1>0, <3>1, <3>2, <4>1 DEF Whole
      <4> QED BY SMTT(20), <1>0, <2>1, <3>1, <3>2, <4>2
    <3>4. i - h[p][3] \in 1 .. Len(h) - k /\ k + (i - h[p][3]) = q /\ h[p][3] \in 1 .. i - 1
      <4> DEFINE n == h[p][3]
      <4>1. /\ n \in Nat /\ q + n = p /\ q \in Nat /\ p = k + i /\ q > k /\ i \in Nat
            /\ i <= Len(h) - k /\ n >= 1 /\ k \in Nat
          BY <1>0, <2>1, <3>1, <3>2, <3>3
      <4> HIDE DEF n
      <4>2. i - n \in Int /\ k + (i - n) = q /\ i - n >= 1 /\ n \in 1 .. i - 1
          BY ONLY SMTT(20), <4>1
      <4>3. i - n <= Len(h) - k
          BY <1>0, <4>1
      <4> QED BY <1>0, <4>2, <4>3 DEF n
    <3>5. b[i - h[p][3]] = h[q]
        BY <1>2, <3>4
    <3> QED BY <3>1, <3>4, <3>5
  <2> QED BY <2>1, <2>2, <2>3
<1>5. Closed(a) /\ Closed(b)
    BY <1>3, <1>4 DEF Closed
<1> QED BY <1>5 DEF a, b

\* A user message does not part calls from their answers.
LEMMA BoundaryIsWhole ==
    ASSUME NEW h \in Seq(Messages), Closed(h), NEW p \in Boundaries(h)
    PROVE  p - 1 \in 0 .. Len(h) /\ Whole(h, p - 1) /\ Closed(Drop(h, p - 1))
<1>1. p \in 1 .. Len(h) /\ h[p][1] = "user" /\ Len(h) \in Nat
    BY DEF Boundaries
<1>2. ASSUME NEW q \in DOMAIN h, q <= p - 1, h[q][1] = "calls"
      PROVE  q + h[q][3] <= p - 1
  <2>1. q \in 1 .. Len(h) /\ h[q][3] \in Nat
      BY MessageParts
  <2>2. ASSUME q + h[q][3] >= p
        PROVE  FALSE
    <3>1. p - q \in 1 .. h[q][3] /\ q + (p - q) = p
        BY <1>1, <1>2, <2>1, <2>2
    <3>2. h[q + (p - q)] = Result(h[q][2], p - q)
        BY <1>2, <3>1 DEF Closed
    <3>3. h[p][1] = "tool"
        BY <3>1, <3>2 DEF Result
    <3> QED BY <1>1, <3>3
  <2> QED BY <1>1, <2>1, <2>2
<1>3. p - 1 \in 0 .. Len(h) /\ Whole(h, p - 1)
    BY <1>1, <1>2 DEF Whole
<1> QED BY <1>3, CutAfter

LEMMA ClosedConcat ==
    ASSUME NEW a \in Seq(Messages), NEW b \in Seq(Messages), Closed(a), Closed(b)
    PROVE  Closed(a \o b)
<1> DEFINE h == a \o b
           l == Len(a)
<1>0. /\ \A p \in DOMAIN a : p \in Nat /\ a[p][3] \in Nat
      /\ \A p \in DOMAIN b : p \in Nat /\ b[p][3] \in Nat
    BY SMTT(20), MessageParts
<1>1. /\ DOMAIN a = 1 .. l /\ DOMAIN b = 1 .. Len(b) /\ DOMAIN h = 1 .. l + Len(b)
      /\ Len(h) = l + Len(b) /\ l \in Nat /\ Len(b) \in Nat
      /\ \A i \in 1 .. l : h[i] = a[i]
      /\ \A i \in 1 .. Len(b) : h[l + i] = b[i]
    BY AppendedTo
<1> HIDE DEF h, l
<1>2. ASSUME NEW p \in 1 .. l
      PROVE  /\ h[p][1] = "calls" =>
                   /\ p + h[p][3] <= Len(h)
                   /\ \A c \in 1 .. h[p][3] : h[p + c] = Result(h[p][2], c)
             /\ h[p][1] = "tool" =>
                   /\ h[p][3] \in 1 .. p - 1
                   /\ h[p - h[p][3]][1] = "calls" /\ h[p - h[p][3]][2] = h[p][2]
                   /\ h[p - h[p][3]][3] >= h[p][3]
  <2> DEFINE n == a[p][3]
  <2>1. h[p] = a[p] /\ n \in Nat /\ p \in DOMAIN a /\ p \in Nat
      BY <1>0, <1>1
  <2>2. ASSUME a[p][1] = "calls"
        PROVE  p + n <= Len(h) /\ \A c \in 1 .. n : h[p + c] = Result(a[p][2], c)
    <3>1. p + n <= Len(a) /\ \A c \in 1 .. n : a[p + c] = Result(a[p][2], c)
        BY <2>1, <2>2 DEF Closed
    <3> HIDE DEF n
    <3>2. p + n <= l /\ \A c \in 1 .. n : p + c \in 1 .. l
        BY <1>1, <2>1, <3>1 DEF l
    <3> QED BY <1>1, <2>1, <3>1, <3>2
  <2>3. ASSUME a[p][1] = "tool"
        PROVE  /\ n \in 1 .. p - 1
               /\ h[p - n][1] = "calls" /\ h[p - n][2] = a[p][2] /\ h[p - n][3] >= n
    <3>1. /\ n \in 1 .. p - 1
          /\ a[p - n][1] = "calls" /\ a[p - n][2] = a[p][2] /\ a[p - n][3] >= n
        BY <2>1, <2>3 DEF Closed
    <3> HIDE DEF n
    <3>2. p - n \in 1 .. l
        BY <1>1, <2>1, <3>1
    <3> QED BY <1>1, <3>1, <3>2
  <2> QED BY <2>1, <2>2, <2>3
<1>3. ASSUME NEW j \in 1 .. Len(b), NEW p, p = l + j
      PROVE  /\ h[p][1] = "calls" =>
                   /\ p + h[p][3] <= Len(h)
                   /\ \A c \in 1 .. h[p][3] : h[p + c] = Result(h[p][2], c)
             /\ h[p][1] = "tool" =>
                   /\ h[p][3] \in 1 .. p - 1
                   /\ h[p - h[p][3]][1] = "calls" /\ h[p - h[p][3]][2] = h[p][2]
                   /\ h[p - h[p][3]][3] >= h[p][3]
  <2> DEFINE n == b[j][3]
  <2>1. h[p] = b[j] /\ n \in Nat /\ j \in DOMAIN b /\ j \in Nat
      BY <1>0, <1>1, <1>3
  <2>2. ASSUME b[j][1] = "calls"
        PROVE  p + n <= Len(h) /\ \A c \in 1 .. n : h[p + c] = Result(b[j][2], c)
    <3>1. j + n <= Len(b) /\ \A c \in 1 .. n : b[j + c] = Result(b[j][2], c)
        BY <2>1, <2>2 DEF Closed
    <3> HIDE DEF n
    <3>2. p + n <= Len(h) /\ \A c \in 1 .. n : j + c \in 1 .. Len(b) /\ p + c = l + (j + c)
        BY SMTT(20), <1>1, <1>3, <2>1, <3>1
    <3> QED BY <1>1, <3>1, <3>2
  <2>3. ASSUME b[j][1] = "tool"
        PROVE  /\ n \in 1 .. p - 1
               /\ h[p - n][1] = "calls" /\ h[p - n][2] = b[j][2] /\ h[p - n][3] >= n
    <3>1. /\ n \in 1 .. j - 1
          /\ b[j - n][1] = "calls" /\ b[j - n][2] = b[j][2] /\ b[j - n][3] >= n
        BY <2>1, <2>3 DEF Closed
    <3> HIDE DEF n
    <3>2. j - n \in 1 .. Len(b) /\ p - n = l + (j - n) /\ n \in 1 .. p - 1
        BY SMTT(20), <1>1, <1>3, <2>1, <3>1
    <3> QED BY <1>1, <3>1, <3>2
  <2> QED BY <2>1, <2>2, <2>3
<1>4. ASSUME NEW p \in DOMAIN h
      PROVE  p \in 1 .. l \/ \E j \in 1 .. Len(b) : p = l + j
  <2>1. CASE p <= l
      BY <1>1, <2>1
  <2>2. CASE p > l
    <3>1. p - l \in 1 .. Len(b) /\ p = l + (p - l)
        BY <1>1, <2>2
    <3> QED BY <3>1
  <2> QED BY <1>1, <2>1, <2>2
<1>5. Closed(h)
    BY <1>2, <1>3, <1>4 DEF Closed
<1> QED BY <1>5 DEF h

\* User messages and replies need no answers.
LEMMA PlainIsClosed ==
    ASSUME NEW u \in Seq(Messages), \A j \in DOMAIN u : u[j][1] \in {"user", "assistant"}
    PROVE  Closed(u)
BY DEF Closed

\* Calls that are asked for wait for all their answers.
LEMMA AskOpens ==
    ASSUME NEW h \in Seq(Messages), NEW i \in Nat, NEW n \in Nat, n > 0, Closed(h),
           NEW u \in Seq(Messages), Len(u) = 1, u[1] = Calls(i, n)
    PROVE  Open(h \o u, i, n, n)
<1> DEFINE g == h \o u
           l == Len(h)
<1>1. /\ DOMAIN h = 1 .. l /\ DOMAIN g = 1 .. l + 1 /\ Len(g) = l + 1 /\ l \in Nat
      /\ \A p \in 1 .. l : g[p] = h[p]
      /\ g[l + 1] = Calls(i, n)
  <2> DEFINE m == Len(u)
  <2>1. /\ DOMAIN h = 1 .. l /\ DOMAIN g = 1 .. l + m /\ Len(g) = l + m /\ l \in Nat
        /\ \A p \in 1 .. l : g[p] = h[p]
        /\ \A j \in 1 .. m : g[l + j] = u[j]
    <3>1. h \in Seq(Messages) /\ u \in Seq(Messages)
        OBVIOUS
    <3> QED BY ONLY <3>1, AppendedTo
  <2>2. m = 1 /\ u[1] = Calls(i, n)
      OBVIOUS
  <2> HIDE DEF g, l, m
  <2> QED BY <2>1, <2>2
<1>2. \A p \in DOMAIN h : p \in Nat /\ h[p][3] \in Nat
    BY MessageParts
<1> HIDE DEF g, l
<1>3. ASSUME NEW p \in 1 .. l
      PROVE  /\ g[p][1] = "calls" =>
                   /\ p + g[p][3] <= Len(g)
                   /\ \A c \in 1 .. g[p][3] : g[p + c] = Result(g[p][2], c)
             /\ g[p][1] = "tool" =>
                   /\ g[p][3] \in 1 .. p - 1
                   /\ g[p - g[p][3]][1] = "calls" /\ g[p - g[p][3]][2] = g[p][2]
                   /\ g[p - g[p][3]][3] >= g[p][3]
  <2> DEFINE d == h[p][3]
  <2>1. g[p] = h[p] /\ d \in Nat /\ p \in DOMAIN h /\ p \in Nat
      BY <1>1, <1>2
  <2>2. ASSUME h[p][1] = "calls"
        PROVE  p + d <= Len(g) /\ \A c \in 1 .. d : g[p + c] = Result(h[p][2], c)
    <3>1. p + d <= Len(h) /\ \A c \in 1 .. d : h[p + c] = Result(h[p][2], c)
        BY <2>1, <2>2 DEF Closed
    <3> HIDE DEF d
    <3>2. p + d <= l + 1 /\ \A c \in 1 .. d : p + c \in 1 .. l
        BY <1>1, <2>1, <3>1 DEF l
    <3> QED BY <1>1, <2>1, <3>1, <3>2
  <2>3. ASSUME h[p][1] = "tool"
        PROVE  /\ d \in 1 .. p - 1
               /\ g[p - d][1] = "calls" /\ g[p - d][2] = h[p][2] /\ g[p - d][3] >= d
    <3>1. /\ d \in 1 .. p - 1
          /\ h[p - d][1] = "calls" /\ h[p - d][2] = h[p][2] /\ h[p - d][3] >= d
        BY <2>1, <2>3 DEF Closed
    <3> HIDE DEF d
    <3>2. p - d \in 1 .. l
        BY <1>1, <2>1, <3>1
    <3> QED BY <1>1, <3>1, <3>2
  <2> QED BY <2>1, <2>2, <2>3
<1>4. /\ g[l + 1][1] = "calls" /\ g[l + 1][2] = i /\ g[l + 1][3] = n
      /\ l + 1 + n = Len(g) + n /\ Len(g) + n - n = l + 1 /\ l + 1 \in 1 .. Len(g)
      /\ \A c \in 1 .. n : ~(l + 1 + c <= Len(g))
    BY <1>1 DEF Calls
<1>5. \A p \in DOMAIN g : p \in 1 .. l \/ p = l + 1
    BY <1>1
<1>6. Open(g, i, n, n)
    BY <1>1, <1>3, <1>4, <1>5 DEF Open
<1> QED BY <1>6 DEF g

\* The next m answers, in order, leave m fewer missing.
LEMMA AnswersClose ==
    ASSUME NEW h \in Seq(Messages), NEW i \in Nat, NEW n \in Nat, NEW k \in 0 .. n,
           Open(h, i, n, k),
           NEW u \in Seq(Messages), Len(u) <= k,
           \A j \in 1 .. Len(u) : u[j] = Result(i, n - k + j)
    PROVE  Open(h \o u, i, n, k - Len(u))
<1> DEFINE g == h \o u
           l == Len(h)
           m == Len(u)
           s == l + k - n
<1>1. /\ DOMAIN h = 1 .. l /\ DOMAIN g = 1 .. l + m /\ Len(g) = l + m /\ l \in Nat /\ m \in Nat
      /\ \A p \in 1 .. l : g[p] = h[p]
      /\ \A j \in 1 .. m : g[l + j] = u[j]
    BY AppendedTo
<1>2. \A p \in DOMAIN h : p \in Nat /\ h[p][3] \in Nat
    BY SMTT(20), MessageParts
<1>3. \A j \in 1 .. m : u[j] = Result(i, n - k + j)
    OBVIOUS
<1>4. k \in Nat /\ k <= n /\ m <= k /\ n \in Nat
    OBVIOUS
<1>5. k > 0 => s \in 1 .. l /\ h[s] = Calls(i, n)
    BY DEF Open
<1> HIDE DEF g, l, m, s
<1>6. ASSUME NEW p \in 1 .. l
      PROVE  /\ g[p][1] = "calls" =>
                   /\ \/ p + g[p][3] <= Len(g)
                      \/ g[p] = Calls(i, n) /\ p + n = Len(g) + (k - m)
                   /\ \A c \in 1 .. g[p][3] : p + c <= Len(g) => g[p + c] = Result(g[p][2], c)
             /\ g[p][1] = "tool" =>
                   /\ g[p][3] \in 1 .. p - 1
                   /\ g[p - g[p][3]][1] = "calls" /\ g[p - g[p][3]][2] = g[p][2]
                   /\ g[p - g[p][3]][3] >= g[p][3]
  <2> DEFINE d == h[p][3]
  <2>1. g[p] = h[p] /\ d \in Nat /\ p \in DOMAIN h /\ p \in Nat
      BY <1>1, <1>2
  <2>2. ASSUME h[p][1] = "calls"
        PROVE  /\ p + d <= Len(g) \/ (h[p] = Calls(i, n) /\ p + n = Len(g) + (k - m))
               /\ \A c \in 1 .. d : p + c <= Len(g) => g[p + c] = Result(h[p][2], c)
    <3>1. /\ p + d <= Len(h) \/ (h[p] = Calls(i, n) /\ p + n = Len(h) + k)
          /\ \A c \in 1 .. d : p + c <= Len(h) => h[p + c] = Result(h[p][2], c)
        BY <2>1, <2>2 DEF Open
    <3>2. h[p] = Calls(i, n) => d = n /\ h[p][2] = i
        BY DEF Calls
    <3> HIDE DEF d
    <3>3. p + d <= Len(g) \/ (h[p] = Calls(i, n) /\ p + n = Len(g) + (k - m))
        BY <1>1, <1>4, <2>1, <3>1 DEF l
    <3>4. ASSUME NEW c \in 1 .. d, p + c <= Len(g)
          PROVE  g[p + c] = Result(h[p][2], c)
      <4>1. CASE p + c <= l
        <5>1. p + c \in 1 .. l /\ h[p + c] = Result(h[p][2], c)
            BY <1>1, <2>1, <3>1, <4>1 DEF l
        <5> QED BY <1>1, <5>1
      <4>2. CASE ~(p + c <= l)
        <5>1. c \in Nat /\ c <= d
            BY <2>1
        <5>2. ~(p + d <= l)
            BY <1>1, <2>1, <4>2, <5>1
        <5>3. h[p] = Calls(i, n) /\ p + n = l + k /\ d = n /\ h[p][2] = i
            BY <3>1, <3>2, <5>2 DEF l
        <5> DEFINE j == p + c - l
        <5>4. j \in 1 .. m /\ p + c = l + j /\ n - k + j = c
            BY <1>1, <1>4, <2>1, <3>4, <4>2, <5>1, <5>3
        <5> HIDE DEF j
        <5>5. g[l + j] = Result(i, n - k + j)
            BY <1>1, <1>3, <5>4
        <5> QED BY <5>3, <5>4, <5>5
      <4> QED BY <4>1, <4>2
    <3> QED BY <3>3, <3>4
  <2>3. ASSUME h[p][1] = "tool"
        PROVE  /\ d \in 1 .. p - 1
               /\ g[p - d][1] = "calls" /\ g[p - d][2] = h[p][2] /\ g[p - d][3] >= d
    <3>1. /\ d \in 1 .. p - 1
          /\ h[p - d][1] = "calls" /\ h[p - d][2] = h[p][2] /\ h[p - d][3] >= d
        BY <2>1, <2>3 DEF Open
    <3> HIDE DEF d
    <3>2. p - d \in 1 .. l
        BY <1>1, <2>1, <3>1
    <3> QED BY <1>1, <3>1, <3>2
  <2> QED BY <2>1, <2>2, <2>3
<1>7. ASSUME NEW j \in 1 .. m, NEW p, p = l + j
      PROVE  /\ g[p][1] = "tool" /\ g[p][3] \in 1 .. p - 1
             /\ g[p - g[p][3]][1] = "calls" /\ g[p - g[p][3]][2] = g[p][2]
             /\ g[p - g[p][3]][3] >= g[p][3]
  <2> DEFINE d == n - k + j
  <2>1. g[p] = Result(i, d)
      BY <1>1, <1>3, <1>7
  <2>2. g[p][1] = "tool" /\ g[p][2] = i /\ g[p][3] = d
      BY <2>1 DEF Result
  <2>3. k > 0 /\ s \in 1 .. l /\ h[s] = Calls(i, n)
      BY <1>1, <1>4, <1>5
  <2>4. d \in 1 .. p - 1 /\ p - d = s /\ n >= d
      BY <1>1, <1>4, <1>7, <2>3 DEF s
  <2>5. g[s][1] = "calls" /\ g[s][2] = i /\ g[s][3] = n
      BY <1>1, <2>3 DEF Calls
  <2> HIDE DEF d
  <2> QED BY <2>2, <2>4, <2>5
<1>8. k - m > 0 => Len(g) + (k - m) - n \in 1 .. Len(g) /\ g[Len(g) + (k - m) - n] = Calls(i, n)
  <2>1. SUFFICES ASSUME k - m > 0
                 PROVE  /\ Len(g) + (k - m) - n \in 1 .. Len(g)
                        /\ g[Len(g) + (k - m) - n] = Calls(i, n)
      OBVIOUS
  <2>2. Len(g) + (k - m) - n = s /\ k > 0 /\ s \in 1 .. l /\ h[s] = Calls(i, n)
      BY <1>1, <1>4, <1>5, <2>1 DEF s
  <2>3. s \in 1 .. Len(g)
      BY <1>1, <2>2
  <2> QED BY <1>1, <2>2, <2>3
<1>9. ASSUME NEW p \in DOMAIN g
      PROVE  p \in 1 .. l \/ \E j \in 1 .. m : p = l + j
  <2>1. CASE p <= l
      BY <1>1, <2>1
  <2>2. CASE p > l
    <3>1. p - l \in 1 .. m /\ p = l + (p - l)
        BY <1>1, <2>2
    <3> QED BY <3>1
  <2> QED BY <1>1, <2>1, <2>2
<1>10. Open(g, i, n, k - m)
    BY SMTT(20), <1>6, <1>7, <1>8, <1>9 DEF Open
<1> QED BY <1>10 DEF g, m

\* An answer stands behind its call.
LEMMA AnswerBehindCall ==
    ASSUME NEW h \in Seq(Messages), Closed(h), NEW p \in DOMAIN h, NEW d,
           h[p][1] = "tool", h[p][3] = d
    PROVE  /\ d \in 1 .. p - 1
           /\ h[p - d][1] = "calls" /\ h[p - d][2] = h[p][2] /\ h[p - d][3] >= d
BY DEF Closed

\* The longest common end of two histories that are closed does not begin between calls
\* and their answers: one message before it would be common too.
LEMMA ProtectedIsWhole ==
    ASSUME NEW h \in Seq(Messages), NEW own \in Seq(Messages), Closed(h), Closed(own),
           NEW k \in Nat, Common(h, own, k), \A j \in Nat : Common(h, own, j) => j <= k
    PROVE  Whole(h, Len(h) - k)
<1> DEFINE a == Len(h) - k
           b == Len(own) - k
<1>1. /\ a \in Nat /\ b \in Nat /\ Len(h) = a + k /\ Len(own) = b + k
      /\ Len(h) \in Nat /\ Len(own) \in Nat
      /\ DOMAIN h = 1 .. a + k /\ DOMAIN own = 1 .. b + k
    BY DEF Common
<1>2. ASSUME NEW i \in 1 .. k
      PROVE  h[a + i] = own[b + i]
  <2>1. k - i \in 0 .. k - 1 /\ Len(h) - (k - i) = a + i /\ Len(own) - (k - i) = b + i
      BY <1>1
  <2>2. h[Len(h) - (k - i)] = own[Len(own) - (k - i)]
      BY <2>1 DEF Common
  <2> QED BY <2>1, <2>2
<1>3. ASSUME a > 0, b > 0, h[a] = own[b]
      PROVE  FALSE
  <2>1. ASSUME NEW i \in 0 .. k + 1 - 1
        PROVE  h[Len(h) - i] = own[Len(own) - i]
    <3>1. CASE i = k
        BY <1>1, <1>3, <3>1
    <3>2. CASE i # k
        BY <3>2 DEF Common
    <3> QED BY <3>1, <3>2
  <2>2. k + 1 <= Len(h) /\ k + 1 <= Len(own)
      BY <1>1, <1>3
  <2>3. Common(h, own, k + 1)
      BY <2>1, <2>2 DEF Common
  <2>4. k + 1 <= k
      BY <2>3
  <2> QED BY <2>4
<1>4. /\ \A p \in DOMAIN h : h[p][3] \in Nat /\ h[p] = <<h[p][1], h[p][2], h[p][3]>>
      /\ \A p \in DOMAIN own : own[p][3] \in Nat /\ own[p] = <<own[p][1], own[p][2], own[p][3]>>
    BY SMTT(20), MessageParts
<1> HIDE DEF a, b
<1>5. ASSUME NEW q \in DOMAIN h, q <= a, h[q][1] = "calls", ~(q + h[q][3] <= a)
      PROVE  FALSE
  <2> DEFINE n == h[q][3]
             x == h[q][2]
             c == a + 1 - q
  <2>1. q \in 1 .. a + k /\ n \in Nat /\ q + n <= a + k /\ q + n > a /\ h[q] = <<"calls", x, n>>
    <3>1. q \in 1 .. a + k /\ n \in Nat /\ h[q] = <<"calls", x, n>>
        BY <1>1, <1>4, <1>5
    <3>2. q + n <= Len(h)
        BY <1>5 DEF Closed
    <3>3. ~(q + n <= a)
        BY <1>5
    <3> HIDE DEF n, x
    <3> QED BY <1>1, <3>1, <3>2, <3>3
  <2>2. \A e \in 1 .. n : h[q + e] = Result(x, e)
      BY <1>5 DEF Closed
  <2> HIDE DEF n, x
  <2>3. c \in 1 .. n /\ q + c = a + 1 /\ 1 \in 1 .. k /\ c \in Nat /\ k \in Nat \ {0} /\ q = a + 1 - c
    <3>1. /\ a \in Nat /\ q \in Nat /\ q <= a /\ n \in Nat /\ q + n > a /\ q + n <= a + k
          /\ k \in Nat
        BY <1>1, <1>5, <2>1
    <3>2. c \in 1 .. n /\ c \in Nat
        BY ONLY <3>1
    <3>3. q + c = a + 1 /\ q = a + 1 - c
        BY ONLY <3>1
    <3>4. k \in Nat \ {0} /\ 1 \in 1 .. k
        BY ONLY <3>1
    <3> QED BY <3>2, <3>3, <3>4
  <2> HIDE DEF c
  <2>4. h[a + 1] = Result(x, c) /\ own[b + 1] = Result(x, c)
      BY <1>2, <2>2, <2>3
  <2>5. /\ b + 1 \in DOMAIN own /\ own[b + 1][1] = "tool" /\ own[b + 1][2] = x
        /\ own[b + 1][3] = c
      BY <1>1, <2>3, <2>4 DEF Result
  <2> DEFINE r == b + 1 - c
  <2>6. /\ c \in 1 .. b + 1 - 1
        /\ own[r][1] = "calls" /\ own[r][2] = x /\ own[r][3] >= c
    <3> DEFINE p == b + 1
    <3>1. p \in DOMAIN own /\ own[p][1] = "tool" /\ own[p][3] = c /\ own[p][2] = x
        BY <2>5
    <3>2. p - c = r /\ p - 1 = b + 1 - 1
      <4>1. b \in Nat /\ c \in Nat
          BY <1>1, <2>3
      <4> QED BY ONLY <4>1
    <3> HIDE DEF p, r
    <3>3. /\ c \in 1 .. p - 1
          /\ own[p - c][1] = "calls" /\ own[p - c][2] = own[p][2] /\ own[p - c][3] >= c
        BY <3>1, AnswerBehindCall
    <3> QED BY <3>1, <3>2, <3>3
  <2>7. /\ r \in DOMAIN own /\ r >= 1 /\ r <= b /\ r \in Nat /\ r + c = b + 1 /\ b > 0
    <3>1. b \in Nat /\ c \in Nat /\ c \in 1 .. b + 1 - 1
        BY <1>1, <2>3, <2>6
    <3>2. r >= 1 /\ r <= b /\ r \in Nat /\ r + c = b + 1 /\ b > 0
        BY ONLY <3>1
    <3>3. r \in DOMAIN own
        BY <1>1, <3>1, <3>2
    <3> QED BY <3>2, <3>3
  <2> DEFINE o == own[r][3]
  <2>8. o \in Nat /\ own[r] = <<"calls", x, o>> /\ c <= o
      BY <1>4, <2>6, <2>7
  <2>9. r + o <= b + k /\ \A e \in 1 .. o : own[r + e] = Result(x, e)
      BY <1>1, <2>6, <2>7 DEF Closed
  <2> HIDE DEF r, o
  <2>10. a > 0
      BY <1>1, <1>5, <2>1
  <2>11. CASE c > 1
    <3>1. c - 1 \in 1 .. n /\ q + (c - 1) = a
        BY <1>1, <2>1, <2>3, <2>11
    <3>2. c - 1 \in 1 .. o /\ r + (c - 1) = b
        BY SMTT(20), <1>1, <2>3, <2>7, <2>8, <2>11
    <3>3. h[a] = Result(x, c - 1)
        BY <2>2, <3>1
    <3>4. own[b] = Result(x, c - 1)
        BY <2>9, <3>2
    <3> QED BY <1>3, <2>7, <2>10, <3>3, <3>4
  <2>12. CASE c = 1
    <3>1. q = a /\ r = b
        BY <1>1, <2>1, <2>3, <2>7, <2>12
    <3>2. CASE n = o
        BY <1>3, <2>1, <2>7, <2>8, <2>10, <3>1, <3>2
    <3>3. CASE n < o
      <4> DEFINE e == n + 1
      <4>1. e \in 1 .. o /\ e \in 1 .. k /\ e \in Nat /\ a + e \in 1 .. a + k /\ a + e - e = a
          BY <1>1, <2>1, <2>8, <2>9, <3>1, <3>3
      <4>2. own[b + e] = Result(x, e) /\ h[a + e] = Result(x, e)
          BY <1>2, <2>9, <3>1, <4>1
      <4>3. h[a + e][1] = "tool" /\ h[a + e][3] = e
          BY <4>2 DEF Result
      <4>4. h[a][3] >= e
        <5> DEFINE p == a + e
        <5>1. p \in DOMAIN h /\ h[p][1] = "tool" /\ h[p][3] = e /\ p - e = a
            BY <1>1, <4>1, <4>3
        <5> HIDE DEF p, e
        <5>2. h[p - e][3] >= e
            BY <5>1, AnswerBehindCall
        <5> QED BY <5>1, <5>2
      <4>5. h[a][3] = n
          BY <2>1, <3>1
      <4> QED BY <2>1, <4>1, <4>4, <4>5
    <3>4. CASE o < n
      <4> DEFINE e == o + 1
      <4>1. e \in 1 .. n /\ e \in 1 .. k /\ e \in Nat /\ b + e \in 1 .. b + k /\ b + e - e = b
          BY <1>1, <2>1, <2>8, <2>9, <3>1, <3>4
      <4>2. own[b + e] = Result(x, e) /\ h[a + e] = Result(x, e)
          BY <1>2, <2>2, <3>1, <4>1
      <4>3. own[b + e][1] = "tool" /\ own[b + e][3] = e
          BY <4>2 DEF Result
      <4>4. own[b][3] >= e
        <5> DEFINE p == b + e
        <5>1. p \in DOMAIN own /\ own[p][1] = "tool" /\ own[p][3] = e /\ p - e = b
            BY <1>1, <4>1, <4>3
        <5> HIDE DEF p, e
        <5>2. own[p - e][3] >= e
            BY <5>1, AnswerBehindCall
        <5> QED BY <5>1, <5>2
      <4>5. own[b][3] = o
          BY <2>8, <3>1
      <4> QED BY <2>8, <4>1, <4>4, <4>5
    <3> QED BY <2>1, <2>8, <3>2, <3>3, <3>4
  <2> QED BY <2>3, <2>11, <2>12
<1>6. Whole(h, a)
    BY <1>5 DEF Whole
<1> QED BY <1>6 DEF a

-----------------------------------------------------------------------------
(* The variables keep their types.                                         *)

LEMMA MessageTypes ==
    /\ \A m \in Int : User(m) \in Messages /\ Reply(m) \in Messages
    /\ \A i \in Int, n \in Nat : Calls(i, n) \in Messages /\ Result(i, n) \in Messages
BY DEF User, Reply, Calls, Result, Messages, Roles

LEMMA OldLogType ==
    OldLog \in Seq(Messages) /\ Len(OldLog) = 4 /\ OldLog[1] = User(-2) /\ 1 \in Boundaries(OldLog)
<1>1. User(-2) \in Messages /\ Reply(-2) \in Messages /\ User(-1) \in Messages /\ Reply(-1) \in Messages
    BY MessageTypes
<1>2. /\ OldLog \in Seq(Messages) /\ Len(OldLog) = 4 /\ OldLog[1] = User(-2)
      /\ DOMAIN OldLog = 1 .. 4
    BY <1>1 DEF OldLog
<1>3. OldLog[1][1] = "user"
    BY <1>2 DEF User
<1> QED BY <1>2, <1>3 DEF Boundaries

LEMMA PollType ==
    ASSUME NEW S, NEW q \in Seq(S)
    PROVE  Taken(q) \in Seq(S) /\ Remaining(q) \in Seq(S)
BY DEF Taken, Remaining

LEMMA OneMessage ==
    ASSUME NEW m \in Messages
    PROVE  <<m>> \in Seq(Messages) /\ Len(<<m>>) = 1 /\ <<m>>[1] = m /\ DOMAIN <<m>> = 1 .. 1
OBVIOUS

LEMMA SkippedType ==
    ASSUME TypeOK, call <= nCalls
    PROVE  /\ Skipped \in Seq(Messages) /\ Len(Skipped) = nCalls - call
           /\ \A j \in 1 .. Len(Skipped) : Skipped[j] = Result(iteration, call + j)
<1>1. nCalls - call \in Nat /\ iteration \in Int /\ call \in Nat
    BY LimitsAssumption DEF TypeOK
<1>2. \A j \in 1 .. nCalls - call : Result(iteration, call + j) \in Messages
    BY <1>1, MessageTypes
<1> QED BY <1>1, <1>2 DEF Skipped

LEMMA InjectedType ==
    ASSUME NEW q \in Seq(Steerings)
    PROVE  /\ [i \in DOMAIN q |-> User(q[i])] \in Seq(Messages)
           /\ Len([i \in DOMAIN q |-> User(q[i])]) = Len(q)
<1>1. DOMAIN q = 1 .. Len(q) /\ Len(q) \in Nat
    OBVIOUS
<1>2. \A i \in 1 .. Len(q) : q[i] \in Int
    BY LimitsAssumption DEF Steerings
<1>3. \A i \in 1 .. Len(q) : User(q[i]) \in Messages
    BY <1>2, MessageTypes
<1> QED BY <1>1, <1>3

\* splitHistoryForActiveTurn cuts a history in two.
LEMMA SplitCuts ==
    ASSUME NEW h \in Seq(Messages), persisted \in Seq(Messages)
    PROVE  \E k \in Nat :
              /\ Len(h) - k \in 0 .. Len(h)
              /\ Common(h, persisted, k) /\ \A j \in Nat : Common(h, persisted, j) => j <= k
              /\ Protected(h) = Drop(h, Len(h) - k) /\ Stable(h) = SubSeq(h, 1, Len(h) - k)
              /\ Protected(h) \in Seq(Messages) /\ Len(Protected(h)) = k
              /\ Stable(h) \in Seq(Messages)
              /\ h = Stable(h) \o Protected(h)
<1> DEFINE k == MatchingTail(h, persisted)
           a == Len(h) - k
<1>1. /\ k \in Nat /\ k <= Len(h) /\ Common(h, persisted, k)
      /\ \A j \in Nat : Common(h, persisted, j) => j <= k
    BY MatchingTailIsLongest
<1>2. Protected(h) = Drop(h, a) /\ Stable(h) = SubSeq(h, 1, a)
    BY DEF Protected, Stable
<1> HIDE DEF k
<1>3. a \in 0 .. Len(h) /\ Len(h) - a = k
    BY <1>1
<1>4. h = SubSeq(h, 1, a) \o Drop(h, a)
  <2> HIDE DEF a
  <2> QED BY <1>3, CutInTwo
<1>5. Drop(h, a) \in Seq(Messages) /\ Len(Drop(h, a)) = k
  <2> HIDE DEF a
  <2> QED BY <1>3, DropOf
<1>6. SubSeq(h, 1, a) \in Seq(Messages)
  <2>1. 1 \in 1 .. Len(h) + 1 /\ a \in 1 - 1 .. Len(h)
      BY <1>3
  <2> HIDE DEF a
  <2> QED BY <2>1, PartOf
<1> QED BY <1>1, <1>2, <1>3, <1>4, <1>5, <1>6

LEMMA PersistType ==
    ASSUME TypeOK, NEW u \in Seq(Messages), Persist(u)
    PROVE  /\ log' \in Seq(Messages) /\ persisted' \in Seq(Messages)
           /\ restore' \in Seq(Messages) /\ compacted' \in BOOLEAN
BY DEF TypeOK, Persist

LEMMA SayType ==
    ASSUME TypeOK, NEW u \in Seq(Messages), Say(u)
    PROVE  /\ log' \in Seq(Messages) /\ persisted' \in Seq(Messages) /\ msgs' \in Seq(Messages)
           /\ restore' \in Seq(Messages) /\ compacted' \in BOOLEAN
BY DEF TypeOK, Persist, Say

\* The control variables and the histories, apart.
ControlType ==
    /\ pc \in {"start", "setup", "loop", "inject", "call", "llm", "backoff", "answered",
               "tool", "running", "executed", "poll", "finalHandled", "final", "abort",
               "done"}
    /\ iteration \in Nat
    /\ exec \in Seq(Steerings) /\ local \in Seq(Steerings) /\ queue \in Seq(Steerings)
    /\ nSteer \in 0 .. MaxSteer
    /\ nCalls \in 0 .. MaxCalls /\ call \in 1 .. MaxCalls + 1 /\ handled \in BOOLEAN
    /\ graceful \in {"no", "requested", "used"} /\ hardAbort \in BOOLEAN
    /\ terminal \in BOOLEAN /\ retry \in 0 .. MaxRetries
    /\ stopper \in {"idle", "read", "write", "done"}
    /\ outcome \in {"none", "completed", "error", "aborted"}

HistoryType ==
    /\ msgs \in Seq(Messages) /\ log \in Seq(Messages)
    /\ persisted \in Seq(Messages) /\ restore \in Seq(Messages) /\ snap \in Seq(Messages)
    /\ compacted \in BOOLEAN

LEMMA TypeParts == TypeOK <=> ControlType /\ HistoryType
BY DEF TypeOK, ControlType, HistoryType

LEMMA TypeInit == Init => TypeOK
<1> SUFFICES ASSUME Init PROVE TypeOK
    OBVIOUS
<1>1. exec \in Seq(Steerings) /\ Len(exec) \in 0 .. MaxSteer
  <2>1. PICK k \in 0 .. MaxSteer : exec = [i \in 1 .. k |-> i]
      BY DEF Init, InitialSteering
  <2> QED BY <2>1, LimitsAssumption DEF Steerings
<1>2. OldLog \in Seq(Messages) /\ <<>> \in Seq(Messages) /\ <<>> \in Seq(Steerings)
    BY OldLogType
<1>3. 0 \in 0 .. MaxCalls /\ 1 \in 1 .. MaxCalls + 1 /\ 0 \in 0 .. MaxRetries /\ 0 \in Nat
    BY LimitsAssumption
<1> QED BY <1>1, <1>2, <1>3 DEF Init, TypeOK

\* Inputs of the control variables.
LEMMA ControlTypeStep ==
    ASSUME TypeOK, ControlInv, [Next]_vars
    PROVE  ControlType'
<1>1. ControlType /\ LimitsAssumption
    BY TypeParts, LimitsAssumption
<1>2. /\ Taken(queue) \in Seq(Steerings) /\ Remaining(queue) \in Seq(Steerings)
    BY PollType DEF TypeOK
<1>3. /\ local \o exec \in Seq(Steerings) /\ exec \o Taken(queue) \in Seq(Steerings)
      /\ local \o Taken(queue) \in Seq(Steerings) /\ exec \o <<>> \in Seq(Steerings)
      /\ <<>> \in Seq(Steerings)
    BY <1>1, <1>2 DEF ControlType
<1>4. /\ MaxIterations \in Nat \ {0} /\ MaxRetries \in Nat /\ MaxCalls \in Nat /\ MaxSteer \in Nat
    BY LimitsAssumption
<1>5. ASSUME NEW o \in {"completed", "error", "aborted"}, End(o)
      PROVE  /\ pc' = "done" /\ outcome' = o /\ nCalls' = 0 /\ call' = 1 /\ handled' = FALSE
             /\ terminal' = FALSE /\ retry' = 0
             /\ 0 \in 0 .. MaxCalls /\ 1 \in 1 .. MaxCalls + 1 /\ 0 \in 0 .. MaxRetries
    BY <1>4, <1>5 DEF End
<1> USE DEF pending, toolVars, llmVars, interrupt
<1>6. CASE Begin
    BY <1>1, <1>2, <1>3, <1>4, <1>5, <1>6 DEF Begin, ControlType
<1>7. CASE Setup
    BY <1>1, <1>2, <1>3, <1>4, <1>5, <1>7 DEF Setup, ControlType
<1>8. CASE LoopHead
  <2>1. /\ local' \in Seq(Steerings) /\ exec' \in Seq(Steerings) /\ queue' \in Seq(Steerings)
        /\ nSteer' = nSteer
      BY <1>1, <1>2, <1>3, <1>8 DEF LoopHead, ControlType
  <2>2. pc' \in {"abort", "inject"} /\ iteration' \in Nat
      BY <1>1, <1>8 DEF LoopHead, ControlType
  <2>3. UNCHANGED <<toolVars, llmVars, interrupt, outcome>>
      BY <1>8 DEF LoopHead
  <2> QED BY <1>1, <2>1, <2>2, <2>3 DEF ControlType
<1>9. CASE LoopExit
    BY <1>1, <1>2, <1>3, <1>4, <1>5, <1>9 DEF LoopExit, ControlType
<1>10. CASE Inject
    BY <1>1, <1>2, <1>3, <1>4, <1>5, <1>10 DEF Inject, ControlType
<1>11. CASE Call
    BY <1>1, <1>2, <1>3, <1>4, <1>5, <1>11 DEF Call, ControlType
<1>12. CASE Respond
    BY <1>1, <1>2, <1>3, <1>4, <1>5, <1>12 DEF Respond, ControlType
<1>13. CASE CallFails
    BY <1>1, <1>2, <1>3, <1>4, <1>5, <1>13 DEF CallFails, ControlType
<1>14. CASE LLMCanceled
    BY <1>1, <1>2, <1>3, <1>4, <1>5, <1>14 DEF LLMCanceled, ControlType
<1>15. CASE LLMTransient
    BY <1>1, <1>2, <1>3, <1>4, <1>5, <1>15 DEF LLMTransient, ControlType
<1>16. CASE Retry
    BY <1>1, <1>2, <1>3, <1>4, <1>5, <1>16 DEF Retry, ControlType, ControlInv, NextRetry
<1>17. CASE BackoffAborted
    BY <1>1, <1>2, <1>3, <1>4, <1>5, <1>17 DEF BackoffAborted, ControlType
<1>18. CASE LLMOverflow
  <2>1. /\ pc' \in {"llm", "done"} /\ retry' \in 0 .. MaxRetries /\ terminal' \in BOOLEAN
        /\ nCalls' \in 0 .. MaxCalls /\ call' \in 1 .. MaxCalls + 1 /\ handled' \in BOOLEAN
        /\ outcome' \in {"none", "completed", "error", "aborted"}
    <3>1. CASE End("error")
        BY <1>5, <3>1
    <3>2. CASE pc' = "llm" /\ retry' = NextRetry /\ UNCHANGED <<terminal, toolVars, outcome>>
        BY <1>1, <1>4, <1>18, <3>2 DEF LLMOverflow, ControlType, MayRetry, NextRetry
    <3> QED BY <1>18, <3>1, <3>2 DEF LLMOverflow
  <2>2. UNCHANGED <<iteration, pending, interrupt>>
      BY <1>18 DEF LLMOverflow
  <2> QED BY <1>1, <2>1, <2>2 DEF ControlType
<1>19. CASE Direct
    BY <1>1, <1>2, <1>3, <1>4, <1>5, <1>19 DEF Direct, ControlType
<1>20. CASE Ask
    BY <1>1, <1>2, <1>3, <1>4, <1>5, <1>20 DEF Ask, ControlType
<1>21. CASE ToolAborted
    BY <1>1, <1>2, <1>3, <1>4, <1>5, <1>21 DEF ToolAborted, ControlType
<1>22. CASE ToolDenied
  <2>1. call' \in 1 .. MaxCalls + 1 /\ handled' \in BOOLEAN
    <3>1. call' = call + 1 /\ call <= nCalls /\ handled' = FALSE
        BY <1>22 DEF ToolDenied
    <3>2. call \in 1 .. MaxCalls + 1 /\ nCalls \in 0 .. MaxCalls
        BY <1>1 DEF ControlType
    <3>3. call' \in 1 .. MaxCalls + 1
        BY <1>4, <3>1, <3>2
    <3> QED BY <3>1, <3>3
  <2>2. UNCHANGED <<pc, iteration, pending, nCalls, llmVars, interrupt, outcome>>
      BY <1>22 DEF ToolDenied
  <2> QED BY <1>1, <2>1, <2>2 DEF ControlType
<1>23. CASE ToolRun
    BY <1>1, <1>2, <1>3, <1>4, <1>5, <1>23 DEF ToolRun, ControlType
<1>24. CASE ToolRan
    BY <1>1, <1>2, <1>3, <1>4, <1>5, <1>24 DEF ToolRan, ControlType
<1>25. CASE ToolResult
    BY <1>1, <1>2, <1>3, <1>4, <1>5, <1>25 DEF ToolResult, ControlType
<1>26. CASE ToolPoll
    BY <1>1, <1>2, <1>3, <1>4, <1>5, <1>26 DEF ToolPoll, ControlType, ControlInv
<1>27. CASE ToolsDone
  <2>1. exec' \in Seq(Steerings) /\ queue' \in Seq(Steerings)
      BY <1>1, <1>2, <1>3, <1>27 DEF ToolsDone, ControlType
  <2>2. /\ pc' \in {"finalHandled", "loop"}
        /\ nCalls' \in 0 .. MaxCalls /\ call' \in 1 .. MaxCalls + 1 /\ handled' \in BOOLEAN
    <3>1. pc' \in {"finalHandled", "loop"} /\ nCalls' = 0 /\ call' = 1 /\ handled' = FALSE
        BY <1>27 DEF ToolsDone
    <3>2. 0 \in 0 .. MaxCalls /\ 1 \in 1 .. MaxCalls + 1
        BY <1>4
    <3> QED BY <3>1, <3>2
  <2>3. UNCHANGED <<iteration, local, nSteer, llmVars, interrupt, outcome>>
      BY <1>27 DEF ToolsDone
  <2> QED BY <1>1, <2>1, <2>2, <2>3 DEF ControlType
<1>28. CASE HookAbort
    BY <1>1, <1>2, <1>3, <1>4, <1>5, <1>28 DEF HookAbort, ControlType
<1>29. CASE HookHardAbort
    BY <1>1, <1>2, <1>3, <1>4, <1>5, <1>29 DEF HookHardAbort, ControlType
<1>30. CASE FinalHandled
    BY <1>1, <1>2, <1>3, <1>4, <1>5, <1>30 DEF FinalHandled, ControlType
<1>31. CASE Final
    BY <1>1, <1>2, <1>3, <1>4, <1>5, <1>31 DEF Final, ControlType
<1>32. CASE Abort
    BY <1>1, <1>2, <1>3, <1>4, <1>5, <1>32 DEF Abort, ControlType
<1>33. CASE Steer
  <2>1. nSteer' \in 0 .. MaxSteer /\ nSteer' \in Steerings
      BY <1>1, <1>4, <1>33 DEF Steer, ControlType, Steerings
  <2>2. queue' \in Seq(Steerings)
      BY <1>1, <1>33, <2>1 DEF Steer, ControlType
  <2>3. UNCHANGED <<pc, iteration, exec, local, toolVars, llmVars, interrupt, outcome>>
      BY <1>33 DEF Steer
  <2> QED BY <1>1, <2>1, <2>2, <2>3 DEF ControlType
<1>34. CASE InterruptGraceful
    BY <1>1, <1>2, <1>3, <1>4, <1>5, <1>34 DEF InterruptGraceful, ControlType
<1>35. CASE InterruptHard
    BY <1>1, <1>2, <1>3, <1>4, <1>5, <1>35 DEF InterruptHard, ControlType
<1>36. CASE HardAbort
    BY <1>1, <1>2, <1>3, <1>4, <1>5, <1>36 DEF HardAbort, ControlType
<1>37. CASE HardAbortRead
    BY <1>1, <1>2, <1>3, <1>4, <1>5, <1>37 DEF HardAbortRead, ControlType
<1>38. CASE HardAbortWrite
    BY <1>1, <1>2, <1>3, <1>4, <1>5, <1>38 DEF HardAbortWrite, ControlType
<1>39. CASE UNCHANGED vars
    BY <1>1, <1>39 DEF vars, ControlType
<1> QED BY <1>6, <1>7, <1>8, <1>9, <1>10, <1>11, <1>12, <1>13, <1>14, <1>15, <1>16, <1>17, <1>18, <1>19, <1>20, <1>21, <1>22, <1>23, <1>24, <1>25, <1>26, <1>27, <1>28, <1>29, <1>30, <1>31, <1>32, <1>33, <1>34, <1>35, <1>36, <1>37, <1>38, <1>39 DEF Next, TurnStep, Done

\* The steps that leave the histories alone.
Quiet ==
    \/ Begin \/ LoopHead \/ LoopExit \/ Call \/ Respond \/ LLMCanceled \/ LLMTransient \/ Retry
    \/ BackoffAborted \/ Direct \/ ToolAborted \/ ToolRun \/ ToolRan \/ HookHardAbort
    \/ Steer \/ InterruptGraceful \/ InterruptHard \/ HardAbort \/ HardAbortRead
    \/ UNCHANGED vars

LEMMA QuietKeeps == Quiet => UNCHANGED history
BY DEF Quiet, Begin, LoopHead, LoopExit, Call, Respond, LLMCanceled, LLMTransient, Retry,
       BackoffAborted, Direct, ToolAborted, ToolRun, ToolRan, HookHardAbort, Steer,
       InterruptGraceful, InterruptHard, HardAbort, HardAbortRead, vars

\* All others.
LEMMA NextSplit ==
    [Next]_vars =>
        \/ Quiet \/ Setup \/ LLMOverflow
        \/ Inject \/ Ask \/ ToolDenied \/ ToolResult \/ ToolPoll \/ ToolsDone
        \/ CallFails \/ HookAbort \/ FinalHandled \/ Final \/ Abort \/ HardAbortWrite
BY DEF Next, TurnStep, Done, Quiet

\* What the rounds of the loop append.
LEMMA InjectSays ==
    ASSUME TypeOK, Inject
    PROVE  \E u \in Seq(Messages) :
              /\ Say(u) /\ UNCHANGED <<snap, nCalls, call>> /\ Len(u) = Len(local)
              /\ DOMAIN u = DOMAIN local /\ \A i \in DOMAIN local : u[i] = User(local[i])
<1> DEFINE u == [i \in DOMAIN local |-> User(local[i])]
<1>1. u \in Seq(Messages) /\ Len(u) = Len(local)
    BY InjectedType DEF TypeOK
<1>2. DOMAIN u = DOMAIN local /\ \A i \in DOMAIN local : u[i] = User(local[i])
    OBVIOUS
<1>3. Say(u) /\ UNCHANGED <<snap, nCalls, call>>
    BY DEF Inject, interrupt, toolVars
<1> QED BY <1>1, <1>2, <1>3

LEMMA AskSays ==
    ASSUME TypeOK, Ask
    PROVE  \E u \in Seq(Messages) :
              /\ Say(u) /\ UNCHANGED <<snap, nCalls, iteration>>
              /\ Len(u) = 1 /\ u[1] = Calls(iteration, nCalls)
<1>1. Calls(iteration, nCalls) \in Messages
    BY MessageTypes DEF TypeOK
<1>2. Say(<<Calls(iteration, nCalls)>>) /\ UNCHANGED <<snap, nCalls, iteration>>
    BY DEF Ask, interrupt
<1> QED BY <1>1, <1>2, OneMessage

LEMMA AnswerSays ==
    ASSUME TypeOK, ToolDenied \/ ToolResult
    PROVE  \E u \in Seq(Messages) :
              /\ Say(u) /\ UNCHANGED <<snap, nCalls, iteration>>
              /\ Len(u) = 1 /\ u[1] = Result(iteration, call)
<1>1. Result(iteration, call) \in Messages
    BY MessageTypes DEF TypeOK
<1>2. Say(<<Result(iteration, call)>>) /\ UNCHANGED <<snap, nCalls, iteration>>
    BY DEF ToolDenied, ToolResult, interrupt
<1> QED BY <1>1, <1>2, OneMessage

LEMMA PollSays ==
    ASSUME TypeOK, ControlInv, ToolPoll
    PROVE  \/ UNCHANGED history /\ call' = call + 1 /\ UNCHANGED <<snap, nCalls, iteration>>
           \/ /\ Skipped \in Seq(Messages) /\ Say(Skipped) /\ call' = nCalls + 1
              /\ UNCHANGED <<snap, nCalls, iteration>>
<1>1. call <= nCalls
    BY DEF ToolPoll, ControlInv
<1>2. Skipped \in Seq(Messages)
    BY <1>1, SkippedType
<1> QED BY <1>2 DEF ToolPoll, interrupt

LEMMA DoneSays ==
    ASSUME TypeOK, ToolsDone \/ Final
    PROVE  \/ ToolsDone /\ UNCHANGED history /\ UNCHANGED <<snap, iteration>>
           \/ \E u \in Seq(Messages) :
                 /\ Persist(u) /\ UNCHANGED <<snap, iteration>>
                 /\ msgs' = msgs \/ msgs' = <<>>
                 /\ Len(u) = 1 /\ u[1] = Reply(iteration)
<1>1. Reply(iteration) \in Messages
    BY MessageTypes DEF TypeOK
<1>2. \/ ToolsDone /\ UNCHANGED history /\ UNCHANGED <<snap, iteration>>
      \/ /\ Persist(<<Reply(iteration)>>) /\ UNCHANGED <<snap, iteration>>
         /\ msgs' = msgs \/ msgs' = <<>>
    BY DEF ToolsDone, Final, interrupt, End
<1> QED BY <1>1, <1>2, OneMessage

\* SetupTurn: the session, compacted or not, then the turn's own message.
LEMMA SetupBuilds ==
    ASSUME TypeOK, Setup
    PROVE  \E own \in Seq(Messages), h \in Seq(Messages), t \in Seq(Messages) :
              /\ h = log \/ h = Compress(log)
              /\ log' = h \o own /\ restore' = h /\ compacted' = (h # log)
              /\ Common(t, h, Len(t)) /\ t \in Trimmed(h)
              /\ msgs' = t \o own /\ persisted' = own /\ snap' = snap
              /\ Closed(own)
<1>1. PICK over \in BOOLEAN :
          LET own == IF exec = <<>> THEN <<User(0)>> ELSE <<>>
              h == IF over THEN Compress(log) ELSE log
          IN  /\ log' = h \o own
              /\ restore' = RestorePoint(h, own)
              /\ compacted' = (h # log)
              /\ \E t \in (IF over THEN Trimmed(h) ELSE {h}) : msgs' = t \o own
              /\ persisted' = own
    BY DEF Setup
<1> DEFINE own == IF exec = <<>> THEN <<User(0)>> ELSE <<>>
           h == IF over THEN Compress(log) ELSE log
<1>2. /\ log' = h \o own /\ restore' = h /\ compacted' = (h # log) /\ persisted' = own
      /\ \E t \in (IF over THEN Trimmed(h) ELSE {h}) : msgs' = t \o own
    BY <1>1 DEF RestorePoint
<1>3. h \in Seq(Messages) /\ (h = log \/ h = Compress(log))
    BY CompressCuts DEF TypeOK
<1>4. own \in Seq(Messages) /\ Closed(own)
  <2>1. CASE exec = <<>>
    <3>1. User(0) \in Messages /\ User(0)[1] = "user"
        BY MessageTypes DEF User
    <3>2. /\ <<User(0)>> \in Seq(Messages) /\ DOMAIN <<User(0)>> = 1 .. 1
          /\ <<User(0)>>[1] = User(0)
        BY <3>1, OneMessage
    <3>3. Closed(<<User(0)>>)
      <4> DEFINE u == <<User(0)>>
      <4>1. u \in Seq(Messages) /\ DOMAIN u = 1 .. 1 /\ u[1][1] = "user"
          BY <3>1, <3>2
      <4> HIDE DEF u
      <4>2. \A j \in DOMAIN u : u[j][1] \in {"user", "assistant"}
          BY <4>1
      <4>3. Closed(u)
          BY <4>1, <4>2, PlainIsClosed
      <4> QED BY <4>3 DEF u
    <3> QED BY <2>1, <3>2, <3>3
  <2>2. CASE exec # <<>>
    <3>1. <<>> \in Seq(Messages) /\ Closed(<<>>)
        BY DEF Closed
    <3> QED BY <2>2, <3>1
  <2> QED BY <2>1, <2>2
<1> HIDE DEF own, h
<1>5. PICK t \in Trimmed(h) : msgs' = t \o own
  <2>1. h \in Trimmed(h)
      BY DEF Trimmed
  <2> QED BY <1>2, <2>1
<1>6. t \in Seq(Messages) /\ Common(t, h, Len(t))
    BY <1>3, TrimmedIsEnd
<1>7. snap' = snap
    BY DEF Setup, interrupt
<1> QED BY <1>2, <1>3, <1>4, <1>5, <1>6, <1>7

\* The retry after an overflow: the session is cut, and the model's view rebuilt from it.
LEMMA OverflowBuilds ==
    ASSUME TypeOK, LLMOverflow
    PROVE  /\ log' = Compress(log) /\ restore' = Stable(Compress(log))
           /\ compacted' = (compacted \/ Compress(log) # log)
           /\ UNCHANGED <<persisted, snap, iteration>>
           /\ \/ /\ pc' = "llm" /\ UNCHANGED <<toolVars, outcome>>
                 /\ \E t \in Trimmed(Stable(Compress(log))) :
                       msgs' = t \o Protected(Compress(log))
              \/ End("error")
BY DEF LLMOverflow, interrupt

LEMMA HistoryTypeStep ==
    ASSUME TypeOK, ControlInv, [Next]_vars
    PROVE  HistoryType'
<1>0. HistoryType /\ <<>> \in Seq(Messages)
    BY TypeParts DEF HistoryType
<1>1. CASE Quiet
  <2>1. UNCHANGED history
      BY <1>1, QuietKeeps
  <2>2. SubSeq(log, 1, Len(OldLog)) \in Seq(Messages) \/ ~(Len(log) > Len(OldLog))
      BY <1>0, OldLogType DEF HistoryType
  <2>3. snap' = snap \/ HardAbortRead
      BY <1>1 DEF Quiet, Begin, LoopHead, LoopExit, Call, Respond, LLMCanceled, LLMTransient,
             Retry, BackoffAborted, Direct, ToolAborted, ToolRun, ToolRan, HookHardAbort, Steer,
             InterruptGraceful, InterruptHard, HardAbort, vars, interrupt
  <2>4. snap' \in Seq(Messages)
      BY <1>0, <2>2, <2>3 DEF HardAbortRead, HistoryType
  <2> QED BY <1>0, <2>1, <2>4 DEF history, HistoryType
<1>2. CASE Setup
  <2>1. PICK own \in Seq(Messages), h \in Seq(Messages), t \in Seq(Messages) :
              /\ log' = h \o own /\ restore' = h /\ compacted' = (h # log)
              /\ msgs' = t \o own /\ persisted' = own /\ snap' = snap
      BY <1>2, SetupBuilds
  <2> QED BY <1>0, <2>1 DEF HistoryType
<1>3. CASE LLMOverflow
  <2> DEFINE h == Compress(log)
  <2>1. h \in Seq(Messages)
      BY <1>0, CompressCuts DEF HistoryType
  <2> HIDE DEF h
  <2>2. Stable(h) \in Seq(Messages) /\ Protected(h) \in Seq(Messages)
      BY <1>0, <2>1, SplitCuts DEF HistoryType
  <2>3. /\ log' = h /\ restore' = Stable(h) /\ compacted' = (compacted \/ h # log)
        /\ UNCHANGED <<persisted, snap>>
        /\ \/ \E t \in Trimmed(Stable(h)) : msgs' = t \o Protected(h)
           \/ End("error")
      BY <1>3, OverflowBuilds DEF h
  <2>4. msgs' \in Seq(Messages)
    <3>1. CASE End("error")
        BY <1>0, <3>1 DEF End
    <3>2. ASSUME NEW t \in Trimmed(Stable(h)), msgs' = t \o Protected(h)
          PROVE  msgs' \in Seq(Messages)
      <4>1. t \in Seq(Messages)
          BY <2>2, TrimmedIsEnd
      <4> QED BY <2>2, <3>2, <4>1
    <3> QED BY <2>3, <3>1, <3>2
  <2>5. compacted' \in BOOLEAN
      BY <2>3
  <2> QED BY <1>0, <2>1, <2>2, <2>3, <2>4, <2>5 DEF HistoryType
<1>4. CASE Inject \/ Ask \/ ToolDenied \/ ToolResult \/ ToolPoll
  <2>1. \/ \E u \in Seq(Messages) : Say(u) /\ snap' = snap
        \/ UNCHANGED <<history, snap>>
      BY <1>4, InjectSays, AskSays, AnswerSays, PollSays
  <2>2. CASE UNCHANGED <<history, snap>>
      BY <1>0, <2>2 DEF HistoryType, history
  <2>3. CASE \E u \in Seq(Messages) : Say(u) /\ snap' = snap
      BY <1>0, <2>3, SayType DEF HistoryType
  <2> QED BY <2>1, <2>2, <2>3
<1>5. CASE ToolsDone \/ Final
  <2>1. CASE UNCHANGED <<history, snap>>
      BY <1>0, <2>1 DEF HistoryType, history
  <2>2. CASE \E u \in Seq(Messages) : Persist(u) /\ snap' = snap /\ (msgs' = msgs \/ msgs' = <<>>)
      BY <1>0, <2>2, PersistType DEF HistoryType
  <2> QED BY <1>5, <2>1, <2>2, DoneSays
<1>6. CASE CallFails \/ HookAbort \/ FinalHandled \/ Abort
  <2>1. /\ msgs' = msgs \/ msgs' = <<>>
        /\ log' = log \/ log' = restore
        /\ UNCHANGED <<persisted, restore, compacted, snap>>
      BY <1>6 DEF CallFails, HookAbort, FinalHandled, Abort, End, interrupt
  <2> QED BY <1>0, <2>1 DEF HistoryType
<1>7. CASE HardAbortWrite
  <2>1. log' = snap /\ snap' = <<>> /\ UNCHANGED <<msgs, persisted, restore, compacted>>
      BY <1>7 DEF HardAbortWrite
  <2> QED BY <1>0, <2>1 DEF HistoryType
<1> QED BY <1>1, <1>2, <1>3, <1>4, <1>5, <1>6, <1>7, NextSplit

LEMMA TypeStep ==
    ASSUME TypeOK, ControlInv, [Next]_vars
    PROVE  TypeOK'
<1>1. ControlType' /\ HistoryType'
    BY ControlTypeStep, HistoryTypeStep
<1> QED BY <1>1 DEF TypeOK, ControlType, HistoryType

-----------------------------------------------------------------------------
(* The points of the turn.                                                 *)

LEMMA ControlStep ==
    ASSUME TypeOK, ControlInv, RestoreInv, [Next]_vars
    PROVE  ControlInv'
<1>1. ControlType
    BY TypeParts
<1>2. call \in Int /\ nCalls \in Nat /\ 0 \in Nat
    BY <1>1, LimitsAssumption DEF ControlType
<1> USE DEF pending, history, toolVars, llmVars, interrupt
<1>3. CASE Begin
    BY <1>1, <1>2, <1>3 DEF Begin, ControlType, ControlInv
<1>4. CASE Setup
    BY <1>1, <1>2, <1>4 DEF Setup, ControlType, ControlInv
<1>5. CASE LoopHead
    BY <1>1, <1>2, <1>5 DEF LoopHead, ControlType, ControlInv
<1>6. CASE LoopExit
    BY <1>1, <1>2, <1>6 DEF LoopExit, ControlType, ControlInv
<1>7. CASE Inject
    BY <1>1, <1>2, <1>7 DEF Inject, ControlType, ControlInv
<1>8. CASE Call
    BY <1>1, <1>2, <1>8 DEF Call, ControlType, ControlInv
<1>9. CASE Respond
  <2>1. nCalls' \in 0 .. MaxCalls /\ call = 1 /\ call' = call
      BY <1>9 DEF Respond, ControlInv
  <2>2. call' <= nCalls' + 1
    <3>1. \A n \in 0 .. MaxCalls : 1 <= n + 1
        BY LimitsAssumption
    <3> QED BY <2>1, <3>1
  <2>3. /\ pc = "llm" /\ pc' = "answered"
        /\ UNCHANGED <<iteration, history, handled, hardAbort, stopper, outcome>>
      BY <1>9 DEF Respond
  <2> QED BY <2>1, <2>2, <2>3 DEF ControlInv
<1>10. CASE CallFails
    BY <1>1, <1>2, <1>10 DEF CallFails, ControlType, ControlInv, End
<1>11. CASE LLMCanceled
    BY <1>1, <1>2, <1>11 DEF LLMCanceled, ControlType, ControlInv
<1>12. CASE LLMTransient
    BY <1>1, <1>2, <1>12 DEF LLMTransient, ControlType, ControlInv, MayRetry
<1>13. CASE Retry
    BY <1>1, <1>2, <1>13 DEF Retry, ControlType, ControlInv
<1>14. CASE BackoffAborted
    BY <1>1, <1>2, <1>14 DEF BackoffAborted, ControlType, ControlInv
<1>15. CASE LLMOverflow
    BY <1>1, <1>2, <1>15 DEF LLMOverflow, ControlType, ControlInv, End
<1>16. CASE Direct
    BY <1>1, <1>2, <1>16 DEF Direct, ControlType, ControlInv
<1>17. CASE Ask
    BY <1>1, <1>2, <1>17 DEF Ask, ControlType, ControlInv
<1>18. CASE ToolAborted
    BY <1>1, <1>2, <1>18 DEF ToolAborted, ControlType, ControlInv
<1>19. CASE ToolDenied
    BY <1>1, <1>2, <1>19 DEF ToolDenied, ControlType, ControlInv
<1>20. CASE ToolRun
    BY <1>1, <1>2, <1>20 DEF ToolRun, ControlType, ControlInv
<1>21. CASE ToolRan
    BY <1>1, <1>2, <1>21 DEF ToolRan, ControlType, ControlInv
<1>22. CASE ToolResult
    BY <1>1, <1>2, <1>22 DEF ToolResult, ControlType, ControlInv
<1>23. CASE ToolPoll
    BY <1>1, <1>2, <1>23 DEF ToolPoll, ControlType, ControlInv
<1>24. CASE ToolsDone
    BY <1>1, <1>2, <1>24 DEF ToolsDone, ControlType, ControlInv
<1>25. CASE HookAbort
    BY <1>1, <1>2, <1>25 DEF HookAbort, ControlType, ControlInv, End
<1>26. CASE HookHardAbort
    BY <1>1, <1>2, <1>26 DEF HookHardAbort, ControlType, ControlInv
<1>27. CASE FinalHandled
    BY <1>1, <1>2, <1>27 DEF FinalHandled, ControlType, ControlInv, End
<1>28. CASE Final
    BY <1>1, <1>2, <1>28 DEF Final, ControlType, ControlInv, End
<1>29. CASE Abort
    BY <1>1, <1>2, <1>29 DEF Abort, ControlType, ControlInv, End
<1>30. CASE Steer
    BY <1>1, <1>2, <1>30 DEF Steer, ControlType, ControlInv
<1>31. CASE InterruptGraceful
    BY <1>1, <1>2, <1>31 DEF InterruptGraceful, ControlType, ControlInv
<1>32. CASE InterruptHard
    BY <1>1, <1>2, <1>32 DEF InterruptHard, ControlType, ControlInv
<1>33. CASE HardAbort
    BY <1>1, <1>2, <1>33 DEF HardAbort, ControlType, ControlInv
<1>34. CASE HardAbortRead
    BY <1>1, <1>2, <1>34 DEF HardAbortRead, ControlType, ControlInv
<1>35. CASE HardAbortWrite
    BY <1>1, <1>2, <1>35 DEF HardAbortWrite, ControlType, ControlInv, RestoreInv
<1>36. CASE UNCHANGED vars
    BY <1>1, <1>2, <1>36 DEF vars, ControlInv
<1> QED BY <1>3, <1>4, <1>5, <1>6, <1>7, <1>8, <1>9, <1>10, <1>11, <1>12, <1>13, <1>14, <1>15, <1>16, <1>17, <1>18, <1>19, <1>20, <1>21, <1>22, <1>23, <1>24, <1>25, <1>26, <1>27, <1>28, <1>29, <1>30, <1>31, <1>32, <1>33, <1>34, <1>35, <1>36 DEF Next, TurnStep, Done

-----------------------------------------------------------------------------
(* Calls are paired.                                                       *)

LEMMA ClosedNone == Closed(<<>>) /\ <<>> \in Seq(Messages)
BY DEF Closed

LEMMA BoundariesAppended ==
    ASSUME NEW h \in Seq(Messages), NEW u \in Seq(Messages), Boundaries(h) # {}
    PROVE  Boundaries(h \o u) # {}
<1>1. PICK p \in DOMAIN h : h[p][1] = "user"
    BY DEF Boundaries
<1>2. p \in DOMAIN (h \o u) /\ (h \o u)[p] = h[p]
    OBVIOUS
<1> QED BY <1>1, <1>2 DEF Boundaries

\* A compacted history is a history again.
LEMMA CompressIsClosed ==
    ASSUME NEW h \in Seq(Messages), Closed(h), Boundaries(h) # {}
    PROVE  Closed(Compress(h)) /\ Boundaries(Compress(h)) # {}
<1>1. CASE Compress(h) = h
    BY <1>1
<1>2. ASSUME NEW p \in Boundaries(h), Compress(h) = <<h[p]>>
      PROVE  Closed(Compress(h)) /\ Boundaries(Compress(h)) # {}
  <2> DEFINE u == <<h[p]>>
  <2>1. h[p] \in Messages /\ h[p][1] = "user"
      BY DEF Boundaries
  <2>2. u \in Seq(Messages) /\ DOMAIN u = 1 .. 1 /\ u[1][1] = "user"
      BY <2>1
  <2> HIDE DEF u
  <2>3. \A j \in DOMAIN u : u[j][1] \in {"user", "assistant"}
      BY <2>2
  <2>4. Closed(u) /\ 1 \in Boundaries(u)
      BY <2>2, <2>3, PlainIsClosed DEF Boundaries
  <2> QED BY <1>2, <2>4 DEF u
<1>3. ASSUME NEW p \in Boundaries(h), Compress(h) = Drop(h, p - 1)
      PROVE  Closed(Compress(h)) /\ Boundaries(Compress(h)) # {}
  <2>1. Closed(Drop(h, p - 1))
      BY BoundaryIsWhole
  <2> DEFINE k == p - 1
  <2>2. k \in 0 .. Len(h) /\ 1 \in 1 .. Len(h) - k /\ k + 1 = p /\ h[p][1] = "user"
      BY DEF Boundaries
  <2> HIDE DEF k
  <2>3. DOMAIN Drop(h, k) = 1 .. Len(h) - k /\ Drop(h, k)[1] = h[k + 1]
      BY <2>2, DropOf
  <2>4. 1 \in Boundaries(Drop(h, k))
      BY <2>2, <2>3 DEF Boundaries
  <2> QED BY <1>3, <2>1, <2>4 DEF k
<1> QED BY <1>1, <1>2, <1>3, CompressCuts

LEMMA TrimmedIsClosed ==
    ASSUME NEW h \in Seq(Messages), Closed(h), NEW s \in Trimmed(h)
    PROVE  Closed(s) /\ s \in Seq(Messages)
<1>1. CASE s = h
    BY <1>1
<1>2. CASE s = <<>>
    BY <1>2, ClosedNone
<1>3. ASSUME NEW p \in Boundaries(h), s = Drop(h, p - 1)
      PROVE  Closed(s)
    BY <1>3, BoundaryIsWhole
<1>4. s \in Seq(Messages)
    BY TrimmedIsEnd
<1> QED BY <1>1, <1>2, <1>3, <1>4 DEF Trimmed

LEMMA MissingType ==
    ASSUME TypeOK, ControlInv
    PROVE  Missing \in 0 .. nCalls /\ nCalls \in Nat /\ call \in Nat /\ iteration \in Nat
<1>1. /\ nCalls \in Nat /\ call \in Nat /\ call >= 1 /\ call <= nCalls + 1 /\ iteration \in Nat
      /\ pc = "poll" => call <= nCalls
    BY LimitsAssumption DEF TypeOK, ControlInv
<1>2. CASE Asked
  <2>1. nCalls - call + 1 \in 0 .. nCalls
      BY <1>1
  <2> QED BY <1>1, <1>2, <2>1 DEF Missing
<1>3. CASE ~Asked /\ Answered
  <2>1. nCalls - call \in 0 .. nCalls
      BY <1>1, <1>3 DEF Answered
  <2> QED BY <1>1, <1>3, <2>1 DEF Missing
<1>4. CASE ~Asked /\ ~Answered
    BY <1>1, <1>4 DEF Missing
<1> QED BY <1>2, <1>3, <1>4

\* The histories are as they were, and so is what is missing.
LEMMA PairKept ==
    ASSUME TypeOK, PairInv, UNCHANGED history,
           ~hardAbort' =>
               /\ ~hardAbort
               /\ pc' # "done" \/ outcome' = "completed" => pc # "done" \/ outcome = "completed"
               /\ \/ Missing' = Missing /\ UNCHANGED <<iteration, nCalls>>
                  \/ Missing' = 0 /\ Missing = 0
    PROVE  PairInv'
<1> SUFFICES ASSUME ~hardAbort' PROVE PairInv'
    BY DEF PairInv
<1>1. log \in Seq(Messages) /\ persisted \in Seq(Messages) /\ msgs \in Seq(Messages)
    BY DEF TypeOK
<1>2. CASE Missing' = Missing /\ UNCHANGED <<iteration, nCalls>>
    BY <1>2 DEF PairInv, history
<1>3. CASE Missing' = 0 /\ Missing = 0
  <2>1. ASSUME NEW h \in Seq(Messages), Open(h, iteration, nCalls, Missing)
        PROVE  Open(h, iteration', nCalls', Missing')
      BY <1>3, <2>1, OpenNone
  <2> QED BY <1>1, <2>1 DEF PairInv, history
<1> QED BY <1>2, <1>3

\* What is said continues any history in the same way.
LEMMA PairSaid ==
    ASSUME TypeOK, PairInv, NEW u \in Seq(Messages), Say(u), pc # "done", hardAbort' = hardAbort,
           \A h \in Seq(Messages) : Open(h, iteration, nCalls, Missing) =>
                                        Open(h \o u, iteration', nCalls', Missing')
    PROVE  PairInv'
<1> SUFFICES ASSUME ~hardAbort' PROVE PairInv'
    BY DEF PairInv
<1>1. log \in Seq(Messages) /\ persisted \in Seq(Messages) /\ msgs \in Seq(Messages)
    BY DEF TypeOK
<1>2. log' = log \o u /\ persisted' = persisted \o u /\ msgs' = msgs \o u
    BY DEF Say, Persist
<1>3. /\ Open(log, iteration, nCalls, Missing) /\ Open(persisted, iteration, nCalls, Missing)
      /\ Open(msgs, iteration, nCalls, Missing) /\ Boundaries(log) # {}
    BY DEF PairInv
<1>4. Boundaries(log \o u) # {}
    BY <1>1, <1>3, BoundariesAppended
<1> QED BY <1>1, <1>2, <1>3, <1>4 DEF PairInv

LEMMA PairQuiet ==
    ASSUME TypeOK, ControlInv, PairInv, Quiet
    PROVE  PairInv'
<1>1. UNCHANGED history
    BY QuietKeeps
<1> SUFFICES ASSUME ~hardAbort'
             PROVE  /\ ~hardAbort
                    /\ pc' # "done" \/ outcome' = "completed" => pc # "done" \/ outcome = "completed"
                    /\ \/ Missing' = Missing /\ UNCHANGED <<iteration, nCalls>>
                       \/ Missing' = 0 /\ Missing = 0
    BY <1>1, PairKept
<1> USE DEF pending, toolVars, llmVars, interrupt
<1>2. CASE Begin \/ LoopHead \/ LoopExit \/ Call \/ Respond \/ Retry \/ BackoffAborted \/ Direct
  <2>1. /\ pc \in {"start", "loop", "call", "llm", "backoff", "answered"}
        /\ pc' \in {"abort", "setup", "inject", "loop", "final", "llm", "answered"}
        /\ hardAbort' = hardAbort
      BY <1>2 DEF Begin, LoopHead, LoopExit, Call, Respond, Retry, BackoffAborted, Direct
  <2> QED BY <2>1 DEF Missing, Asked, Answered
<1>3. CASE LLMCanceled \/ ToolAborted \/ HookHardAbort
    BY <1>3 DEF LLMCanceled, ToolAborted, HookHardAbort
<1>4. CASE LLMTransient
    BY <1>4 DEF LLMTransient, Missing, Asked, Answered
<1>5. CASE ToolRun \/ ToolRan
    BY <1>5 DEF ToolRun, ToolRan, Missing, Asked, Answered
<1>6. CASE Steer \/ InterruptGraceful \/ InterruptHard \/ HardAbort \/ HardAbortRead
    BY <1>6 DEF Steer, InterruptGraceful, InterruptHard, HardAbort, HardAbortRead, Missing, Asked,
           Answered
<1>7. CASE UNCHANGED vars
    BY <1>7 DEF vars, Missing, Asked, Answered
<1> QED BY <1>2, <1>3, <1>4, <1>5, <1>6, <1>7 DEF Quiet

LEMMA PairInject ==
    ASSUME TypeOK, ControlInv, PairInv, Inject
    PROVE  PairInv'
<1>1. PICK u \in Seq(Messages) :
          /\ Say(u) /\ DOMAIN u = DOMAIN local /\ \A i \in DOMAIN local : u[i] = User(local[i])
    BY InjectSays
<1>2. Closed(u)
  <2>1. \A j \in DOMAIN u : u[j][1] \in {"user", "assistant"}
      BY <1>1 DEF User
  <2> QED BY <2>1, PlainIsClosed
<1>3. Missing = 0 /\ Missing' = 0 /\ pc # "done" /\ hardAbort' = hardAbort
    BY DEF Inject, interrupt, Missing, Asked, Answered
<1>4. ASSUME NEW h \in Seq(Messages), Open(h, iteration, nCalls, Missing)
      PROVE  Open(h \o u, iteration', nCalls', Missing')
  <2>1. Closed(h)
      BY <1>3, <1>4, OpenNone
  <2>2. Closed(h \o u) /\ h \o u \in Seq(Messages)
      BY <1>2, <2>1, ClosedConcat
  <2> QED BY <1>3, <2>2, OpenNone
<1> QED BY <1>1, <1>3, <1>4, PairSaid

LEMMA PairAsk ==
    ASSUME TypeOK, ControlInv, PairInv, Ask
    PROVE  PairInv'
<1>1. PICK u \in Seq(Messages) :
          /\ Say(u) /\ UNCHANGED <<nCalls, iteration>>
          /\ Len(u) = 1 /\ u[1] = Calls(iteration, nCalls)
    BY AskSays
<1>2. /\ Missing = 0 /\ nCalls \in Nat /\ nCalls > 0 /\ iteration \in Nat
      /\ pc # "done" /\ hardAbort' = hardAbort
    BY LimitsAssumption DEF Ask, interrupt, Missing, Asked, Answered, TypeOK
<1>3. Missing' = nCalls
  <2>1. pc' = "tool" /\ call' = 1 /\ nCalls' = nCalls
      BY DEF Ask
  <2>2. nCalls - 1 + 1 = nCalls
      BY <1>2
  <2> QED BY <2>1, <2>2 DEF Missing, Asked
<1>4. ASSUME NEW h \in Seq(Messages), Open(h, iteration, nCalls, Missing)
      PROVE  Open(h \o u, iteration', nCalls', Missing')
  <2>1. Closed(h)
      BY <1>2, <1>4, OpenNone
  <2>2. Open(h \o u, iteration, nCalls, nCalls)
      BY <1>1, <1>2, <2>1, AskOpens
  <2> QED BY <1>1, <1>3, <2>2
<1> QED BY <1>1, <1>2, <1>4, PairSaid

\* The next answers, m of them.
LEMMA PairAnswers ==
    ASSUME TypeOK, ControlInv, PairInv, NEW u \in Seq(Messages), Say(u),
           UNCHANGED <<nCalls, iteration, hardAbort>>, pc # "done",
           Len(u) <= Missing, Missing' = Missing - Len(u),
           \A j \in 1 .. Len(u) : u[j] = Result(iteration, nCalls - Missing + j)
    PROVE  PairInv'
<1>1. Missing \in 0 .. nCalls /\ nCalls \in Nat /\ iteration \in Nat
    BY MissingType
<1> DEFINE k == Missing
<1>2. /\ k \in 0 .. nCalls /\ Len(u) <= k
      /\ \A j \in 1 .. Len(u) : u[j] = Result(iteration, nCalls - k + j)
    BY <1>1
<1>3. ASSUME NEW h \in Seq(Messages), Open(h, iteration, nCalls, k)
      PROVE  Open(h \o u, iteration, nCalls, k - Len(u))
  <2> HIDE DEF k
  <2> QED BY <1>1, <1>2, <1>3, AnswersClose
<1>4. \A h \in Seq(Messages) : Open(h, iteration, nCalls, Missing) =>
                                   Open(h \o u, iteration', nCalls', Missing')
    BY <1>3
<1> QED BY <1>4, PairSaid

LEMMA PairAnswer ==
    ASSUME TypeOK, ControlInv, PairInv, ToolDenied \/ ToolResult
    PROVE  PairInv'
<1>1. PICK u \in Seq(Messages) :
          /\ Say(u) /\ UNCHANGED <<nCalls, iteration>>
          /\ Len(u) = 1 /\ u[1] = Result(iteration, call)
    BY AnswerSays
<1>2. /\ nCalls \in Nat /\ call \in Nat /\ call <= nCalls /\ pc # "done"
      /\ pc \in {"tool", "executed"} /\ hardAbort' = hardAbort
    BY MissingType DEF ToolDenied, ToolResult, interrupt, ControlInv
<1>3. Missing = nCalls - call + 1
    BY <1>2 DEF Missing, Asked
<1>4. Missing' = nCalls - call
  <2>1. CASE ToolDenied
    <3>1. pc' \in {"tool", "executed"} /\ call' = call + 1 /\ nCalls' = nCalls
        BY <1>1, <1>2, <2>1 DEF ToolDenied
    <3>2. nCalls - (call + 1) + 1 = nCalls - call
        BY <1>2
    <3> QED BY <3>1, <3>2 DEF Missing, Asked
  <2>2. CASE ToolResult
    <3>1. pc' = "poll" /\ call' = call /\ nCalls' = nCalls
        BY <1>1, <2>2 DEF ToolResult
    <3> QED BY <3>1 DEF Missing, Asked, Answered
  <2> QED BY <2>1, <2>2
<1>5. Len(u) <= Missing /\ Missing' = Missing - Len(u)
    BY <1>1, <1>2, <1>3, <1>4
<1>6. ASSUME NEW j \in 1 .. Len(u)
      PROVE  u[j] = Result(iteration, nCalls - Missing + j)
  <2>1. j = 1 /\ nCalls - Missing + j = call
      BY <1>1, <1>2, <1>3
  <2> QED BY <1>1, <2>1
<1> QED BY <1>1, <1>2, <1>5, <1>6, PairAnswers

LEMMA PairPoll ==
    ASSUME TypeOK, ControlInv, PairInv, ToolPoll
    PROVE  PairInv'
<1>1. /\ nCalls \in Nat /\ call \in Nat /\ call <= nCalls /\ pc = "poll" /\ pc' = "tool"
      /\ hardAbort' = hardAbort
    BY MissingType DEF ToolPoll, interrupt, ControlInv
<1>2. Missing = nCalls - call
    BY <1>1 DEF Missing, Asked, Answered
<1>3. CASE UNCHANGED history /\ call' = call + 1 /\ UNCHANGED <<nCalls, iteration>>
  <2>1. nCalls - (call + 1) + 1 = nCalls - call
      BY <1>1
  <2>2. Missing' = Missing
      BY <1>1, <1>2, <1>3, <2>1 DEF Missing, Asked
  <2> QED BY <1>1, <1>3, <2>2, PairKept
<1>4. CASE /\ Skipped \in Seq(Messages) /\ Say(Skipped) /\ call' = nCalls + 1
           /\ UNCHANGED <<nCalls, iteration>>
  <2> DEFINE u == Skipped
  <2>1. Len(u) = nCalls - call /\ \A j \in 1 .. Len(u) : u[j] = Result(iteration, call + j)
      BY <1>1, SkippedType
  <2>2. u \in Seq(Messages) /\ Say(u)
      BY <1>4
  <2> HIDE DEF u
  <2>3. Missing' = 0
    <3>1. nCalls - (nCalls + 1) + 1 = 0
        BY <1>1
    <3> QED BY <1>1, <1>4, <3>1 DEF Missing, Asked
  <2>4. Len(u) <= Missing /\ Missing' = Missing - Len(u)
      BY <1>1, <1>2, <2>1, <2>3
  <2>5. nCalls - Missing = call
      BY <1>1, <1>2
  <2>6. \A j \in 1 .. Len(u) : u[j] = Result(iteration, nCalls - Missing + j)
      BY <2>1, <2>5
  <2> QED BY <1>1, <1>4, <2>2, <2>4, <2>6, PairAnswers
<1> QED BY <1>3, <1>4, PollSays

\* The last message of a turn is not a call.
LEMMA PairDone ==
    ASSUME TypeOK, ControlInv, PairInv, ToolsDone \/ Final
    PROVE  PairInv'
<1>1. /\ Missing = 0 /\ pc # "done" /\ hardAbort' = hardAbort
      /\ pc' \in {"finalHandled", "loop", "done"}
  <2>1. CASE ToolsDone
    <3>1. nCalls \in Nat /\ call \in Nat /\ call > nCalls /\ call <= nCalls + 1 /\ pc = "tool"
        BY <2>1, MissingType DEF ToolsDone, ControlInv
    <3>2. nCalls - call + 1 = 0
        BY <3>1
    <3> QED BY <2>1, <3>1, <3>2 DEF ToolsDone, interrupt, Missing, Asked
  <2>2. CASE Final
      BY <2>2 DEF Final, End, interrupt, Missing, Asked, Answered
  <2> QED BY <2>1, <2>2
<1>2. Missing' = 0
    BY <1>1 DEF Missing, Asked, Answered
<1>3. CASE ToolsDone /\ UNCHANGED history
    BY <1>1, <1>2, <1>3, PairKept
<1>4. ASSUME NEW u \in Seq(Messages), Persist(u), msgs' = msgs \/ msgs' = <<>>,
             Len(u) = 1, u[1] = Reply(iteration)
      PROVE  PairInv'
  <2> SUFFICES ASSUME ~hardAbort' PROVE PairInv'
      BY DEF PairInv
  <2>1. /\ log \in Seq(Messages) /\ persisted \in Seq(Messages) /\ msgs \in Seq(Messages)
        /\ log' = log \o u /\ persisted' = persisted \o u
      BY <1>4 DEF TypeOK, Persist
  <2>2. Closed(log) /\ Closed(persisted) /\ Closed(msgs) /\ Boundaries(log) # {}
      BY <1>1, <2>1, OpenNone DEF PairInv
  <2>3. Closed(u)
    <3>1. DOMAIN u = 1 .. 1 /\ u[1][1] = "assistant"
        BY <1>4 DEF Reply
    <3>2. \A j \in DOMAIN u : u[j][1] \in {"user", "assistant"}
        BY <3>1
    <3> QED BY <3>2, PlainIsClosed
  <2>4. /\ Closed(log') /\ log' \in Seq(Messages) /\ Closed(persisted') /\ persisted' \in Seq(Messages)
        /\ Boundaries(log') # {}
      BY SMTT(40), <2>1, <2>2, <2>3, ClosedConcat, BoundariesAppended
  <2>5. Closed(msgs') /\ msgs' \in Seq(Messages)
      BY <1>4, <2>1, <2>2, ClosedNone
  <2> QED BY <1>2, <2>4, <2>5, OpenNone DEF PairInv
<1> QED BY <1>3, <1>4, DoneSays

LEMMA PairSetup ==
    ASSUME TypeOK, ControlInv, PairInv, Setup
    PROVE  PairInv'
<1> SUFFICES ASSUME ~hardAbort' PROVE PairInv'
    BY DEF PairInv
<1>1. PICK own \in Seq(Messages), h \in Seq(Messages), t \in Seq(Messages) :
          /\ h = log \/ h = Compress(log)
          /\ log' = h \o own /\ t \in Trimmed(h) /\ msgs' = t \o own /\ persisted' = own
          /\ Closed(own)
    BY SetupBuilds
<1>2. /\ ~hardAbort /\ pc = "setup" /\ Missing = 0 /\ Missing' = 0
    BY DEF Setup, interrupt, Missing, Asked, Answered
<1>3. Closed(log) /\ Boundaries(log) # {} /\ log \in Seq(Messages)
    BY <1>2, OpenNone DEF PairInv, TypeOK
<1>4. Closed(h) /\ Boundaries(h) # {}
    BY <1>1, <1>3, CompressIsClosed
<1>5. Closed(t)
    BY <1>1, <1>4, TrimmedIsClosed
<1>6. /\ Closed(log') /\ log' \in Seq(Messages) /\ Closed(msgs') /\ msgs' \in Seq(Messages)
      /\ Closed(persisted') /\ persisted' \in Seq(Messages) /\ Boundaries(log') # {}
    BY <1>1, <1>4, <1>5, ClosedConcat, BoundariesAppended
<1> QED BY <1>2, <1>6, OpenNone DEF PairInv

LEMMA PairOverflow ==
    ASSUME TypeOK, ControlInv, PairInv, LLMOverflow
    PROVE  PairInv'
<1> SUFFICES ASSUME ~hardAbort' PROVE PairInv'
    BY DEF PairInv
<1> DEFINE h == Compress(log)
<1>1. /\ log' = h /\ persisted' = persisted
      /\ \/ pc' = "llm" /\ \E t \in Trimmed(Stable(h)) : msgs' = t \o Protected(h)
         \/ End("error")
    BY OverflowBuilds
<1>2. ~hardAbort /\ Missing = 0 /\ pc = "llm" /\ persisted \in Seq(Messages) /\ log \in Seq(Messages)
    BY DEF LLMOverflow, interrupt, Missing, Asked, Answered, TypeOK
<1>3. Closed(log) /\ Closed(persisted) /\ Boundaries(log) # {}
    BY <1>2, OpenNone DEF PairInv
<1>4. Closed(h) /\ Boundaries(h) # {} /\ h \in Seq(Messages)
    BY <1>2, <1>3, CompressIsClosed, CompressCuts
<1> HIDE DEF h
<1>5. CASE End("error")
  <2>1. pc' = "done" /\ outcome' = "error" /\ msgs' = <<>>
      BY <1>5 DEF End
  <2>2. Missing' = 0
      BY <2>1 DEF Missing, Asked, Answered
  <2> QED BY <2>1, <2>2, ClosedNone, OpenNone DEF PairInv
<1>6. ASSUME pc' = "llm", NEW t \in Trimmed(Stable(h)), msgs' = t \o Protected(h)
      PROVE  PairInv'
  <2>1. PICK k \in Nat :
            /\ Len(h) - k \in 0 .. Len(h)
            /\ Common(h, persisted, k) /\ \A j \in Nat : Common(h, persisted, j) => j <= k
            /\ Protected(h) = Drop(h, Len(h) - k) /\ Stable(h) = SubSeq(h, 1, Len(h) - k)
            /\ Protected(h) \in Seq(Messages) /\ Stable(h) \in Seq(Messages)
      BY <1>2, <1>4, SplitCuts
  <2>2. Whole(h, Len(h) - k)
      BY <1>2, <1>3, <1>4, <2>1, ProtectedIsWhole
  <2> DEFINE a == Len(h) - k
  <2>3. a \in 0 .. Len(h) /\ Whole(h, a) /\ Protected(h) = Drop(h, a) /\ Stable(h) = SubSeq(h, 1, a)
      BY <2>1, <2>2
  <2> HIDE DEF a
  <2>4. Closed(Protected(h)) /\ Closed(Stable(h))
      BY <1>4, <2>3, CutAfter
  <2>5. Closed(t) /\ t \in Seq(Messages)
      BY <2>1, <2>4, TrimmedIsClosed
  <2>6. Closed(msgs') /\ msgs' \in Seq(Messages)
      BY <1>6, <2>1, <2>4, <2>5, ClosedConcat
  <2>7. Missing' = 0
      BY <1>6 DEF Missing, Asked, Answered
  <2> QED BY <1>1, <1>2, <1>3, <1>4, <2>6, <2>7, OpenNone DEF PairInv
<1> QED BY <1>1, <1>5, <1>6

LEMMA PairEnds ==
    ASSUME TypeOK, ControlInv, PairInv,
           CallFails \/ HookAbort \/ FinalHandled \/ Abort \/ HardAbortWrite
    PROVE  PairInv'
<1> SUFFICES ASSUME ~hardAbort' PROVE PairInv'
    BY DEF PairInv
<1>1. ~Abort /\ ~HardAbortWrite
    BY DEF Abort, HardAbortWrite, ControlInv, interrupt
<1>2. CASE CallFails \/ HookAbort
  <2>1. pc' = "done" /\ outcome' = "error" /\ msgs' = <<>>
      BY <1>2 DEF CallFails, HookAbort, End
  <2>2. Missing' = 0
      BY <2>1 DEF Missing, Asked, Answered
  <2> QED BY <2>1, <2>2, ClosedNone, OpenNone DEF PairInv
<1>3. CASE FinalHandled
  <2>1. /\ pc = "finalHandled" /\ pc' = "done" /\ msgs' = <<>> /\ log' = log /\ persisted' = persisted
        /\ ~hardAbort
      BY <1>3 DEF FinalHandled, End, interrupt
  <2>2. Missing = 0 /\ Missing' = 0
      BY <2>1 DEF Missing, Asked, Answered
  <2>3. log \in Seq(Messages) /\ persisted \in Seq(Messages)
      BY DEF TypeOK
  <2>4. Closed(log) /\ Closed(persisted) /\ Boundaries(log) # {}
      BY <2>1, <2>2, <2>3, OpenNone DEF PairInv
  <2> QED BY <2>1, <2>2, <2>3, <2>4, ClosedNone, OpenNone DEF PairInv
<1> QED BY <1>1, <1>2, <1>3

LEMMA PairStep ==
    ASSUME TypeOK, ControlInv, PairInv, [Next]_vars
    PROVE  PairInv'
BY NextSplit, PairQuiet, PairInject, PairAsk, PairAnswer, PairPoll, PairDone, PairSetup,
   PairOverflow, PairEnds

-----------------------------------------------------------------------------
(* The model sees the end of the session.                                  *)

LEMMA SeenSaid ==
    ASSUME TypeOK, SeenInv, NEW u \in Seq(Messages), Say(u),
           ~hardAbort, pc \notin {"done", "finalHandled"}
    PROVE  SeenInv'
<1> DEFINE n == Len(u)
<1>1. /\ log \in Seq(Messages) /\ persisted \in Seq(Messages) /\ msgs \in Seq(Messages)
      /\ log' = log \o u /\ persisted' = persisted \o u /\ msgs' = msgs \o u
    BY DEF TypeOK, Say, Persist
<1>2. n \in Nat /\ Len(msgs) \in Nat /\ Len(msgs') = Len(msgs) + n
    BY <1>1, AppendedTo
<1>3. Common(msgs, log, Len(msgs)) /\ \A k \in Nat : Common(log, persisted, k) => k <= Len(msgs)
    BY DEF SeenInv
<1>4. Common(msgs', log', Len(msgs'))
  <2> DEFINE l == Len(msgs)
  <2>1. l \in Nat /\ Common(msgs, log, l) /\ Len(msgs') = l + n
      BY <1>2, <1>3
  <2> HIDE DEF l
  <2>2. Common(msgs \o u, log \o u, l + n)
      BY <1>1, <2>1, CommonAppended
  <2> QED BY <1>1, <2>1, <2>2
<1>5. ASSUME NEW k \in Nat, Common(log', persisted', k)
      PROVE  k <= Len(msgs')
  <2>1. CASE k >= n
    <3>1. Common(log, persisted, k - n)
        BY <1>1, <1>5, <2>1, CommonAppended
    <3>2. k - n \in Nat
        BY <1>2, <2>1
    <3>3. k - n <= Len(msgs)
        BY <1>3, <3>1, <3>2
    <3> HIDE DEF n
    <3> QED BY <1>2, <3>3
  <2>2. CASE ~(k >= n)
    <3> HIDE DEF n
    <3> QED BY <1>2, <2>2
  <2> QED BY <2>1, <2>2
<1> QED BY <1>4, <1>5 DEF SeenInv

LEMMA SeenSetup ==
    ASSUME TypeOK, Setup
    PROVE  SeenInv'
<1>1. PICK own \in Seq(Messages), h \in Seq(Messages), t \in Seq(Messages) :
          /\ log' = h \o own /\ Common(t, h, Len(t)) /\ msgs' = t \o own /\ persisted' = own
    BY SetupBuilds
<1> DEFINE n == Len(own)
           l == Len(t)
<1>2. n \in Nat /\ l \in Nat /\ Len(msgs') = l + n
    BY <1>1, AppendedTo
<1>3. Common(msgs', log', Len(msgs'))
  <2>1. l \in Nat /\ Common(t, h, l)
      BY <1>1
  <2> HIDE DEF l
  <2>2. Common(t \o own, h \o own, l + n)
      BY <2>1, CommonAppended
  <2> QED BY <1>1, <1>2, <2>2
<1>4. ASSUME NEW k \in Nat, Common(log', persisted', k)
      PROVE  k <= Len(msgs')
  <2>1. k <= n
      BY <1>1, <1>4 DEF Common
  <2> HIDE DEF n, l
  <2> QED BY <1>2, <2>1
<1> QED BY <1>3, <1>4 DEF SeenInv

\* After a compaction the rebuilt view ends with all that is left of the turn.
LEMMA SeenOverflow ==
    ASSUME TypeOK, LLMOverflow
    PROVE  SeenInv'
<1> DEFINE h == Compress(log)
<1>1. /\ log' = h /\ persisted' = persisted
      /\ \/ pc' = "llm" /\ \E t \in Trimmed(Stable(h)) : msgs' = t \o Protected(h)
         \/ End("error")
    BY OverflowBuilds
<1>2. persisted \in Seq(Messages) /\ log \in Seq(Messages)
    BY DEF TypeOK
<1>3. h \in Seq(Messages)
    BY <1>2, CompressCuts
<1> HIDE DEF h
<1>4. CASE End("error")
    BY <1>4 DEF End, SeenInv
<1>5. ASSUME NEW t \in Trimmed(Stable(h)), msgs' = t \o Protected(h)
      PROVE  SeenInv'
  <2>1. PICK k \in Nat :
            /\ \A j \in Nat : Common(h, persisted, j) => j <= k
            /\ Protected(h) \in Seq(Messages) /\ Len(Protected(h)) = k
            /\ Stable(h) \in Seq(Messages) /\ h = Stable(h) \o Protected(h)
      BY <1>2, <1>3, SplitCuts
  <2> DEFINE l == Len(t)
             a == Stable(h)
             b == Protected(h)
  <2>2. t \in Seq(Messages) /\ Common(t, a, l) /\ l \in Nat
      BY <2>1, TrimmedIsEnd
  <2>3. a \in Seq(Messages) /\ b \in Seq(Messages) /\ h = a \o b /\ msgs' = t \o b /\ Len(b) = k
      BY <1>5, <2>1
  <2>4. Len(msgs') = l + k
      BY <2>2, <2>3, AppendedTo
  <2> HIDE DEF l, a, b
  <2>5. Common(t \o b, a \o b, l + Len(b))
      BY <2>2, <2>3, CommonAppended
  <2>6. Common(msgs', log', Len(msgs'))
      BY <1>1, <2>3, <2>4, <2>5
  <2>7. ASSUME NEW j \in Nat, Common(log', persisted', j)
        PROVE  j <= Len(msgs')
    <3>1. j <= k
        BY <1>1, <2>1, <2>7
    <3> QED BY <2>2, <2>4, <3>1
  <2> QED BY <2>6, <2>7 DEF SeenInv
<1> QED BY <1>1, <1>4, <1>5

LEMMA SeenStep ==
    ASSUME TypeOK, ControlInv, SeenInv, [Next]_vars
    PROVE  SeenInv'
<1> SUFFICES ASSUME ~hardAbort', pc' \notin {"done", "finalHandled"}
             PROVE  SeenInv'
    BY DEF SeenInv
<1> USE DEF interrupt, pending, toolVars, llmVars
<1>1. CASE Quiet
  <2>1. UNCHANGED history
      BY <1>1, QuietKeeps
  <2>2. ~hardAbort /\ pc \notin {"done", "finalHandled"}
      BY <1>1 DEF Quiet, Begin, LoopHead, LoopExit, Call, Respond, LLMCanceled, LLMTransient, Retry,
             BackoffAborted, Direct, ToolAborted, ToolRun, ToolRan, HookHardAbort, Steer,
             InterruptGraceful, InterruptHard, HardAbort, HardAbortRead, vars
  <2> QED BY <2>1, <2>2 DEF SeenInv, history
<1>2. CASE Inject \/ Ask \/ ToolDenied \/ ToolResult \/ ToolPoll
  <2>1. ~hardAbort /\ pc \notin {"done", "finalHandled"}
    <3>1. pc \in {"inject", "answered", "tool", "executed", "poll"} /\ hardAbort' = hardAbort
      <4>1. CASE Inject \/ Ask
          BY <4>1 DEF Inject, Ask
      <4>2. CASE ToolDenied \/ ToolResult \/ ToolPoll
          BY <4>2 DEF ToolDenied, ToolResult, ToolPoll
      <4> QED BY <1>2, <4>1, <4>2
    <3> QED BY <3>1
  <2>2. UNCHANGED history \/ \E u \in Seq(Messages) : Say(u)
      BY <1>2, InjectSays, AskSays, AnswerSays, PollSays
  <2>3. CASE UNCHANGED history
      BY <2>1, <2>3 DEF SeenInv, history
  <2> QED BY <2>1, <2>2, <2>3, SeenSaid
<1>3. CASE ToolsDone
  <2>1. UNCHANGED history /\ ~hardAbort /\ pc \notin {"done", "finalHandled"}
      BY <1>3 DEF ToolsDone
  <2> QED BY <2>1 DEF SeenInv, history
<1>4. ~(CallFails \/ HookAbort \/ FinalHandled \/ Final \/ Abort \/ HardAbortWrite)
    BY SMTT(20) DEF CallFails, HookAbort, FinalHandled, Final, Abort, HardAbortWrite, End, ControlInv
<1> QED BY <1>1, <1>2, <1>3, <1>4, NextSplit, SeenSetup, SeenOverflow

-----------------------------------------------------------------------------
(* Rollbacks.                                                              *)

LEMMA RestorePersisted ==
    ASSUME TypeOK, RestoreInv, NEW u \in Seq(Messages), Persist(u),
           UNCHANGED <<stopper, snap>>, outcome' # "aborted"
    PROVE  RestoreInv'
<1> SUFFICES ASSUME ~compacted'
             PROVE  RestoreInv'
    BY DEF RestoreInv
<1>1. /\ log \in Seq(Messages) /\ log' = log \o u /\ restore' = restore /\ compacted' = compacted
    BY DEF TypeOK, Persist
<1> DEFINE n == Len(OldLog)
<1>2. restore = OldLog /\ Len(log) >= n /\ SubSeq(log, 1, n) = OldLog /\ n \in Nat
      /\ (stopper = "write" => snap = OldLog)
    BY <1>1, OldLogType DEF RestoreInv
<1> HIDE DEF n
<1>3. Len(log') >= n /\ SubSeq(log', 1, n) = SubSeq(log, 1, n)
    BY <1>1, <1>2
<1> QED BY <1>1, <1>2, <1>3 DEF RestoreInv, n

LEMMA RestoreStep ==
    ASSUME TypeOK, ControlInv, RestoreInv, [Next]_vars
    PROVE  RestoreInv'
<1> USE DEF interrupt, pending, toolVars, llmVars
<1>1. CASE Quiet
  <2>1. UNCHANGED history /\ outcome' = outcome
      BY <1>1, QuietKeeps DEF Quiet, Begin, LoopHead, LoopExit, Call, Respond, LLMCanceled,
             LLMTransient, Retry, BackoffAborted, Direct, ToolAborted, ToolRun, ToolRan,
             HookHardAbort, Steer, InterruptGraceful, InterruptHard, HardAbort, HardAbortRead, vars
  <2>2. CASE HardAbortRead
    <3>1. stopper' = "write" => snap' = SubSeq(log, 1, Len(OldLog))
        BY <2>2 DEF HardAbortRead
    <3> QED BY <2>1, <3>1 DEF RestoreInv, history
  <2>3. CASE ~HardAbortRead
    <3>1. stopper' = "write" => stopper = "write" /\ snap' = snap
        BY <1>1, <2>3 DEF Quiet, Begin, LoopHead, LoopExit, Call, Respond, LLMCanceled,
               LLMTransient, Retry, BackoffAborted, Direct, ToolAborted, ToolRun, ToolRan,
               HookHardAbort, Steer, InterruptGraceful, InterruptHard, HardAbort, vars
    <3> QED BY <2>1, <3>1 DEF RestoreInv, history
  <2> QED BY <2>2, <2>3
<1>2. CASE Inject \/ Ask \/ ToolDenied \/ ToolResult \/ ToolPoll \/ ToolsDone \/ Final
  <2>1. UNCHANGED <<stopper, snap>> /\ outcome' # "aborted" /\ outcome # "aborted"
      BY <1>2 DEF Inject, Ask, ToolDenied, ToolResult, ToolPoll, ToolsDone, Final, End, ControlInv
  <2>2. UNCHANGED history \/ \E u \in Seq(Messages) : Persist(u)
      BY <1>2, InjectSays, AskSays, AnswerSays, PollSays, DoneSays DEF Say
  <2>3. CASE UNCHANGED history
      BY <2>1, <2>3 DEF RestoreInv, history
  <2> QED BY <2>1, <2>2, <2>3, RestorePersisted
<1>3. CASE Setup
  <2> SUFFICES ASSUME ~compacted'
               PROVE  RestoreInv'
      BY DEF RestoreInv
  <2>1. PICK own \in Seq(Messages), h \in Seq(Messages) :
            log' = h \o own /\ restore' = h /\ compacted' = (h # log) /\ snap' = snap
      BY <1>3, SetupBuilds
  <2>2. h = OldLog /\ ~compacted
      BY <1>3, <2>1 DEF Setup, ControlInv
  <2>3. stopper' = stopper /\ outcome' # "aborted" /\ (stopper = "write" => snap = OldLog)
      BY <1>3, <2>2 DEF Setup, ControlInv, RestoreInv
  <2> DEFINE n == Len(OldLog)
  <2>4. n \in Nat /\ OldLog \in Seq(Messages)
      BY OldLogType
  <2>5. Len(OldLog \o own) >= n /\ SubSeq(OldLog \o own, 1, n) = OldLog
      BY <2>4
  <2> QED BY <2>1, <2>2, <2>3, <2>5 DEF RestoreInv
<1>4. CASE LLMOverflow
  <2>1. compacted' = (compacted \/ Compress(log) # log)
      BY <1>4, OverflowBuilds
  <2>2. CASE ~compacted
    <3>1. log \in Seq(Messages) /\ Len(log) > 2
        BY <2>2, OldLogType DEF RestoreInv, TypeOK
    <3>2. Compress(log) # log
        BY <3>1, CompressCuts
    <3> QED BY <2>1, <3>2 DEF RestoreInv
  <2> QED BY <2>1, <2>2 DEF RestoreInv
<1>5. CASE CallFails \/ HookAbort \/ FinalHandled
  <2>1. /\ UNCHANGED <<log, restore, compacted, stopper, snap>>
        /\ outcome' = "aborted" => outcome = "aborted"
      BY <1>5 DEF CallFails, HookAbort, FinalHandled, End
  <2> QED BY <2>1 DEF RestoreInv
<1>6. CASE Abort
  <2>1. log' = restore /\ UNCHANGED <<restore, compacted, stopper, snap>>
      BY <1>6 DEF Abort
  <2>2. Len(OldLog) >= Len(OldLog) /\ SubSeq(OldLog, 1, Len(OldLog)) = OldLog
      BY OldLogType
  <2> QED BY <2>1, <2>2 DEF RestoreInv
<1>7. CASE HardAbortWrite
  <2>1. /\ log' = snap /\ UNCHANGED <<restore, compacted, outcome>> /\ stopper = "write"
        /\ stopper' = "done"
      BY <1>7 DEF HardAbortWrite
  <2>2. Len(OldLog) >= Len(OldLog) /\ SubSeq(OldLog, 1, Len(OldLog)) = OldLog
      BY OldLogType
  <2> QED BY <2>1, <2>2 DEF RestoreInv
<1> QED BY <1>1, <1>2, <1>3, <1>4, <1>5, <1>6, <1>7, NextSplit

-----------------------------------------------------------------------------
(* Steering messages.                                                      *)

LEMMA InAppended ==
    ASSUME NEW S, NEW q \in Seq(S), NEW u \in Seq(S), NEW m
    PROVE  In(m, q \o u) <=> In(m, q) \/ In(m, u)
<1> DEFINE g == q \o u
<1>1. /\ DOMAIN q = 1 .. Len(q) /\ DOMAIN u = 1 .. Len(u) /\ DOMAIN g = 1 .. Len(q) + Len(u)
      /\ Len(q) \in Nat /\ Len(u) \in Nat
      /\ \A i \in 1 .. Len(q) : g[i] = q[i]
      /\ \A i \in 1 .. Len(u) : g[Len(q) + i] = u[i]
    BY AppendedTo
<1> HIDE DEF g
<1>2. ASSUME NEW i \in DOMAIN q, q[i] = m
      PROVE  i \in DOMAIN g /\ g[i] = m
    BY <1>1, <1>2
<1>3. ASSUME NEW i \in DOMAIN u, u[i] = m
      PROVE  Len(q) + i \in DOMAIN g /\ g[Len(q) + i] = m
    BY <1>1, <1>3
<1>4. ASSUME NEW i \in DOMAIN g, g[i] = m
      PROVE  In(m, q) \/ In(m, u)
  <2>1. CASE i <= Len(q)
      BY <1>1, <1>4, <2>1 DEF In
  <2>2. CASE i > Len(q)
    <3> DEFINE j == i - Len(q)
    <3>1. j \in 1 .. Len(u) /\ Len(q) + j = i
        BY <1>1, <2>2
    <3> HIDE DEF j
    <3>2. u[j] = m /\ j \in DOMAIN u
        BY <1>1, <1>4, <3>1
    <3> QED BY <3>2 DEF In
  <2> QED BY <1>1, <2>1, <2>2
<1>5. In(m, g) <=> In(m, q) \/ In(m, u)
    BY <1>2, <1>3, <1>4 DEF In
<1> QED BY <1>5 DEF g

\* A poll loses nothing.
LEMMA PollKeeps ==
    ASSUME NEW S, NEW q \in Seq(S), NEW m, In(m, q)
    PROVE  In(m, Taken(q)) \/ In(m, Remaining(q))
<1>1. PICK i \in 1 .. Len(q) : q[i] = m
    BY DEF In
<1>2. CASE q = <<>> \/ SteeringMode = "all"
    BY <1>2 DEF Taken
<1>3. CASE ~(q = <<>> \/ SteeringMode = "all")
  <2>1. Taken(q) = <<Head(q)>> /\ Remaining(q) = Tail(q) /\ q # <<>>
      BY <1>3 DEF Taken, Remaining
  <2>2. CASE i = 1
    <3>1. 1 \in DOMAIN <<Head(q)>> /\ <<Head(q)>>[1] = m
        BY <1>1, <2>1, <2>2
    <3> QED BY <2>1, <3>1 DEF In
  <2>3. CASE i # 1
    <3>1. i - 1 \in DOMAIN Tail(q) /\ Tail(q)[i - 1] = m
        BY <1>1, <2>1, <2>3
    <3> QED BY <2>1, <3>1 DEF In
  <2> QED BY <2>2, <2>3
<1> QED BY <1>2, <1>3

LEMMA PollOfNone == Taken(<<>>) = <<>> /\ Remaining(<<>>) = <<>>
BY DEF Taken, Remaining

LEMMA NothingIn == \A m : ~In(m, <<>>)
BY DEF In

LEMMA PersistKeeps ==
    ASSUME TypeOK, NEW u \in Seq(Messages), Persist(u), NEW m, In(m, persisted)
    PROVE  In(m, persisted')
BY InAppended DEF TypeOK, Persist

LEMMA PendingStep ==
    ASSUME TypeOK, ControlInv, PendingInv, [Next]_vars
    PROVE  PendingInv'
<1>1. /\ <<>> \o <<>> = <<>> /\ Taken(<<>>) = <<>> /\ Remaining(<<>>) = <<>>
      /\ iteration \in Nat /\ call \in Nat /\ nCalls \in Nat /\ nCalls + 1 > nCalls
    BY PollOfNone, MissingType
<1> USE DEF pending, history, toolVars, llmVars, interrupt
<1>2. CASE Begin
    BY <1>1, <1>2 DEF Begin, ControlInv, PendingInv
<1>3. CASE Setup
    BY <1>1, <1>3 DEF Setup, ControlInv, PendingInv
<1>4. CASE LoopHead
    BY <1>1, <1>4 DEF LoopHead, ControlInv, PendingInv
<1>5. CASE LoopExit
    BY <1>1, <1>5 DEF LoopExit, ControlInv, PendingInv, More
<1>6. CASE Inject
    BY <1>1, <1>6 DEF Inject, ControlInv, PendingInv
<1>7. CASE Call
    BY <1>1, <1>7 DEF Call, ControlInv, PendingInv
<1>8. CASE Respond
    BY <1>1, <1>8 DEF Respond, ControlInv, PendingInv
<1>9. CASE CallFails
    BY <1>1, <1>9 DEF CallFails, ControlInv, PendingInv, End
<1>10. CASE LLMCanceled
    BY <1>1, <1>10 DEF LLMCanceled, ControlInv, PendingInv
<1>11. CASE LLMTransient
    BY <1>1, <1>11 DEF LLMTransient, ControlInv, PendingInv
<1>12. CASE Retry
    BY <1>1, <1>12 DEF Retry, ControlInv, PendingInv
<1>13. CASE BackoffAborted
    BY <1>1, <1>13 DEF BackoffAborted, ControlInv, PendingInv
<1>14. CASE LLMOverflow
    BY <1>1, <1>14 DEF LLMOverflow, ControlInv, PendingInv, End
<1>15. CASE Direct
    BY <1>1, <1>15 DEF Direct, ControlInv, PendingInv
<1>16. CASE Ask
    BY <1>1, <1>16 DEF Ask, ControlInv, PendingInv
<1>17. CASE ToolAborted
    BY <1>1, <1>17 DEF ToolAborted, ControlInv, PendingInv
<1>18. CASE ToolDenied
    BY <1>1, <1>18 DEF ToolDenied, ControlInv, PendingInv
<1>19. CASE ToolRun
    BY <1>1, <1>19 DEF ToolRun, ControlInv, PendingInv
<1>20. CASE ToolRan
    BY <1>1, <1>20 DEF ToolRan, ControlInv, PendingInv
<1>21. CASE ToolResult
    BY <1>1, <1>21 DEF ToolResult, ControlInv, PendingInv
<1>22. CASE ToolPoll
    BY <1>1, <1>22 DEF ToolPoll, ControlInv, PendingInv
<1>23. CASE ToolsDone
    BY <1>1, <1>23 DEF ToolsDone, ControlInv, PendingInv
<1>24. CASE HookAbort
    BY <1>1, <1>24 DEF HookAbort, ControlInv, PendingInv, End
<1>25. CASE HookHardAbort
    BY <1>1, <1>25 DEF HookHardAbort, ControlInv, PendingInv
<1>26. CASE FinalHandled
    BY <1>1, <1>26 DEF FinalHandled, ControlInv, PendingInv, End
<1>27. CASE Final
    BY <1>1, <1>27 DEF Final, ControlInv, PendingInv, End
<1>28. CASE Abort
    BY <1>1, <1>28 DEF Abort, ControlInv, PendingInv, End
<1>29. CASE Steer
    BY <1>1, <1>29 DEF Steer, ControlInv, PendingInv
<1>30. CASE InterruptGraceful
    BY <1>1, <1>30 DEF InterruptGraceful, ControlInv, PendingInv
<1>31. CASE InterruptHard
    BY <1>1, <1>31 DEF InterruptHard, ControlInv, PendingInv
<1>32. CASE HardAbort
    BY <1>1, <1>32 DEF HardAbort, ControlInv, PendingInv
<1>33. CASE HardAbortRead
    BY <1>1, <1>33 DEF HardAbortRead, ControlInv, PendingInv
<1>34. CASE HardAbortWrite
    BY <1>1, <1>34 DEF HardAbortWrite, ControlInv, PendingInv
<1>35. CASE UNCHANGED vars
    BY <1>35 DEF vars, PendingInv
<1> QED BY <1>2, <1>3, <1>4, <1>5, <1>6, <1>7, <1>8, <1>9, <1>10, <1>11, <1>12, <1>13, <1>14, <1>15, <1>16, <1>17, <1>18, <1>19, <1>20, <1>21, <1>22, <1>23, <1>24, <1>25, <1>26, <1>27, <1>28, <1>29, <1>30, <1>31, <1>32, <1>33, <1>34, <1>35 DEF Next, TurnStep, Done

LEMMA PersistedGrows ==
    ASSUME TypeOK, ControlInv,
           Setup \/ LLMOverflow \/ Ask \/ ToolDenied \/ ToolResult \/ ToolPoll \/ ToolsDone \/ Final
    PROVE  \A m : In(m, persisted) => In(m, persisted')
<1>1. CASE Setup
  <2>1. persisted = <<>>
      BY <1>1 DEF Setup, ControlInv
  <2> QED BY <2>1, NothingIn
<1>2. CASE LLMOverflow
    BY <1>2, OverflowBuilds
<1>3. CASE Ask \/ ToolDenied \/ ToolResult \/ ToolPoll \/ ToolsDone \/ Final
  <2>1. persisted' = persisted \/ \E u \in Seq(Messages) : Persist(u)
      BY <1>3, AskSays, AnswerSays, PollSays, DoneSays DEF Say, history
  <2> QED BY <2>1, PersistKeeps
<1> QED BY <1>1, <1>2, <1>3

LEMMA PlacedKept ==
    ASSUME AllPlaced, UNCHANGED <<exec, queue, nSteer>>,
           \A m : In(m, persisted) => In(m, persisted'),
           pc = "inject" => pc' = "inject" /\ local' = local
    PROVE  AllPlaced'
<1> SUFFICES ASSUME NEW m \in 1 .. nSteer
             PROVE  Placed(m)'
    BY DEF AllPlaced
<1>1. Placed(m)
    BY DEF AllPlaced
<1> QED BY <1>1 DEF Placed

LEMMA PlacedStep ==
    ASSUME TypeOK, ControlInv, SteerInv, [Next]_vars, pc' \notin {"abort", "done"}
    PROVE  AllPlaced'
<1> USE DEF pending, history, toolVars, llmVars, interrupt
<1>0. /\ queue \in Seq(Steerings) /\ exec \in Seq(Steerings) /\ local \in Seq(Steerings)
      /\ Taken(queue) \in Seq(Steerings) /\ nSteer \in 0 .. MaxSteer
    BY PollType DEF TypeOK
<1>1. pc \notin {"abort", "done"} => AllPlaced /\ PendingInv
    BY DEF SteerInv
<1>2. CASE \/ Begin \/ LoopExit \/ Call \/ Respond \/ LLMCanceled \/ LLMTransient \/ Retry
           \/ BackoffAborted \/ ToolAborted \/ ToolRun \/ ToolRan \/ HookHardAbort
  <2>1. /\ pc \notin {"abort", "done", "inject"} /\ UNCHANGED <<exec, queue, nSteer, persisted>>
      BY <1>2 DEF Begin, LoopExit, Call, Respond, LLMCanceled, LLMTransient, Retry, BackoffAborted,
             ToolAborted, ToolRun, ToolRan, HookHardAbort
  <2> QED BY <1>1, <2>1, PlacedKept
<1>3. CASE Setup \/ LLMOverflow \/ Ask \/ ToolDenied \/ ToolResult
  <2>1. pc \notin {"abort", "done", "inject"} /\ UNCHANGED <<exec, queue, nSteer>>
      BY <1>3 DEF Setup, LLMOverflow, Ask, ToolDenied, ToolResult
  <2> QED BY <1>1, <1>3, <2>1, PlacedKept, PersistedGrows
<1>4. CASE \/ InterruptGraceful \/ InterruptHard \/ HardAbort \/ HardAbortRead \/ HardAbortWrite
           \/ UNCHANGED vars
  <2>1. UNCHANGED <<pc, exec, local, queue, nSteer, persisted>>
      BY <1>4 DEF InterruptGraceful, InterruptHard, HardAbort, HardAbortRead, HardAbortWrite, vars
  <2> QED BY <1>1, <2>1, PlacedKept
<1>5. CASE Steer
  <2>1. /\ pc \notin {"abort", "done"} /\ UNCHANGED <<pc, exec, local, persisted>>
        /\ nSteer' = nSteer + 1 /\ queue' = Append(queue, nSteer')
      BY <1>5 DEF Steer
  <2>2. ASSUME NEW m \in 1 .. nSteer'
        PROVE  Placed(m)'
    <3>1. nSteer \in Nat
        BY <1>0, LimitsAssumption
    <3>2. CASE m = nSteer'
      <4>1. Len(queue) + 1 \in DOMAIN queue' /\ queue'[Len(queue) + 1] = nSteer'
          BY <1>0, <2>1
      <4> QED BY <3>2, <4>1 DEF Placed, In
    <3>3. CASE m # nSteer'
      <4>1. m \in 1 .. nSteer
          BY <2>1, <3>1, <3>3
      <4>2. Placed(m)
          BY <1>1, <2>1, <4>1 DEF AllPlaced
      <4>3. In(m, queue) => In(m, queue')
          BY <1>0, <2>1 DEF In
      <4> QED BY <2>1, <4>2, <4>3 DEF Placed
    <3> QED BY <3>2, <3>3
  <2> QED BY <2>2 DEF AllPlaced
<1>6. CASE LoopHead
  <2>1. /\ pc = "loop" /\ pc' = "inject" /\ nSteer' = nSteer /\ persisted' = persisted
        /\ \/ local' = local \o exec /\ queue' = queue
           \/ exec' = exec /\ local' = local \o Taken(queue) /\ queue' = Remaining(queue)
           \/ exec' = exec /\ queue' = queue
      BY <1>6 DEF LoopHead
  <2>2. ASSUME NEW m \in 1 .. nSteer
        PROVE  Placed(m)'
    <3>1. In(m, queue) \/ In(m, exec) \/ In(User(m), persisted)
        BY <1>1, <2>1 DEF AllPlaced, Placed
    <3>2. CASE local' = local \o exec /\ queue' = queue
      <4>1. In(m, exec) => In(m, local')
          BY <1>0, <3>2, InAppended
      <4> QED BY <2>1, <3>1, <3>2, <4>1 DEF Placed
    <3>3. CASE exec' = exec /\ local' = local \o Taken(queue) /\ queue' = Remaining(queue)
      <4>1. In(m, queue) => In(m, local') \/ In(m, queue')
          BY <1>0, <3>3, InAppended, PollKeeps
      <4> QED BY <2>1, <3>1, <3>3, <4>1 DEF Placed
    <3>4. CASE exec' = exec /\ queue' = queue
        BY <2>1, <3>1, <3>4 DEF Placed
    <3> QED BY <2>1, <3>2, <3>3, <3>4
  <2> QED BY <2>1, <2>2 DEF AllPlaced
<1>7. CASE Inject
  <2>1. PICK u \in Seq(Messages) :
            /\ Say(u) /\ DOMAIN u = DOMAIN local /\ \A i \in DOMAIN local : u[i] = User(local[i])
      BY <1>7, InjectSays
  <2>2. persisted \in Seq(Messages) /\ persisted' = persisted \o u
      BY <2>1 DEF Say, Persist, TypeOK
  <2>3. /\ pc = "inject" /\ UNCHANGED <<queue, nSteer>>
        /\ exec' = IF local = <<>> THEN exec ELSE <<>>
      BY <1>7 DEF Inject
  <2>4. ASSUME NEW m \in 1 .. nSteer
        PROVE  Placed(m)'
    <3>1. In(m, queue) \/ In(m, exec) \/ In(m, local) \/ In(User(m), persisted)
        BY <1>1, <2>3 DEF AllPlaced, Placed
    <3>2. In(m, exec) => In(m, local)
        BY <1>1, <2>3, NothingIn DEF PendingInv
    <3>3. In(m, local) => In(User(m), persisted')
      <4>1. In(m, local) => In(User(m), u)
          BY <2>1 DEF In
      <4> QED BY <2>2, <4>1, InAppended
    <3>4. In(User(m), persisted) => In(User(m), persisted')
        BY <2>2, InAppended
    <3> QED BY <2>3, <3>1, <3>2, <3>3, <3>4 DEF Placed
  <2> QED BY <2>3, <2>4 DEF AllPlaced
<1>8. CASE Direct \/ ToolPoll \/ ToolsDone
  <2>1. /\ pc \in {"answered", "poll", "tool"} /\ nSteer' = nSteer
        /\ \/ exec' = exec \o Taken(queue) /\ queue' = Remaining(queue)
           \/ exec' = exec \o <<>> /\ queue' = queue
      BY <1>8 DEF Direct, ToolPoll, ToolsDone
  <2>2. \A m : In(m, persisted) => In(m, persisted')
    <3>1. CASE Direct
        BY <3>1 DEF Direct
    <3> QED BY <1>8, <3>1, PersistedGrows
  <2>3. ASSUME NEW m \in 1 .. nSteer
        PROVE  Placed(m)'
    <3>1. In(m, queue) \/ In(m, exec) \/ In(User(m), persisted)
        BY <1>1, <2>1 DEF AllPlaced, Placed
    <3>2. CASE exec' = exec \o Taken(queue) /\ queue' = Remaining(queue)
      <4>1. In(m, queue) => In(m, exec') \/ In(m, queue')
          BY <1>0, <3>2, InAppended, PollKeeps
      <4>2. In(m, exec) => In(m, exec')
          BY <1>0, <3>2, InAppended
      <4> QED BY <2>2, <3>1, <4>1, <4>2 DEF Placed
    <3>3. CASE exec' = exec \o <<>> /\ queue' = queue
      <4>1. exec' = exec
          BY <1>0, <3>3
      <4> QED BY <2>2, <3>1, <3>3, <4>1 DEF Placed
    <3> QED BY <2>1, <3>2, <3>3
  <2> QED BY <2>1, <2>3 DEF AllPlaced
<1>9. ~(CallFails \/ HookAbort \/ FinalHandled \/ Final \/ Abort)
    BY DEF CallFails, HookAbort, FinalHandled, Final, Abort, End
<1> QED BY <1>2, <1>3, <1>4, <1>5, <1>6, <1>7, <1>8, <1>9, NextSplit DEF Quiet

\* The turn ends where nothing is pending.
LEMMA LandedStep ==
    ASSUME TypeOK, ControlInv, SteerInv, [Next]_vars, outcome' \in {"completed", "error"}
    PROVE  \A m \in 1 .. nSteer' : In(m, queue') \/ In(User(m), persisted')
<1> USE DEF pending, history, toolVars, llmVars, interrupt
<1>1. CASE outcome # "none"
  <2>1. pc = "done"
      BY <1>1 DEF ControlInv
  <2>2. HardAbortRead \/ HardAbortWrite \/ UNCHANGED vars
    <3>1. ~(Steer \/ InterruptGraceful \/ InterruptHard \/ HardAbort)
        BY <2>1 DEF Steer, InterruptGraceful, InterruptHard, HardAbort, Running
    <3>2. ~TurnStep
      <4>1. ~(Begin \/ Setup \/ LoopHead \/ LoopExit \/ Inject \/ Call \/ Respond \/ CallFails)
          BY <2>1 DEF Begin, Setup, LoopHead, LoopExit, Inject, Call, Respond, CallFails
      <4>2. ~(LLMCanceled \/ LLMTransient \/ Retry \/ BackoffAborted \/ LLMOverflow \/ Direct \/ Ask)
          BY <2>1 DEF LLMCanceled, LLMTransient, Retry, BackoffAborted, LLMOverflow, Direct, Ask
      <4>3. ~(ToolAborted \/ ToolDenied \/ ToolRun \/ ToolRan \/ ToolResult \/ ToolPoll)
          BY <2>1 DEF ToolAborted, ToolDenied, ToolRun, ToolRan, ToolResult, ToolPoll
      <4>4. ~(ToolsDone \/ HookAbort \/ HookHardAbort \/ FinalHandled \/ Final \/ Abort)
          BY <2>1 DEF ToolsDone, HookAbort, HookHardAbort, FinalHandled, Final, Abort
      <4> QED BY <4>1, <4>2, <4>3, <4>4 DEF TurnStep
    <3> QED BY <3>1, <3>2 DEF Next, Done
  <2>3. UNCHANGED <<queue, nSteer, persisted, outcome>>
      BY <2>2 DEF HardAbortRead, HardAbortWrite, vars
  <2> QED BY <2>3 DEF SteerInv
<1>2. CASE outcome = "none"
  <2>1. CallFails \/ HookAbort \/ FinalHandled \/ Final \/ LLMOverflow
    <3>1. Quiet \/ Inject \/ Ask \/ ToolDenied \/ ToolResult \/ ToolPoll => outcome' = outcome
      <4>1. Quiet => outcome' = outcome
          BY DEF Quiet, Begin, LoopHead, LoopExit, Call, Respond, LLMCanceled, LLMTransient, Retry,
                 BackoffAborted, Direct, ToolAborted, ToolRun, ToolRan, HookHardAbort, Steer,
                 InterruptGraceful, InterruptHard, HardAbort, HardAbortRead, vars
      <4>2. Inject \/ Ask \/ ToolDenied \/ ToolResult \/ ToolPoll => outcome' = outcome
          BY DEF Inject, Ask, ToolDenied, ToolResult, ToolPoll
      <4> QED BY <4>1, <4>2
    <3>2. Setup \/ ToolsDone \/ HardAbortWrite => outcome' = outcome
        BY DEF Setup, ToolsDone, HardAbortWrite
    <3>3. Abort => outcome' = "aborted"
        BY DEF Abort, End
    <3> QED BY <1>2, <3>1, <3>2, <3>3, NextSplit
  <2>2. pc \in {"call", "llm", "backoff", "answered", "executed", "finalHandled", "final"}
        \/ (pc = "tool" /\ call <= nCalls)
    <3>1. CASE CallFails \/ LLMOverflow \/ Final \/ FinalHandled
        BY <3>1 DEF CallFails, LLMOverflow, Final, FinalHandled
    <3>2. CASE HookAbort
        BY <3>2 DEF HookAbort
    <3> QED BY <2>1, <3>1, <3>2
  <2>3. exec = <<>> /\ AllPlaced /\ pc # "inject"
    <3>1. call <= nCalls => ~(call > nCalls)
        BY MissingType
    <3> QED BY <2>2, <3>1 DEF SteerInv, PendingInv
  <2>4. \A m \in 1 .. nSteer : In(m, queue) \/ In(User(m), persisted)
      BY <2>3, NothingIn DEF AllPlaced, Placed
  <2>5. UNCHANGED <<queue, nSteer>>
      BY <2>1 DEF CallFails, HookAbort, FinalHandled, Final, LLMOverflow
  <2>6. \A m : In(m, persisted) => In(m, persisted')
    <3>1. CASE CallFails \/ HookAbort \/ FinalHandled
        BY <3>1 DEF CallFails, HookAbort, FinalHandled
    <3> QED BY <2>1, <3>1, PersistedGrows
  <2> QED BY <2>4, <2>5, <2>6
<1> QED BY <1>1, <1>2

LEMMA SteerStep ==
    ASSUME TypeOK, ControlInv, SteerInv, [Next]_vars
    PROVE  SteerInv'
<1>1. PendingInv'
    BY PendingStep DEF SteerInv
<1> QED BY <1>1, PlacedStep, LandedStep DEF SteerInv

-----------------------------------------------------------------------------
(* The theorems.                                                           *)

LEMMA InitInv == Init => Inv
<1> SUFFICES ASSUME Init PROVE Inv
    OBVIOUS
<1>1. TypeOK
    BY TypeInit
<1>2. ControlInv
    BY DEF Init, ControlInv
<1>3. PairInv
  <2>1. Missing = 0
      BY DEF Init, Missing, Asked, Answered
  <2>2. Closed(OldLog) /\ OldLog \in Seq(Messages) /\ Boundaries(OldLog) # {}
    <3>1. OldLog \in Seq(Messages) /\ Boundaries(OldLog) # {}
        BY OldLogType
    <3>2. \A j \in DOMAIN OldLog : OldLog[j][1] \in {"user", "assistant"}
        BY DEF OldLog, User, Reply
    <3> QED BY <3>1, <3>2, PlainIsClosed
  <2>3. log = OldLog /\ persisted = <<>> /\ msgs = <<>>
      BY DEF Init
  <2> QED BY <2>1, <2>2, <2>3, ClosedNone, OpenNone DEF PairInv
<1>4. SeenInv
  <2>1. msgs = <<>> /\ persisted = <<>> /\ log = OldLog /\ Len(<<>>) = 0 /\ Len(OldLog) \in Nat
      BY OldLogType DEF Init
  <2>2. Common(msgs, log, Len(msgs))
      BY <2>1 DEF Common
  <2>3. \A k \in Nat : Common(log, persisted, k) => k <= Len(msgs)
      BY <2>1 DEF Common
  <2> QED BY <2>2, <2>3 DEF SeenInv
<1>5. SteerInv
  <2>1. pc = "start" /\ local = exec /\ nSteer = Len(exec) /\ outcome = "none"
      BY DEF Init
  <2>2. PICK k \in 0 .. MaxSteer : exec = [i \in 1 .. k |-> i]
      BY DEF Init, InitialSteering
  <2>3. \A m \in 1 .. nSteer : m \in DOMAIN exec /\ exec[m] = m
      BY <2>1, <2>2, LimitsAssumption
  <2>4. AllPlaced
      BY <2>3 DEF AllPlaced, Placed, In
  <2>5. PendingInv
      BY <2>1 DEF PendingInv
  <2> QED BY <2>1, <2>4, <2>5 DEF SteerInv
<1>6. RestoreInv
  <2>1. Len(OldLog) >= Len(OldLog) /\ SubSeq(OldLog, 1, Len(OldLog)) = OldLog
      BY OldLogType
  <2>2. log = OldLog /\ restore = OldLog /\ stopper = "idle" /\ outcome = "none"
      BY DEF Init
  <2> QED BY <2>1, <2>2 DEF RestoreInv
<1> QED BY <1>1, <1>2, <1>3, <1>4, <1>5, <1>6 DEF Inv

LEMMA Induction == Inv /\ [Next]_vars => Inv'
<1> SUFFICES ASSUME Inv, [Next]_vars PROVE Inv'
    OBVIOUS
<1>1. TypeOK /\ ControlInv /\ PairInv /\ SeenInv /\ SteerInv /\ RestoreInv
    BY DEF Inv
<1> QED BY <1>1, TypeStep, ControlStep, PairStep, SeenStep, SteerStep, RestoreStep DEF Inv

LEMMA Invariance == Spec => []Inv
BY InitInv, Induction, PTL DEF Spec

\* The variables of a turn keep their types: a call is not retried more often than
\* max_llm_retries, and ExecuteTools is never past its last call.
THEOREM TypeCorrect == Spec => []TypeOK
<1>1. Inv => TypeOK
    BY DEF Inv
<1> QED BY Invariance, <1>1, PTL

\* Whatever is denied, skipped, steered or compacted, the model is never sent a call
\* without its answers nor an answer without its call, and no completed turn leaves one
\* in the session - for any number of calls, iterations and compactions.
THEOREM CallsPaired == Spec => []CallsArePaired
<1>1. Inv => CallsArePaired
  <2> SUFFICES ASSUME Inv, pc = "llm" \/ outcome = "completed", ~hardAbort
               PROVE  WellPaired(msgs) /\ WellPaired(log)
      BY DEF CallsArePaired
  <2>1. Missing = 0 /\ (pc # "done" \/ outcome = "completed")
      BY DEF Inv, ControlInv, Missing, Asked, Answered
  <2>2. msgs \in Seq(Messages) /\ log \in Seq(Messages)
      BY DEF Inv, TypeOK
  <2>3. Closed(msgs) /\ Closed(log)
      BY <2>1, <2>2, OpenNone DEF Inv, PairInv
  <2> QED BY <2>2, <2>3, ClosedIsPaired
<1> QED BY Invariance, <1>1, PTL

\* A steering message taken from the queue is appended to the session before the turn
\* ends with an answer or an error, in either mode and however many there are.
THEOREM SteeringIsKept == Spec => []SteeringKept
<1>1. Inv => SteeringKept
    BY DEF Inv, SteerInv, SteeringKept, In
<1> QED BY Invariance, <1>1, PTL

\* What the model is sent is the end of the session, with all of the turn that the last
\* compaction has left there, whatever the rebuilds have trimmed.
THEOREM ModelSees == Spec => []ModelSeesTurn
<1>1. Inv => ModelSeesTurn
  <2> SUFFICES ASSUME Inv, pc = "llm", ~hardAbort
               PROVE  IsSuffix(msgs, log) /\ Len(msgs) >= MatchingTail(log, persisted)
      BY DEF ModelSeesTurn
  <2>1. msgs \in Seq(Messages) /\ log \in Seq(Messages) /\ persisted \in Seq(Messages)
      BY DEF Inv, TypeOK
  <2>2. /\ Common(msgs, log, Len(msgs))
        /\ \A k \in Nat : Common(log, persisted, k) => k <= Len(msgs)
      BY DEF Inv, SeenInv
  <2>3. IsSuffix(msgs, log)
      BY <2>1, <2>2, SuffixIsCommon
  <2> DEFINE k == MatchingTail(log, persisted)
  <2>4. k \in Nat /\ Common(log, persisted, k)
      BY <2>1, MatchingTailIsLongest
  <2> HIDE DEF k
  <2>5. k <= Len(msgs)
      BY <2>2, <2>4
  <2> QED BY <2>1, <2>3, <2>4, <2>5 DEF k
<1> QED BY Invariance, <1>1, PTL

\* abortTurn and the rollback of HardAbort, in whatever order they write, leave the session
\* that the turn found, unless it was compacted meanwhile.
THEOREM AbortRestoresLog == Spec => []AbortRestores
<1>1. Inv => AbortRestores
    BY DEF Inv, RestoreInv, AbortRestores
<1> QED BY Invariance, <1>1, PTL
=============================================================================
