---------------------------- MODULE FallbackProofs ----------------------------
(***************************************************************************)
(* Proofs about Fallback, for any candidates, limits and executions.  The  *)
(* inductive invariant adds to the properties: an execution that runs has  *)
(* a candidate (ExecInv), how long the backoffs are by the failures        *)
(* counted (BackoffInv), and how many tokens a bucket can still hold,      *)
(* given each earlier grant (BucketInv).                                   *)
(***************************************************************************)
EXTENDS Fallback, TLAPS

ExecInv ==
    \A e \in Execs : pc[e] \notin {"idle", "done"} => todo[e] # <<>>

\* Both backoffs count from the last failure at most; without counted failures of
\* its kind what is left of a backoff is over by the last failure.
BackoffInv ==
    \A k \in Keys :
        /\ entry[k].last <= now
        /\ IF entry[k].errors = 0
             THEN entry[k].cooldown <= entry[k].last
             ELSE entry[k].cooldown <= entry[k].last + StandardCooldown(entry[k].errors)
        /\ IF entry[k].billing = 0
             THEN entry[k].disabled <= entry[k].last
             ELSE entry[k].disabled <= entry[k].last + BillingCooldown(entry[k].billing)

\* Since a grant, a bucket has lost a token for it and one for each later grant, and has
\* gained what the time since then refills.
BucketInv ==
    \A k \in Keys : \A i \in DOMAIN grants[k] :
        /\ grants[k][i] <= tick[k]
        /\ tokens[k] + (Len(grants[k]) - i + 1) * Minute
               <= RPM[k] * (Minute + tick[k] - grants[k][i])

Inv == TypeOK /\ ExecInv /\ BackoffInv /\ BucketInv /\ RateIsBounded

-----------------------------------------------------------------------------
(* The lengths of the backoffs.                                            *)

LEMMA ConstantTypes ==
    /\ Minute \in Nat \ {0} /\ Hour \in Nat /\ Hour = 60 * Minute
    /\ \A k \in Keys : RPM[k] \in Nat
BY FallbackAssumption DEF Hour

LEMMA MinOfTwo ==
    ASSUME NEW a \in Int, NEW b \in Int
    PROVE  Min({a, b}) = IF a <= b THEN a ELSE b
BY DEF Min

LEMMA StandardCooldowns ==
    /\ StandardCooldown(1) = Minute /\ StandardCooldown(2) = 5 * Minute
    /\ StandardCooldown(3) = 25 * Minute
    /\ \A n \in Nat : n >= 4 => StandardCooldown(n) = Hour
<1>1. /\ Min({1 - 1, 3}) = 0 /\ Min({2 - 1, 3}) = 1 /\ Min({3 - 1, 3}) = 2
      /\ \A n \in Nat : n >= 4 => Min({n - 1, 3}) = 3
    BY MinOfTwo
<1>2. /\ Min({Hour, Minute * 5 ^ 0}) = Minute /\ Min({Hour, Minute * 5 ^ 1}) = 5 * Minute
      /\ Min({Hour, Minute * 5 ^ 2}) = 25 * Minute /\ Min({Hour, Minute * 5 ^ 3}) = Hour
  <2>1. /\ Minute * 5 ^ 0 = Minute /\ Minute * 5 ^ 1 = 5 * Minute
        /\ Minute * 5 ^ 2 = 25 * Minute /\ Minute * 5 ^ 3 = 125 * Minute
      BY ConstantTypes
  <2>2. /\ Min({Hour, Minute}) = Minute /\ Min({Hour, 5 * Minute}) = 5 * Minute
        /\ Min({Hour, 25 * Minute}) = 25 * Minute /\ Min({Hour, 125 * Minute}) = Hour
      BY ConstantTypes, MinOfTwo
  <2> QED BY ONLY <2>1, <2>2
<1>3. StandardCooldown(1) = Minute
    BY ONLY <1>1, <1>2 DEF StandardCooldown
<1>4. StandardCooldown(2) = 5 * Minute
    BY ONLY <1>1, <1>2 DEF StandardCooldown
<1>5. StandardCooldown(3) = 25 * Minute
    BY ONLY <1>1, <1>2 DEF StandardCooldown
<1>6. ASSUME NEW n \in Nat, n >= 4
      PROVE  StandardCooldown(n) = Hour
    BY ONLY <1>1, <1>2, <1>6 DEF StandardCooldown
<1> QED BY <1>3, <1>4, <1>5, <1>6

LEMMA BillingCooldowns ==
    /\ BillingCooldown(1) = 5 * Hour /\ BillingCooldown(2) = 10 * Hour
    /\ BillingCooldown(3) = 20 * Hour
    /\ \A n \in Nat : n >= 4 => BillingCooldown(n) = 24 * Hour
<1>1. /\ Min({1 - 1, 10}) = 0 /\ Min({2 - 1, 10}) = 1 /\ Min({3 - 1, 10}) = 2
      /\ \A n \in Nat : n >= 4 => Min({n - 1, 10}) \in 3 .. 10
    BY MinOfTwo
<1>2. /\ Min({24 * Hour, 5 * Hour * 2 ^ 0}) = 5 * Hour
      /\ Min({24 * Hour, 5 * Hour * 2 ^ 1}) = 10 * Hour
      /\ Min({24 * Hour, 5 * Hour * 2 ^ 2}) = 20 * Hour
  <2>1. /\ 5 * Hour * 2 ^ 0 = 5 * Hour /\ 5 * Hour * 2 ^ 1 = 10 * Hour
        /\ 5 * Hour * 2 ^ 2 = 20 * Hour
      BY ConstantTypes
  <2>2. /\ Min({24 * Hour, 5 * Hour}) = 5 * Hour /\ Min({24 * Hour, 10 * Hour}) = 10 * Hour
        /\ Min({24 * Hour, 20 * Hour}) = 20 * Hour
      BY ConstantTypes, MinOfTwo
  <2> QED BY ONLY <2>1, <2>2
<1>3. ASSUME NEW m \in 3 .. 10
      PROVE  Min({24 * Hour, 5 * Hour * 2 ^ m}) = 24 * Hour
  <2>1. \A c \in {8, 16, 32, 64, 128, 256, 512, 1024} :
            Min({24 * Hour, 5 * Hour * c}) = 24 * Hour
    <3> TAKE c \in {8, 16, 32, 64, 128, 256, 512, 1024}
    <3>1. 5 * Hour * c \in Int /\ 24 * Hour \in Int /\ 24 * Hour <= 5 * Hour * c
        BY ConstantTypes
    <3> QED BY ONLY <3>1, MinOfTwo
  <2>2. /\ 2 ^ 3 = 8 /\ 2 ^ 4 = 16 /\ 2 ^ 5 = 32 /\ 2 ^ 6 = 64
        /\ 2 ^ 7 = 128 /\ 2 ^ 8 = 256 /\ 2 ^ 9 = 512 /\ 2 ^ 10 = 1024
    OBVIOUS
  <2>3. \/ m = 3 \/ m = 4 \/ m = 5 \/ m = 6 \/ m = 7 \/ m = 8 \/ m = 9 \/ m = 10
    OBVIOUS
  <2>4. 2 ^ m \in {8, 16, 32, 64, 128, 256, 512, 1024}
    <3>1. CASE m = 3
        BY <3>1, <2>2
    <3>2. CASE m = 4
        BY <3>2, <2>2
    <3>3. CASE m = 5
        BY <3>3, <2>2
    <3>4. CASE m = 6
        BY <3>4, <2>2
    <3>5. CASE m = 7
        BY <3>5, <2>2
    <3>6. CASE m = 8
        BY <3>6, <2>2
    <3>7. CASE m = 9
        BY <3>7, <2>2
    <3>8. CASE m = 10
        BY <3>8, <2>2
    <3> QED BY <3>1, <3>2, <3>3, <3>4, <3>5, <3>6, <3>7, <3>8, <2>3
  <2> QED BY ONLY <2>1, <2>4
<1>4. BillingCooldown(1) = 5 * Hour
    BY ONLY <1>1, <1>2 DEF BillingCooldown
<1>5. BillingCooldown(2) = 10 * Hour
    BY ONLY <1>1, <1>2 DEF BillingCooldown
<1>6. BillingCooldown(3) = 20 * Hour
    BY ONLY <1>1, <1>2 DEF BillingCooldown
<1>7. ASSUME NEW n \in Nat, n >= 4
      PROVE  BillingCooldown(n) = 24 * Hour
    BY ONLY <1>1, <1>3, <1>7 DEF BillingCooldown
<1> QED BY <1>4, <1>5, <1>6, <1>7

\* Backoffs only grow with the failures counted, up to an hour and a day.
LEMMA BackoffsGrow ==
    \A n \in Nat \ {0} :
        /\ StandardCooldown(n) \in Nat /\ StandardCooldown(n) <= Hour
        /\ StandardCooldown(n) <= StandardCooldown(n + 1)
        /\ BillingCooldown(n) \in Nat /\ BillingCooldown(n) <= 24 * Hour
        /\ BillingCooldown(n) <= BillingCooldown(n + 1)
<1> TAKE n \in Nat \ {0}
<1>1. CASE n = 1
    BY <1>1, StandardCooldowns, BillingCooldowns, ConstantTypes
<1>2. CASE n = 2
    BY <1>2, StandardCooldowns, BillingCooldowns, ConstantTypes
<1>3. CASE n = 3
    BY <1>3, StandardCooldowns, BillingCooldowns, ConstantTypes
<1>4. CASE n >= 4
    BY <1>4, StandardCooldowns, BillingCooldowns, ConstantTypes
<1> QED BY <1>1, <1>2, <1>3, <1>4

-----------------------------------------------------------------------------
(* The invariant falls into parts that no action but their own changes.     *)

ClockOK == now \in Nat \ {0} /\ jumps \in 0 .. MaxJumps /\ cancels \in 0 .. MaxCancels

EntriesOK ==
    /\ entry \in [Keys -> Entries]
    /\ \A k \in Keys :
          /\ entry[k].cooldown <= entry[k].last + Hour
          /\ entry[k].disabled <= entry[k].last + 24 * Hour
    /\ BackoffInv

BucketsOK ==
    /\ tokens \in [Keys -> Nat] /\ tick \in [Keys -> Nat] /\ grants \in [Keys -> Seq(Nat)]
    /\ \A k \in Keys : tokens[k] <= RPM[k] * Minute /\ tick[k] \in 1 .. now
    /\ BucketInv /\ RateIsBounded

ControlOK ==
    /\ pc \in [Execs -> {"idle", "check", "acquire", "wait", "running", "done"}]
    /\ todo \in [Execs -> Seq(Keys)]
    /\ image \in [Execs -> BOOLEAN] /\ canceled \in [Execs -> BOOLEAN]
    /\ wake \in [Execs -> Nat]
    /\ ExecInv

LEMMA Parts == Inv <=> ClockOK /\ EntriesOK /\ BucketsOK /\ ControlOK
BY DEF Inv, TypeOK, ClockOK, EntriesOK, BucketsOK, ControlOK

LEMMA PartsNext == Inv' <=> ClockOK' /\ EntriesOK' /\ BucketsOK' /\ ControlOK'
BY DEF Inv, TypeOK, ClockOK, EntriesOK, BucketsOK, ControlOK

-----------------------------------------------------------------------------
(* The buckets.                                                            *)

\* The algebra of the buckets: a rate is multiplied by differences of times.
LEMMA Distributes ==
    \A r, a, b, c \in Int : /\ r * (a + b - c) = r * a + r * b - r * c
                            /\ (b - c) * r = r * b - r * c
                            /\ (a + 1) * b = a * b + b
OBVIOUS

\* What a refill leaves: at most the burst, and at most what the time gained.
LEMMA RefillBounds ==
    ASSUME ClockOK, BucketsOK, NEW k \in Keys
    PROVE  /\ Refilled(k) \in Nat /\ Refilled(k) <= RPM[k] * Minute
           /\ Refilled(k) <= tokens[k] + RPM[k] * now - RPM[k] * tick[k]
<1>1. /\ RPM[k] \in Nat /\ Minute \in Nat /\ now \in Nat /\ tokens[k] \in Nat
      /\ tick[k] \in Nat /\ tick[k] <= now
    BY ConstantTypes DEF ClockOK, BucketsOK
<1>2. (now - tick[k]) * RPM[k] = RPM[k] * now - RPM[k] * tick[k]
    BY <1>1, Distributes
<1>3. (now - tick[k]) * RPM[k] \in Nat /\ RPM[k] * Minute \in Nat
  <2>1. \A x, y \in Nat : x * y \in Nat
      OBVIOUS
  <2>2. now - tick[k] \in Nat
      BY <1>1
  <2> QED BY <1>1, <2>1, <2>2
<1> DEFINE gain == (now - tick[k]) * RPM[k]
           cap  == RPM[k] * Minute
<1>4. Refilled(k) = IF cap <= tokens[k] + gain THEN cap ELSE tokens[k] + gain
    BY <1>1, <1>3, MinOfTwo DEF Refilled
<1>5. gain = RPM[k] * now - RPM[k] * tick[k] /\ gain \in Nat /\ cap \in Nat
    BY <1>2, <1>3
<1> HIDE DEF gain
<1> QED BY <1>1, <1>4, <1>5

LEMMA BucketsFrame ==
    ASSUME BucketsOK, UNCHANGED buckets, now \in Nat, now' \in Nat, now <= now'
    PROVE  BucketsOK'
BY DEF BucketsOK, buckets, BucketInv, RateIsBounded

\* The invariants of one bucket.
Bucket(tok, tk, g, r) ==
    /\ tok <= r * Minute /\ tk \in 1 .. now
    /\ \A i \in DOMAIN g : /\ g[i] <= tk
                           /\ tok + (Len(g) - i + 1) * Minute <= r * (Minute + tk - g[i])
    /\ \A i, j \in DOMAIN g : i <= j => (j - i + 1) * Minute <= r * (Minute + g[j] - g[i])

LEMMA BucketsApart ==
    BucketsOK <=>
        /\ tokens \in [Keys -> Nat] /\ tick \in [Keys -> Nat] /\ grants \in [Keys -> Seq(Nat)]
        /\ \A k \in Keys : Bucket(tokens[k], tick[k], grants[k], RPM[k])
BY DEF BucketsOK, BucketInv, RateIsBounded, Bucket

LEMMA BucketsApartNext ==
    BucketsOK' <=>
        /\ tokens' \in [Keys -> Nat] /\ tick' \in [Keys -> Nat] /\ grants' \in [Keys -> Seq(Nat)]
        /\ \A k \in Keys : Bucket(tokens[k], tick[k], grants[k], RPM[k])'
BY DEF BucketsOK, BucketInv, RateIsBounded, Bucket

LEMMA AppendElements ==
    ASSUME NEW S, NEW s \in Seq(S), NEW x \in S
    PROVE  /\ Append(s, x) \in Seq(S) /\ Len(Append(s, x)) = Len(s) + 1 /\ Len(s) \in Nat
           /\ DOMAIN s = 1 .. Len(s) /\ DOMAIN Append(s, x) = 1 .. Len(s) + 1
           /\ \A i \in 1 .. Len(s) : Append(s, x)[i] = s[i]
           /\ Append(s, x)[Len(s) + 1] = x
OBVIOUS

LEMMA ProductTypes ==
    /\ \A a, b \in Nat : a * b \in Nat
    /\ \A a, b \in Int : a * b \in Int /\ a * b = b * a
    /\ \A a, b \in Nat : a # 0 => b <= a * b
<1>1. ASSUME NEW a \in Nat, NEW b \in Nat, a # 0
      PROVE  b <= a * b
  <2>1. a * b = (a - 1) * b + b
      OBVIOUS
  <2>2. (a - 1) \in Nat
      BY <1>1
  <2>3. (a - 1) * b \in Nat
      BY <2>2
  <2> DEFINE q == (a - 1) * b
  <2>4. q \in Nat /\ a * b = q + b
      BY <2>1, <2>3
  <2> HIDE DEF q
  <2> QED BY <2>4
<1> QED BY <1>1

\* A test of a bucket that finds no token refills it.
LEMMA RefillKeepsBucket ==
    ASSUME NEW r \in Nat, NEW tok \in Nat, NEW tk \in Nat, NEW g \in Seq(Nat), now \in Nat,
           Bucket(tok, tk, g, r),
           NEW new \in Nat, new <= r * Minute, new <= tok + r * now - r * tk
    PROVE  /\ Bucket(new, now, g, r)
           /\ \A i \in DOMAIN g :
                  new + (Len(g) - i + 1) * Minute <= r * (Minute + now - g[i])
<1>1. 1 <= now /\ tk <= now
    BY DEF Bucket
<1>2. ASSUME NEW i \in DOMAIN g
      PROVE  /\ g[i] <= now
             /\ new + (Len(g) - i + 1) * Minute <= r * (Minute + now - g[i])
  <2>1. g[i] \in Nat /\ Minute \in Nat /\ i \in Nat /\ Len(g) \in Nat
      BY ConstantTypes
  <2>2. g[i] <= tk /\ tok + (Len(g) - i + 1) * Minute <= r * (Minute + tk - g[i])
      BY DEF Bucket
  <2>3. /\ r * (Minute + tk - g[i]) = r * Minute + r * tk - r * g[i]
        /\ r * (Minute + now - g[i]) = r * Minute + r * now - r * g[i]
      BY SMTT(20), <2>1, Distributes
  <2>4. /\ r * Minute \in Int /\ r * tk \in Int /\ r * now \in Int /\ r * g[i] \in Int
        /\ (Len(g) - i + 1) * Minute \in Int
      BY <2>1, ProductTypes
  <2> DEFINE a == r * Minute  b == r * tk  c == r * now  d == r * g[i]
             m == (Len(g) - i + 1) * Minute
  <2>5. /\ new <= tok + c - b
        /\ tok + m <= a + b - d
        /\ r * (Minute + now - g[i]) = a + c - d
        /\ a \in Int /\ b \in Int /\ c \in Int /\ d \in Int /\ m \in Int
      BY <2>2, <2>3, <2>4
  <2>6. g[i] <= now
      BY <1>1, <2>1, <2>2
  <2> HIDE DEF a, b, c, d, m
  <2>7. new + m <= a + c - d
      BY <2>5
  <2> QED BY <2>5, <2>6, <2>7 DEF m
<1>3. 1 <= now /\ now <= now /\ new <= r * Minute
    BY <1>1
<1> QED BY <1>2, <1>3 DEF Bucket

\* A token that is taken pays for the grant it is recorded with.
LEMMA GrantKeepsBucket ==
    ASSUME NEW r \in Nat, NEW tok \in Nat, NEW tk \in Nat, NEW g \in Seq(Nat), now \in Nat,
           Bucket(tok, tk, g, r),
           NEW new \in Nat, new <= r * Minute, new <= tok + r * now - r * tk,
           r # 0, new >= Minute
    PROVE  Bucket(new - Minute, now, Append(g, now), r)
<1> DEFINE h == Append(g, now)
           n == Len(g)
<1>1. /\ DOMAIN g = 1 .. n /\ DOMAIN h = 1 .. n + 1 /\ Len(h) = n + 1 /\ n \in Nat
      /\ \A i \in 1 .. n : h[i] = g[i] /\ g[i] \in Nat
      /\ h[n + 1] = now
    BY SMTT(20), AppendElements
<1>2. /\ Bucket(new, now, g, r)
      /\ \A i \in 1 .. n : new + (n - i + 1) * Minute <= r * (Minute + now - g[i])
    BY <1>1, RefillKeepsBucket
<1>3. Minute \in Nat /\ r * Minute \in Nat /\ Minute <= r * Minute
    BY ConstantTypes, ProductTypes
<1> HIDE DEF h, n
<1>4. \A i \in 1 .. n : (n - i + 1) * Minute \in Int /\ (n + 1 - i + 1) * Minute = (n - i + 1) * Minute + Minute
    BY <1>1, <1>3, ProductTypes, Distributes
<1>5. new - Minute <= r * Minute /\ now \in 1 .. now
    BY <1>2, <1>3 DEF Bucket
<1>6. ASSUME NEW i \in 1 .. n
      PROVE  /\ h[i] <= now
             /\ new - Minute + (n + 1 - i + 1) * Minute <= r * (Minute + now - h[i])
             /\ (n + 1 - i + 1) * Minute <= r * (Minute + now - h[i])
  <2>1. h[i] = g[i] /\ g[i] \in Nat /\ g[i] <= now
      BY <1>1, <1>2 DEF Bucket
  <2>2. r * (Minute + now - g[i]) \in Int
      BY <1>3, <2>1, ProductTypes
  <2> DEFINE q == r * (Minute + now - g[i])
             m == (n - i + 1) * Minute
  <2>3. new + m <= q /\ m \in Int /\ q \in Int /\ (n + 1 - i + 1) * Minute = m + Minute
      BY <1>2, <1>4, <2>2
  <2> HIDE DEF q, m
  <2>4. new - Minute + (m + Minute) <= q /\ m + Minute <= q
      BY <1>3, <2>3
  <2> QED BY <2>1, <2>3, <2>4 DEF q
<1>7. /\ h[n + 1] <= now
      /\ (n + 1 - (n + 1) + 1) * Minute = Minute
      /\ r * (Minute + now - h[n + 1]) = r * Minute
  <2>1. /\ n + 1 - (n + 1) + 1 = 1 /\ Minute + now - h[n + 1] = Minute /\ h[n + 1] <= now
      BY <1>1, <1>3
  <2> QED BY <1>3, <2>1
<1>8. new - Minute + (n + 1 - (n + 1) + 1) * Minute <= r * (Minute + now - h[n + 1])
    BY <1>3, <1>7
<1>9. ASSUME NEW i \in DOMAIN h
      PROVE  /\ h[i] <= now
             /\ new - Minute + (Len(h) - i + 1) * Minute <= r * (Minute + now - h[i])
    BY <1>1, <1>6, <1>7, <1>8
<1>10. ASSUME NEW i \in DOMAIN h, NEW j \in DOMAIN h, i <= j
       PROVE  (j - i + 1) * Minute <= r * (Minute + h[j] - h[i])
  <2>1. CASE j \in 1 .. n
    <3>1. i \in 1 .. n
        BY <1>1, <1>10, <2>1
    <3> QED BY <1>1, <1>2, <1>10, <2>1, <3>1 DEF Bucket
  <2>2. CASE j = n + 1 /\ i \in 1 .. n
      BY <1>1, <1>6, <2>2
  <2>3. CASE j = n + 1 /\ i = n + 1
    <3>1. j - i + 1 = 1 /\ Minute + h[j] - h[i] = Minute
        BY <1>1, <1>3, <2>3
    <3>2. 1 * Minute <= r * Minute
        BY <1>3
    <3> QED BY <3>1, <3>2
  <2>4. j \in 1 .. n \/ (j = n + 1 /\ (i \in 1 .. n \/ i = n + 1))
      BY SMTT(20), <1>1
  <2> QED BY <2>1, <2>2, <2>3, <2>4
<1>11. Bucket(new - Minute, now, h, r)
    BY <1>5, <1>9, <1>10 DEF Bucket
<1> QED BY <1>11 DEF h

LEMMA TakeTokenKeepsBuckets ==
    ASSUME ClockOK, BucketsOK, NEW k \in Keys, TakeToken(k), now' = now
    PROVE  BucketsOK'
<1>1. CASE RPM[k] = 0
    BY <1>1, BucketsFrame DEF TakeToken, ClockOK
<1>2. CASE RPM[k] # 0
  <2> DEFINE new == Refilled(k)
             t == IF HasToken(k) THEN new - Minute ELSE new
             g == IF HasToken(k) THEN Append(grants[k], now) ELSE grants[k]
  <2>1. /\ RPM[k] \in Nat /\ tokens[k] \in Nat /\ tick[k] \in Nat /\ grants[k] \in Seq(Nat)
        /\ now \in Nat /\ Minute \in Nat /\ Bucket(tokens[k], tick[k], grants[k], RPM[k])
      BY ConstantTypes, BucketsApart DEF ClockOK
  <2>2. /\ new \in Nat /\ new <= RPM[k] * Minute
        /\ new <= tokens[k] + RPM[k] * now - RPM[k] * tick[k]
      BY RefillBounds
  <2>3. HasToken(k) <=> new >= Minute
      BY <1>2 DEF HasToken
  <2>4. /\ tokens' = [tokens EXCEPT ![k] = t] /\ tick' = [tick EXCEPT ![k] = now]
        /\ grants' = [grants EXCEPT ![k] = g]
    <3>1. t = new - (IF HasToken(k) THEN Minute ELSE 0)
        BY <2>2
    <3>2. grants = [grants EXCEPT ![k] = grants[k]]
        BY DEF BucketsOK
    <3> QED BY <1>2, <3>1, <3>2 DEF TakeToken, TickAfter
  <2> HIDE DEF new
  <2>5. t \in Nat /\ g \in Seq(Nat) /\ Bucket(t, now, g, RPM[k])
    <3>1. CASE HasToken(k)
      <4>1. t = new - Minute /\ g = Append(grants[k], now) /\ new >= Minute /\ t \in Nat
          BY <2>1, <2>2, <2>3, <3>1
      <4>2. g \in Seq(Nat)
          BY <2>1, <4>1, AppendElements
      <4>3. Bucket(new - Minute, now, Append(grants[k], now), RPM[k])
          BY <1>2, <2>1, <2>2, <4>1, GrantKeepsBucket
      <4> QED BY <4>1, <4>2, <4>3
    <3>2. CASE ~HasToken(k)
      <4>1. Bucket(new, now, grants[k], RPM[k])
          BY <2>1, <2>2, RefillKeepsBucket
      <4> QED BY <2>1, <2>2, <3>2, <4>1
    <3> QED BY <3>1, <3>2
  <2> HIDE DEF t, g
  <2>6. /\ tokens' \in [Keys -> Nat] /\ tick' \in [Keys -> Nat] /\ grants' \in [Keys -> Seq(Nat)]
        /\ tokens'[k] = t /\ tick'[k] = now /\ grants'[k] = g
        /\ \A x \in Keys \ {k} : /\ tokens'[x] = tokens[x] /\ tick'[x] = tick[x]
                                 /\ grants'[x] = grants[x]
      BY <2>1, <2>4, <2>5 DEF BucketsOK
  <2>7. ASSUME NEW x \in Keys
        PROVE  Bucket(tokens[x], tick[x], grants[x], RPM[x])'
    <3>1. CASE x = k
        BY <2>5, <2>6, <3>1 DEF Bucket
    <3>2. CASE x # k
      <4>1. Bucket(tokens[x], tick[x], grants[x], RPM[x])
          BY BucketsApart
      <4> QED BY <2>6, <3>2, <4>1 DEF Bucket
    <3> QED BY <3>1, <3>2
  <2> QED BY <2>6, <2>7, BucketsApartNext
<1> QED BY <1>1, <1>2

\* The timer of Wait runs for a time.
LEMMA DeficitType ==
    ASSUME ClockOK, BucketsOK, NEW k \in Keys, ~HasToken(k)
    PROVE  Deficit(k) \in Nat
<1>1. RPM[k] \in Nat \ {0} /\ Refilled(k) \in Nat /\ Refilled(k) < Minute /\ Minute \in Nat
    BY ConstantTypes, RefillBounds DEF HasToken
<1> DEFINE x == Minute - Refilled(k) + RPM[k] - 1
<1>2. x \in Nat
    BY <1>1
<1>3. \A a \in Nat, b \in Nat \ {0} : a \div b \in Nat
    OBVIOUS
<1> QED BY <1>1, <1>2, <1>3 DEF Deficit

-----------------------------------------------------------------------------
(* The cooldown entries.                                                   *)

\* The invariants of one entry.
Entry(x) ==
    /\ x \in Entries
    /\ x.cooldown <= x.last + Hour /\ x.disabled <= x.last + 24 * Hour
    /\ x.last <= now
    /\ IF x.errors = 0 THEN x.cooldown <= x.last
                       ELSE x.cooldown <= x.last + StandardCooldown(x.errors)
    /\ IF x.billing = 0 THEN x.disabled <= x.last
                        ELSE x.disabled <= x.last + BillingCooldown(x.billing)

LEMMA EntriesApart ==
    /\ EntriesOK <=> entry \in [Keys -> Entries] /\ \A k \in Keys : Entry(entry[k])
    /\ EntriesOK' <=> entry' \in [Keys -> Entries] /\ \A k \in Keys : Entry(entry[k])'
BY DEF EntriesOK, BackoffInv, Entry

LEMMA EntriesFrame ==
    ASSUME EntriesOK, UNCHANGED entry, now \in Nat, now' \in Nat, now <= now'
    PROVE  EntriesOK'
BY DEF EntriesOK, BackoffInv, Entries

\* The fields of an entry whose cooldown is set.
LEMMA CooldownUpdate ==
    ASSUME NEW x \in Entries, NEW a \in Nat, NEW z, z = [x EXCEPT !.cooldown = a]
    PROVE  /\ z \in Entries /\ z.errors = x.errors /\ z.billing = x.billing
           /\ z.cooldown = a /\ z.disabled = x.disabled /\ z.last = x.last
BY DEF Entries

\* Counting a failure keeps the backoffs within their lengths and shortens neither.
LEMMA FailureLengthens ==
    ASSUME now \in Nat, NEW x, Entry(x), NEW reason
    PROVE  /\ Entry(MarkFailure(x, reason))
           /\ MarkFailure(x, reason).cooldown >= x.cooldown
           /\ MarkFailure(x, reason).disabled >= x.disabled
<1> DEFINE c == Counted(x)
           y == [c EXCEPT !.errors = @ + 1, !.last = now]
<1>1. /\ Hour \in Nat /\ x.errors \in Nat /\ x.billing \in Nat /\ x.cooldown \in Nat
      /\ x.disabled \in Nat /\ x.last \in Nat /\ x.last <= now
      /\ x.cooldown <= x.last + Hour /\ x.disabled <= x.last + 24 * Hour
    BY ConstantTypes DEF Entry, Entries
<1>2. /\ c \in Entries /\ c.cooldown = x.cooldown /\ c.disabled = x.disabled
      /\ \/ c.errors = x.errors /\ c.billing = x.billing
         \/ c.errors = 0 /\ c.billing = 0 /\ x.cooldown <= now /\ x.disabled <= now
  <2>1. x \in Entries
      BY DEF Entry
  <2>2. CASE x.last # NoTime /\ now - x.last > 24 * Hour
    <3>1. c = [x EXCEPT !.errors = 0, !.billing = 0]
        BY <2>2 DEF Counted
    <3>2. x.cooldown <= now /\ x.disabled <= now
        BY <1>1, <2>2
    <3> HIDE DEF c
    <3>4. c \in Entries
        BY <2>1, <3>1 DEF Entries
    <3>5. c.errors = 0 /\ c.billing = 0
        BY <2>1, <3>1 DEF Entries
    <3>6. c.cooldown = x.cooldown /\ c.disabled = x.disabled
        BY <2>1, <3>1 DEF Entries
    <3> QED BY <3>2, <3>4, <3>5, <3>6
  <2>3. CASE ~(x.last # NoTime /\ now - x.last > 24 * Hour)
    <3>1. c = x
        BY <2>3 DEF Counted
    <3> QED BY <2>1, <3>1
  <2> QED BY <2>2, <2>3
<1> HIDE DEF c
<1>3. /\ StandardCooldown(c.errors + 1) \in Nat /\ BillingCooldown(c.billing + 1) \in Nat
      /\ StandardCooldown(c.errors + 1) <= Hour /\ BillingCooldown(c.billing + 1) <= 24 * Hour
  <2>1. c.errors + 1 \in Nat \ {0} /\ c.billing + 1 \in Nat \ {0}
      BY <1>2 DEF Entries
  <2> QED BY <2>1, BackoffsGrow
<1>4. x.cooldown <= now + StandardCooldown(c.errors + 1)
  <2>1. CASE c.errors = 0 /\ x.cooldown <= now
      BY <1>1, <1>3, <2>1
  <2>2. CASE c.errors = x.errors /\ x.errors = 0
      BY <1>1, <1>3, <2>2 DEF Entry
  <2>3. CASE c.errors = x.errors /\ x.errors # 0
    <3>1. /\ x.cooldown <= x.last + StandardCooldown(x.errors)
          /\ StandardCooldown(x.errors) \in Nat
          /\ StandardCooldown(x.errors) <= StandardCooldown(c.errors + 1)
        BY <1>1, <2>3, BackoffsGrow DEF Entry
    <3> QED BY <1>1, <1>3, <3>1
  <2> QED BY <1>2, <2>1, <2>2, <2>3
<1>5. x.disabled <= now + BillingCooldown(c.billing + 1)
  <2>1. CASE c.billing = 0 /\ x.disabled <= now
      BY <1>1, <1>3, <2>1
  <2>2. CASE c.billing = x.billing /\ x.billing = 0
      BY <1>1, <1>3, <2>2 DEF Entry
  <2>3. CASE c.billing = x.billing /\ x.billing # 0
    <3>1. /\ x.disabled <= x.last + BillingCooldown(x.billing)
          /\ BillingCooldown(x.billing) \in Nat
          /\ BillingCooldown(x.billing) <= BillingCooldown(c.billing + 1)
        BY <1>1, <2>3, BackoffsGrow DEF Entry
    <3> QED BY <1>1, <1>3, <3>1
  <2> QED BY <1>2, <2>1, <2>2, <2>3
<1>6. /\ y \in Entries /\ y.errors = c.errors + 1 /\ y.billing = c.billing
      /\ y.cooldown = c.cooldown /\ y.disabled = c.disabled /\ y.last = now
  <2> DEFINE n == c.errors + 1
  <2>1. n \in Nat
      BY <1>2 DEF Entries
  <2>2. y = [c EXCEPT !.errors = n, !.last = now]
      BY <1>2 DEF Entries
  <2> HIDE DEF y, n
  <2>3. y \in Entries
      BY <1>2, <2>1, <2>2 DEF Entries
  <2>4. y.errors = n /\ y.billing = c.billing /\ y.last = now
      BY <1>2, <2>2 DEF Entries
  <2>5. y.cooldown = c.cooldown /\ y.disabled = c.disabled
      BY <1>2, <2>2 DEF Entries
  <2> QED BY <2>3, <2>4, <2>5 DEF n
<1> HIDE DEF y
<1>7. CASE reason = "billing"
  <2> DEFINE z == MarkFailure(x, reason)
  <2>1. z = [y EXCEPT !.billing = @ + 1, !.disabled = now + BillingCooldown(y.billing + 1)]
      BY <1>7 DEF MarkFailure, c, y
  <2> HIDE DEF z
  <2>2. /\ z \in Entries /\ z.errors = c.errors + 1 /\ z.billing = c.billing + 1
        /\ z.last = now /\ z.cooldown = x.cooldown
        /\ z.disabled = now + BillingCooldown(c.billing + 1)
    <3> DEFINE n == c.billing + 1
               d == now + BillingCooldown(n)
    <3>1. n \in Nat /\ d \in Nat
        BY <1>2, <1>3 DEF Entries
    <3>2. z = [y EXCEPT !.billing = n, !.disabled = d]
        BY <1>6, <2>1
    <3> HIDE DEF n, d
    <3>3. z \in Entries
        BY <1>6, <3>1, <3>2 DEF Entries
    <3>4. z.errors = y.errors /\ z.billing = n /\ z.last = y.last
        BY <1>6, <3>2 DEF Entries
    <3>5. z.cooldown = y.cooldown /\ z.disabled = d
        BY <1>6, <3>2 DEF Entries
    <3> QED BY <1>2, <1>6, <3>3, <3>4, <3>5 DEF n, d
  <2>3. z.cooldown <= now + StandardCooldown(z.errors) /\ z.cooldown <= z.last + Hour
      BY <1>1, <1>4, <2>2
  <2>4. z.disabled <= z.last + BillingCooldown(z.billing) /\ z.disabled <= z.last + 24 * Hour
      BY <1>1, <1>3, <2>2
  <2>5. z.errors # 0 /\ z.billing # 0
      BY <1>2, <2>2 DEF Entries
  <2>6. Entry(z)
      BY <2>2, <2>3, <2>4, <2>5 DEF Entry
  <2> QED BY <1>1, <1>5, <2>2, <2>6 DEF z
<1>8. CASE reason # "billing"
  <2> DEFINE z == MarkFailure(x, reason)
  <2>1. z = [y EXCEPT !.cooldown = now + StandardCooldown(y.errors)]
      BY <1>8 DEF MarkFailure, c, y
  <2> HIDE DEF z
  <2>2. /\ z \in Entries /\ z.errors = c.errors + 1 /\ z.billing = c.billing
        /\ z.last = now /\ z.disabled = x.disabled
        /\ z.cooldown = now + StandardCooldown(c.errors + 1)
    <3> DEFINE d == now + StandardCooldown(c.errors + 1)
    <3>1. d \in Nat
        BY <1>3
    <3>2. z = [y EXCEPT !.cooldown = d]
        BY <1>6, <2>1
    <3> HIDE DEF d
    <3>3. /\ z \in Entries /\ z.errors = y.errors /\ z.billing = y.billing
          /\ z.last = y.last /\ z.disabled = y.disabled /\ z.cooldown = d
        BY <1>6, <3>1, <3>2, CooldownUpdate
    <3> QED BY <1>2, <1>6, <3>3 DEF d
  <2>3. z.cooldown <= now + StandardCooldown(z.errors) /\ z.cooldown <= z.last + Hour
      BY <1>1, <1>3, <2>2
  <2>4. /\ IF z.billing = 0 THEN z.disabled <= now
                            ELSE z.disabled <= now + BillingCooldown(z.billing)
        /\ z.disabled <= z.last + 24 * Hour
    <3>1. CASE c.billing = 0
        BY <1>1, <1>2, <2>2, <3>1 DEF Entry
    <3>2. CASE c.billing # 0
      <4>1. c.billing = x.billing /\ BillingCooldown(x.billing) \in Nat
          BY <1>1, <1>2, <3>2, BackoffsGrow
      <4> QED BY <1>1, <2>2, <3>2, <4>1 DEF Entry
    <3> QED BY <3>1, <3>2
  <2>5. z.errors # 0
      BY <1>2, <2>2 DEF Entries
  <2>6. Entry(z)
      BY <2>2, <2>3, <2>4, <2>5 DEF Entry
  <2> QED BY <1>1, <1>4, <2>2, <2>6 DEF z
<1> QED BY <1>7, <1>8

LEMMA SuccessKeepsEntry ==
    ASSUME now \in Nat, NEW x, Entry(x)
    PROVE  Entry(MarkSuccess(x))
<1>1. /\ x.last \in Nat /\ x.last <= now /\ Hour \in Nat
    BY ConstantTypes DEF Entry, Entries
<1>2. MarkSuccess(x) = [errors |-> 0, billing |-> 0, cooldown |-> 0, disabled |-> 0, last |-> x.last]
    BY DEF MarkSuccess, NoEntry, NoTime
<1> QED BY <1>1, <1>2 DEF Entry, Entries

\* What an action may do to the entries keeps them in order.
LEMMA EntryStep ==
    ASSUME ClockOK, EntriesOK, now' = now, NEW k \in Keys, NEW x, Entry(x),
           entry' = [entry EXCEPT ![k] = x]
    PROVE  EntriesOK'
<1>1. entry \in [Keys -> Entries] /\ \A q \in Keys : Entry(entry[q])
    BY EntriesApart
<1>2. x \in Entries
    BY DEF Entry
<1>3. entry' \in [Keys -> Entries] /\ \A q \in Keys : entry'[q] = IF q = k THEN x ELSE entry[q]
    BY <1>1, <1>2
<1>4. \A q \in Keys : Entry(entry[q])'
    BY <1>1, <1>3 DEF Entry
<1> QED BY <1>3, <1>4, EntriesApart

-----------------------------------------------------------------------------
(* The control of the executions.                                          *)

States == {"idle", "check", "acquire", "wait", "running", "done"}

\* One execution.
Execution(p, s, i, c, w) ==
    /\ p \in States /\ s \in Seq(Keys) /\ i \in BOOLEAN /\ c \in BOOLEAN /\ w \in Nat
    /\ p \notin {"idle", "done"} => s # <<>>

LEMMA ControlStep ==
    ASSUME ControlOK, NEW e \in Execs,
           NEW p, NEW s, NEW i, NEW c, NEW w, Execution(p, s, i, c, w),
           pc' = [pc EXCEPT ![e] = p], todo' = [todo EXCEPT ![e] = s],
           image' = [image EXCEPT ![e] = i], canceled' = [canceled EXCEPT ![e] = c],
           wake' = [wake EXCEPT ![e] = w]
    PROVE  ControlOK'
<1>1. /\ pc' \in [Execs -> States] /\ todo' \in [Execs -> Seq(Keys)]
      /\ image' \in [Execs -> BOOLEAN] /\ canceled' \in [Execs -> BOOLEAN]
      /\ wake' \in [Execs -> Nat]
    BY DEF ControlOK, Execution, States
<1>2. ExecInv'
    BY DEF ControlOK, Execution, States, ExecInv
<1> QED BY <1>1, <1>2 DEF ControlOK, States

\* What an action leaves as it is.
LEMMA Unchanged ==
    ASSUME ControlOK, NEW e \in Execs
    PROVE  /\ pc = [pc EXCEPT ![e] = pc[e]] /\ todo = [todo EXCEPT ![e] = todo[e]]
           /\ image = [image EXCEPT ![e] = image[e]]
           /\ canceled = [canceled EXCEPT ![e] = canceled[e]]
           /\ wake = [wake EXCEPT ![e] = wake[e]]
           /\ Execution(pc[e], todo[e], image[e], canceled[e], wake[e])
BY DEF ControlOK, Execution, ExecInv, States

LEMMA CandidateType ==
    ASSUME ControlOK, NEW e \in Execs, pc[e] \notin {"idle", "done"}
    PROVE  /\ Candidate(e) \in Keys /\ Tail(todo[e]) \in Seq(Keys)
           /\ ~IsLast(e) => Tail(todo[e]) # <<>>
<1> DEFINE s == todo[e]
<1>1. s \in Seq(Keys) /\ s # <<>>
    BY DEF ControlOK, ExecInv
<1> HIDE DEF s
<1>2. Head(s) \in Keys /\ Tail(s) \in Seq(Keys) /\ Len(Tail(s)) = Len(s) - 1 /\ Len(s) \in Nat
    BY <1>1
<1>3. Len(s) # 1 => Tail(s) # <<>>
  <2>1. \A u \in Seq(Keys) : Len(u) # 0 => u # <<>>
      OBVIOUS
  <2> DEFINE u == Tail(s)
  <2>2. u \in Seq(Keys) /\ (Len(s) # 1 => Len(u) # 0)
      BY <1>2
  <2> HIDE DEF u
  <2>3. Len(s) # 1 => u # <<>>
      BY <2>1, <2>2
  <2> QED BY <2>3 DEF u
<1> QED BY <1>2, <1>3 DEF Candidate, IsLast, s

LEMMA GotoKeepsControl ==
    ASSUME ControlOK, NEW e \in Execs, pc[e] \notin {"idle", "done"},
           NEW p, p \in States, Goto(e, p), UNCHANGED <<todo, image, canceled, wake>>
    PROVE  ControlOK'
<1>1. pc' = [pc EXCEPT ![e] = p] /\ UNCHANGED <<todo, image, canceled, wake>>
    BY DEF Goto
<1>2. pc' \in [Execs -> States] /\ \A f \in Execs : pc'[f] = IF f = e THEN p ELSE pc[f]
    BY <1>1 DEF ControlOK, States
<1>3. ExecInv'
    BY <1>1, <1>2 DEF ControlOK, ExecInv
<1> QED BY <1>1, <1>2, <1>3 DEF ControlOK, States

LEMMA ReturnKeepsControl ==
    ASSUME ControlOK, NEW e \in Execs, Return(e)
    PROVE  ControlOK'
<1>1. Execution("done", <<>>, FALSE, FALSE, NoTime)
    BY DEF Execution, States, NoTime
<1> QED BY <1>1, ControlStep DEF Return, Goto

LEMMA ContinueKeepsControl ==
    ASSUME ControlOK, NEW e \in Execs, pc[e] \notin {"idle", "done"}, Continue(e)
    PROVE  ControlOK'
<1>1. CASE IsLast(e)
    BY <1>1, ReturnKeepsControl DEF Continue
<1>2. CASE ~IsLast(e)
  <2>1. Execution("check", Tail(todo[e]), image[e], canceled[e], wake[e])
      BY <1>2, CandidateType, Unchanged DEF Execution, States
  <2>2. /\ pc' = [pc EXCEPT ![e] = "check"] /\ todo' = [todo EXCEPT ![e] = Tail(todo[e])]
        /\ image' = [image EXCEPT ![e] = image[e]]
        /\ canceled' = [canceled EXCEPT ![e] = canceled[e]]
        /\ wake' = [wake EXCEPT ![e] = wake[e]]
      BY <1>2, Unchanged DEF Continue, Goto
  <2> QED BY <2>1, <2>2, ControlStep
<1> QED BY <1>1, <1>2

-----------------------------------------------------------------------------
(* The steps.                                                              *)

LEMMA InitInv == Init => Inv
<1> SUFFICES ASSUME Init PROVE ClockOK /\ EntriesOK /\ BucketsOK /\ ControlOK
    BY Parts
<1>1. ClockOK
    BY FallbackAssumption DEF Init, ClockOK
<1>2. EntriesOK
  <2>1. NoEntry \in Entries
      BY DEF NoEntry, Entries, NoTime
  <2>2. Entry(NoEntry)
      BY <2>1, ConstantTypes DEF Init, Entry, NoEntry, NoTime
  <2> QED BY <2>1, <2>2, EntriesApart DEF Init
<1>3. BucketsOK
  <2>1. \A k \in Keys : RPM[k] * Minute \in Nat
      BY ConstantTypes, ProductTypes
  <2>2. Full \in [Keys -> Nat]
      BY <2>1 DEF Full
  <2>3. grants = [k \in Keys |-> <<>>] /\ \A k \in Keys : grants[k] = <<>> /\ DOMAIN grants[k] = {}
      BY DEF Init
  <2>4. grants \in [Keys -> Seq(Nat)]
      BY <2>3
  <2>5. BucketInv /\ RateIsBounded
      BY <2>3 DEF BucketInv, RateIsBounded
  <2>6. \A k \in Keys : tokens[k] <= RPM[k] * Minute /\ tick[k] \in 1 .. now
      BY <2>1 DEF Init, Full
  <2>7. tokens \in [Keys -> Nat] /\ tick \in [Keys -> Nat]
      BY <2>2 DEF Init
  <2> QED BY <2>4, <2>5, <2>6, <2>7 DEF BucketsOK
<1>4. ControlOK
    BY DEF Init, ControlOK, ExecInv, NoTime
<1> QED BY <1>1, <1>2, <1>3, <1>4

LEMMA ExecuteKeeps ==
    ASSUME Inv, NEW e \in Execs, Execute(e)
    PROVE  Inv'
<1> USE Parts
<1>1. ClockOK' /\ EntriesOK' /\ BucketsOK'
    BY EntriesFrame, BucketsFrame DEF Execute, ClockOK, bounds
<1>2. PICK r \in Requests[e] : /\ todo' = [todo EXCEPT ![e] = r.list]
                               /\ image' = [image EXCEPT ![e] = r.image]
    BY DEF Execute
<1>3. r.list \in Seq(Keys) /\ r.list # <<>> /\ r.image \in BOOLEAN
    BY FallbackAssumption
<1>4. Execution("check", r.list, r.image, canceled[e], wake[e])
    BY <1>3, Unchanged DEF Execution, States
<1>5. /\ pc' = [pc EXCEPT ![e] = "check"]
      /\ canceled' = [canceled EXCEPT ![e] = canceled[e]]
      /\ wake' = [wake EXCEPT ![e] = wake[e]]
    BY Unchanged DEF Execute, Goto
<1>6. ControlOK'
    BY <1>2, <1>4, <1>5, ControlStep
<1> QED BY <1>1, <1>6, PartsNext

LEMMA CheckKeeps ==
    ASSUME Inv, NEW e \in Execs, Check(e)
    PROVE  Inv'
<1> USE Parts
<1>1. ClockOK' /\ EntriesOK' /\ BucketsOK'
    BY EntriesFrame, BucketsFrame DEF Check, ClockOK, bounds
<1>2. ControlOK'
    BY GotoKeepsControl, ReturnKeepsControl, ContinueKeepsControl DEF Check, Skip, States
<1> QED BY <1>1, <1>2, PartsNext

LEMMA AcquireKeeps ==
    ASSUME Inv, NEW e \in Execs, Acquire(e)
    PROVE  Inv'
<1> USE Parts
<1>1. ClockOK' /\ EntriesOK'
    BY EntriesFrame DEF Acquire, ClockOK, bounds
<1>2. BucketsOK'
    BY CandidateType, TakeTokenKeepsBuckets DEF Acquire
<1>3. ControlOK'
    BY GotoKeepsControl, ContinueKeepsControl DEF Acquire, Skip, States
<1> QED BY <1>1, <1>2, <1>3, PartsNext

LEMMA WaitKeeps ==
    ASSUME Inv, NEW e \in Execs, Wait(e)
    PROVE  Inv'
<1> USE Parts
<1> DEFINE k == Candidate(e)
<1>1. ClockOK' /\ EntriesOK'
    BY EntriesFrame DEF Wait, ClockOK, bounds
<1>2. k \in Keys
    BY CandidateType DEF Wait
<1>3. BucketsOK'
    BY <1>2, TakeTokenKeepsBuckets DEF Wait
<1>4. ControlOK'
  <2>0. /\ todo' = [todo EXCEPT ![e] = todo[e]] /\ image' = [image EXCEPT ![e] = image[e]]
        /\ canceled' = [canceled EXCEPT ![e] = canceled[e]]
      BY Unchanged DEF Wait
  <2>1. CASE HasToken(k)
    <3>1. pc' = [pc EXCEPT ![e] = "running"] /\ wake' = [wake EXCEPT ![e] = NoTime]
        BY <2>1 DEF Wait, Goto
    <3>2. Execution("running", todo[e], image[e], canceled[e], NoTime)
        BY Unchanged DEF Wait, Execution, States, NoTime
    <3> QED BY <2>0, <3>1, <3>2, ControlStep
  <2>2. CASE ~HasToken(k)
    <3> DEFINE w == now + Deficit(k)
    <3>1. pc' = [pc EXCEPT ![e] = pc[e]] /\ wake' = [wake EXCEPT ![e] = w]
        BY <2>2, Unchanged DEF Wait
    <3>2. w \in Nat
        BY <1>2, <2>2, DeficitType DEF ClockOK
    <3> HIDE DEF w
    <3>3. Execution(pc[e], todo[e], image[e], canceled[e], w)
        BY <3>2, Unchanged DEF Execution
    <3> QED BY <2>0, <3>1, <3>3, ControlStep
  <2> QED BY <2>1, <2>2
<1> QED BY <1>1, <1>3, <1>4, PartsNext

LEMMA WaitCanceledKeeps ==
    ASSUME Inv, NEW e \in Execs, WaitCanceled(e)
    PROVE  Inv'
<1> USE Parts
<1>1. ClockOK' /\ EntriesOK' /\ BucketsOK'
    BY EntriesFrame, BucketsFrame DEF WaitCanceled, ClockOK, bounds
<1>2. ControlOK'
    BY ReturnKeepsControl DEF WaitCanceled
<1> QED BY <1>1, <1>2, PartsNext

LEMMA SucceedKeeps ==
    ASSUME Inv, NEW e \in Execs, Succeed(e)
    PROVE  Inv'
<1> USE Parts
<1> DEFINE k == Candidate(e)
<1>1. ClockOK' /\ BucketsOK'
    BY BucketsFrame DEF Succeed, ClockOK, bounds
<1>2. k \in Keys
    BY CandidateType DEF Succeed
<1>3. EntriesOK'
  <2>1. CASE image[e]
      BY <2>1, EntriesFrame DEF Succeed, ClockOK
  <2>2. CASE ~image[e]
    <3>1. Entry(MarkSuccess(entry[k]))
        BY <1>2, EntriesApart, SuccessKeepsEntry DEF ClockOK
    <3>2. entry' = [entry EXCEPT ![k] = MarkSuccess(entry[k])] /\ now' = now
        BY <2>2 DEF Succeed
    <3> QED BY <1>2, <3>1, <3>2, EntryStep
  <2> QED BY <2>1, <2>2
<1>4. ControlOK'
    BY ReturnKeepsControl DEF Succeed
<1> QED BY <1>1, <1>3, <1>4, PartsNext

LEMMA FailKeeps ==
    ASSUME Inv, NEW e \in Execs, NEW error \in Errors, Fail(e, error)
    PROVE  Inv'
<1> USE Parts
<1> DEFINE k == Candidate(e)
<1>1. ClockOK' /\ BucketsOK'
    BY BucketsFrame DEF Fail, ClockOK, bounds
<1>2. k \in Keys
    BY CandidateType DEF Fail
<1>3. EntriesOK'
  <2>1. CASE UNCHANGED entry
      BY <2>1, EntriesFrame DEF Fail, ClockOK
  <2>2. CASE entry' = [entry EXCEPT ![k] = MarkFailure(entry[k], error)]
    <3>1. Entry(MarkFailure(entry[k], error))
        BY <1>2, EntriesApart, FailureLengthens DEF ClockOK
    <3>2. now' = now
        BY DEF Fail
    <3> QED BY <1>2, <2>2, <3>1, <3>2, EntryStep
  <2> QED BY <2>1, <2>2 DEF Fail
<1>4. ControlOK'
    BY ReturnKeepsControl, ContinueKeepsControl DEF Fail
<1> QED BY <1>1, <1>3, <1>4, PartsNext

LEMMA CancelKeeps ==
    ASSUME Inv, NEW e \in Execs, Cancel(e)
    PROVE  Inv'
<1> USE Parts
<1>1. ClockOK' /\ EntriesOK' /\ BucketsOK'
    BY FallbackAssumption, EntriesFrame, BucketsFrame DEF Cancel, ClockOK
<1>2. Execution(pc[e], todo[e], image[e], TRUE, wake[e])
    BY Unchanged DEF Execution
<1>3. /\ pc' = [pc EXCEPT ![e] = pc[e]] /\ todo' = [todo EXCEPT ![e] = todo[e]]
      /\ image' = [image EXCEPT ![e] = image[e]] /\ wake' = [wake EXCEPT ![e] = wake[e]]
      /\ canceled' = [canceled EXCEPT ![e] = TRUE]
    BY Unchanged DEF Cancel
<1>4. ControlOK'
    BY <1>2, <1>3, ControlStep
<1> QED BY <1>1, <1>4, PartsNext

LEMMA AdvanceKeeps ==
    ASSUME Inv, NEW t \in Instants, Advance(t)
    PROVE  Inv'
<1> USE Parts
<1>1. t \in Nat
  <2>1. Hour \in Nat /\ now \in Nat /\ \A k \in Keys : entry[k] \in Entries
      BY ConstantTypes DEF ClockOK, EntriesOK
  <2>2. \A k \in Keys : /\ entry[k].cooldown \in Nat /\ entry[k].disabled \in Nat
                        /\ entry[k].last + 24 * Hour + 1 \in Nat
      BY <2>1 DEF Entries
  <2>3. \A e \in Execs : wake[e] \in Nat
      BY DEF ControlOK
  <2> QED BY <2>1, <2>2, <2>3 DEF Instants, Timers
<1>2. ClockOK' /\ now \in Nat /\ now' \in Nat /\ now <= now'
    BY <1>1, FallbackAssumption DEF Advance, ClockOK
<1>3. EntriesOK' /\ BucketsOK'
    BY <1>2, EntriesFrame, BucketsFrame DEF Advance
<1>4. ControlOK'
    BY DEF Advance, execs, ControlOK, ExecInv
<1> QED BY <1>2, <1>3, <1>4, PartsNext

LEMMA NextInv == Inv /\ [Next]_vars => Inv'
<1> SUFFICES ASSUME Inv, [Next]_vars PROVE Inv'
    OBVIOUS
<1>1. ASSUME NEW e \in Execs, Execute(e) \/ Step(e) \/ Cancel(e)
      PROVE  Inv'
    BY <1>1, ExecuteKeeps, CheckKeeps, AcquireKeeps, WaitKeeps, WaitCanceledKeeps,
       SucceedKeeps, FailKeeps, CancelKeeps DEF Step
<1>2. ASSUME NEW t \in Instants, Advance(t)
      PROVE  Inv'
    BY <1>2, AdvanceKeeps
<1>3. CASE UNCHANGED vars
  <2>1. UNCHANGED <<now, entry, buckets, execs, bounds>>
      BY <1>3 DEF vars
  <2>2. ClockOK' /\ EntriesOK' /\ BucketsOK'
      BY <2>1, Parts, EntriesFrame, BucketsFrame DEF ClockOK, bounds
  <2>3. ControlOK'
      BY <2>1, Parts DEF execs, ControlOK, ExecInv
  <2> QED BY <2>2, <2>3, PartsNext
<1> QED BY <1>1, <1>2, <1>3 DEF Next

LEMMA Invariance == Spec => []Inv
<1> QED BY InitInv, NextInv, PTL DEF Spec

-----------------------------------------------------------------------------
\* Every variable keeps its type: no bucket is overdrawn by the executions that share it or
\* filled above its burst, and no backoff is longer than an hour, or than a day for billing,
\* whatever the failures counted (cooldown.go, ratelimiter.go).
THEOREM TypeCorrect == Spec => []TypeOK
<1>1. Inv => TypeOK
    BY DEF Inv
<1> QED BY <1>1, Invariance, PTL

\* Whatever the limits, the candidates and the executions that take tokens, waiting or not,
\* no window of time admits more calls of a candidate than its burst and what the window
\* refills (ratelimiter.go).
THEOREM RateBounded == Spec => []RateIsBounded
<1>1. Inv => RateIsBounded
    BY DEF Inv
<1> QED BY <1>1, Invariance, PTL

LEMMA OnlyFail ==
    ASSUME Inv, [Next]_vars, NEW k \in Keys, entry[k] # entry'[k]
    PROVE  \/ entry'[k] = MarkSuccess(entry[k])
           \/ \E reason \in Errors : entry'[k] = MarkFailure(entry[k], reason)
<1>0. entry \in [Keys -> Entries]
    BY Parts DEF EntriesOK
<1>1. PICK e \in Execs : Succeed(e) \/ \E error \in Errors : Fail(e, error)
    BY DEF Next, Step, vars, Execute, Check, Acquire, Wait, WaitCanceled, Cancel, Advance
<1>2. CASE Succeed(e)
    BY <1>0, <1>2 DEF Succeed
<1>3. CASE \E error \in Errors : Fail(e, error)
    BY <1>0, <1>3 DEF Fail
<1> QED BY <1>1, <1>2, <1>3

\* The failures of calls that overlap, of any kinds, in any number and order, never bring a
\* candidate back earlier than a failure before them did: only a success does (cooldown.go).
THEOREM FailuresOnlyLengthen == Spec => FailureNeverShortens
<1> DEFINE A == \A k \in Keys :
                    entry[k] # entry'[k] =>
                        \/ entry'[k] = MarkSuccess(entry[k])
                        \/ /\ entry'[k].cooldown >= entry[k].cooldown
                           /\ entry'[k].disabled >= entry[k].disabled
<1>1. Inv /\ [Next]_vars => A
  <2> SUFFICES ASSUME Inv, [Next]_vars, NEW k \in Keys, entry[k] # entry'[k]
               PROVE  \/ entry'[k] = MarkSuccess(entry[k])
                      \/ /\ entry'[k].cooldown >= entry[k].cooldown
                         /\ entry'[k].disabled >= entry[k].disabled
      OBVIOUS
  <2>1. Entry(entry[k]) /\ now \in Nat
      BY Parts, EntriesApart DEF ClockOK
  <2> QED BY <2>1, OnlyFail, FailureLengthens
<1> HIDE DEF A
<1>2. Inv /\ [Next]_vars => [A]_vars
    BY <1>1
<1>3. Spec => [][A]_vars
    BY <1>2, Invariance, PTL DEF Spec
<1> QED BY <1>3 DEF A, FailureNeverShortens
=============================================================================
