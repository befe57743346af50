----------------------------- MODULE RateBucket -----------------------------
(***************************************************************************)
(* The credit of a bandwidth limit (ww/base/rate_bucket.c), as SpeedLimit  *)
(* (tunnels/SpeedLimit/common/helpers.c) and the users share it between    *)
(* workers.                                                                *)
(*                                                                         *)
(* Credit is whole bytes and thousandths of a byte.  The code computes     *)
(* rate * elapsed / 1000 in 64-bit words without forming either product.   *)
(* Here the word holds MaxWord and the thousand is Kilo, so that every     *)
(* product that would not fit is met; arithmetic wraps as the machine's    *)
(* does.  Each worker has a clock of its own, and takes the shared bucket  *)
(* under its lock for a refill with a grant or a question.                 *)
(***************************************************************************)
EXTENDS Integers

CONSTANTS
    Workers,
    MaxWord,   \* UINT64_MAX
    Kilo,      \* milliseconds in a second, units in a byte
    Policies,  \* records: rate, capacity, step, and whether the bucket is
               \* stored in units, as SpeedLimit does
    Ticks,     \* how far a worker's clock may move at once
    Requests   \* sizes asked for

(* SpeedLimit refuses a rate whose units do not fit (instance/create.c).   *)
ASSUME RateBucketAssumption ==
    /\ Kilo \in Nat \ {0} /\ MaxWord \in Nat /\ Kilo * Kilo <= MaxWord
    /\ Policies \subseteq [rate : 0 .. MaxWord, capacity : 0 .. MaxWord,
                           step : 1 .. MaxWord, units : BOOLEAN]
    /\ \A p \in Policies : p.units =>
          p.capacity = p.rate /\ p.rate * Kilo <= MaxWord
    /\ Ticks \subseteq Nat \ {0} /\ Requests \subseteq 0 .. MaxWord

VARIABLES
    policy,
    bucket,  \* credit, last_refill_ms, remainder, has_clock
    now,     \* now[w]: the time of worker w's loop
    units,   \* history: the exact credit in thousandths of a byte
    since    \* history: the time up to which it is earned, -1 before any

bucketVars == <<policy, bucket, now, units, since>>

Wrap(n) == n % (MaxWord + 1)
Lesser(a, b) == IF a < b THEN a ELSE b

-----------------------------------------------------------------------------
SaturatingAdd(a, b) == IF b > Wrap(MaxWord - a) THEN MaxWord ELSE Wrap(a + b)
SaturatingMultiply(a, b) ==
    IF a # 0 /\ b > MaxWord \div a THEN MaxWord ELSE Wrap(a * b)

Clamp(b, cap) ==
    IF b.credit >= cap THEN [b EXCEPT !.credit = cap, !.remainder = 0] ELSE b
Full(b, cap) == [b EXCEPT !.credit = cap, !.remainder = 0]

\* Mutant of TooMuch: the bound is met one byte early.
TooMuch_Early(missing, n, each) == n # 0 /\ each >= Wrap(missing - 1) \div n

(* n times each would fill what is missing, tested by a division.          *)
TooMuch(missing, n, each) == n # 0 /\ each > Wrap(missing - 1) \div n

(* What the elapsed time earns.  The missing credit bounds every product.  *)
Earn(b, r, cap, elapsed) ==
    LET missing == Wrap(cap - b.credit)
        seconds == elapsed \div Kilo
        millis == elapsed % Kilo
        whole == r \div Kilo
        earned == Wrap(seconds * r)
        sofar == Wrap(earned + millis * whole)
        fraction == Wrap(millis * (r % Kilo) + b.remainder)
        extra == fraction \div Kilo IN
    IF TooMuch(missing, seconds, r) THEN Full(b, cap)
    ELSE IF TooMuch(Wrap(missing - earned), millis, whole) THEN Full(b, cap)
    ELSE IF extra >= Wrap(missing - sofar) THEN Full(b, cap)
    ELSE [b EXCEPT !.credit = Wrap(@ + sofar + extra),
                   !.remainder = fraction % Kilo]

Refill(b0, r, cap, st, t) ==
    LET b == Clamp(b0, cap)
        passed == t - b.last
        elapsed == passed - (passed % st)
        c == [b EXCEPT !.last = @ + elapsed] IN
    IF ~b.has_clock THEN [b EXCEPT !.last = t, !.has_clock = TRUE]
    ELSE IF t <= b.last THEN b
    ELSE IF elapsed = 0 \/ b.credit = cap \/ r = 0 THEN c
    ELSE Earn(c, r, cap, elapsed)

Grant(b, requested, partial) ==
    IF requested <= b.credit THEN requested
    ELSE IF partial THEN b.credit ELSE 0

(* ratebucketRetryMs.  The last second is searched by halving.             *)
Enough(b, r, rem, m) ==
    LET part == Wrap((r % Kilo) * m + b.remainder)
    IN  Wrap(Wrap((r \div Kilo) * m) + part \div Kilo) >= rem
Search(b, r, rem) ==
    LET find[low \in 0 .. Kilo, high \in 0 .. Kilo] ==
          LET middle == low + (high - low) \div 2 IN
          IF low >= high THEN low
          ELSE IF Enough(b, r, rem, middle) THEN find[low, middle]
          ELSE find[middle + 1, high]
    IN  find[0, Kilo]
\* Mutant of Split: a whole number of seconds is left as it is.
Split_Even(missing, r) == [seconds |-> missing \div r, rem |-> missing % r]

(* Whole seconds of rate and a rest that is never zero.                    *)
Split(missing, r) ==
    IF missing % r = 0 /\ missing \div r # 0
    THEN [seconds |-> (missing \div r) - 1, rem |-> r]
    ELSE [seconds |-> missing \div r, rem |-> missing % r]
RetryMs(b, r, st, t, requested) ==
    LET split == Split(requested - b.credit, r)
        wait == SaturatingAdd(SaturatingMultiply(split.seconds, Kilo),
                              Search(b, r, split.rem))
        steps == wait \div st + (IF wait % st # 0 THEN 1 ELSE 0)
        rounded == SaturatingMultiply(steps, st)
        phase == IF b.has_clock /\ t > b.last THEN (t - b.last) % st ELSE 0 IN
    IF b.credit >= requested THEN 0
    ELSE IF r = 0 THEN MaxWord
    ELSE IF wait = MaxWord THEN wait
    ELSE IF rounded > phase THEN rounded - phase ELSE 1

-----------------------------------------------------------------------------
(* speedlimitWriteBucket, then speedlimitReadBucket: whole units in one    *)
(* word.                                                                   *)
Stored(b) ==
    LET tokens == Wrap(b.credit * Kilo + b.remainder)
    IN  IF ~policy.units THEN b
        ELSE [b EXCEPT !.credit = tokens \div Kilo,
                       !.remainder = tokens % Kilo,
                       !.has_clock = @ \/ b.last # 0]

Refilled(t) ==
    Refill(bucket, policy.rate, policy.capacity, policy.step, t)

(* The exact credit, with unbounded arithmetic and a clock of its own: the *)
(* first look starts it, and later ones earn whole steps.                  *)
Level(b) == b.credit * Kilo + b.remainder
Steps(t) ==
    IF since >= 0 /\ t > since
    THEN (t - since) - ((t - since) % policy.step) ELSE 0
Exact(t) == Lesser(policy.capacity * Kilo, units + policy.rate * Steps(t))
EarnedUpTo(t) == since' = IF since = -1 THEN t ELSE since + Steps(t)

BucketInit ==
    /\ policy \in Policies
    /\ bucket = [credit |-> policy.capacity, last |-> 0, remainder |-> 0,
                 has_clock |-> FALSE]
    /\ units = Level(bucket) /\ since = -1
    /\ now = [w \in Workers |-> 0]

Tick(w) ==
    /\ now[w] < MaxWord
    /\ \E d \in Ticks : now' = [now EXCEPT ![w] = Lesser(@ + d, MaxWord)]
    /\ UNCHANGED <<policy, bucket, units, since>>

(* speedlimitGrantBytes; the preview and commit of a user.                 *)
Take(w) ==
    \E n \in Requests, partial \in BOOLEAN :
       LET b == Refilled(now[w])
           g == Grant(b, n, partial) IN
       /\ bucket' = Stored([b EXCEPT !.credit = @ - g])
       /\ units' = Exact(now[w]) - g * Kilo
       /\ EarnedUpTo(now[w])
       /\ UNCHANGED <<policy, now>>

(* speedlimitPeekAvailableUnits and speedlimitGetRetryDelayMs.             *)
Peek(w) ==
    /\ bucket' = Stored(Refilled(now[w]))
    /\ units' = Exact(now[w])
    /\ EarnedUpTo(now[w])
    /\ UNCHANGED <<policy, now>>

BucketNext == \E w \in Workers : Tick(w) \/ Take(w) \/ Peek(w)

BucketSpec == BucketInit /\ [][BucketNext]_bucketVars

-----------------------------------------------------------------------------
(* Properties.                                                             *)

(* The bucket holds exactly what the rate has earned, less what was        *)
(* granted, up to the capacity: no rounding and no overflow of the         *)
(* products ratebucketRefill avoids creates or loses a thousandth, however *)
(* refills of workers with different clocks interleave.                    *)
CreditExact == Level(bucket) = units /\ bucket.remainder < Kilo

(* The time ratebucketRetryMs gives a worker that has just looked is       *)
(* enough for what it asks, a step less is not, and it says never only if  *)
(* no time the word holds is enough.  The time counts from the worker's    *)
(* clock or, when another worker's refill was at a later time than that,   *)
(* from the refill: such a worker comes back too early and asks again.     *)
RetryHonest ==
    \A w \in Workers, n \in {m \in Requests : m <= policy.capacity} :
       LET t == now[w]
           b == Refilled(t)
           from == IF t > b.last THEN t ELSE b.last
           r == RetryMs(b, policy.rate, policy.step, t, n)
           Have(at) == Refill(b, policy.rate, policy.capacity, policy.step,
                              at).credit >= n
       IN  /\ r = MaxWord => ~Have(MaxWord)
           /\ r # MaxWord /\ from + r <= MaxWord => Have(from + r)
           /\ r # 0 /\ from + r - 1 <= MaxWord => ~Have(from + r - 1)
=============================================================================
