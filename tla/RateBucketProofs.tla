-------------------------- MODULE RateBucketProofs --------------------------
(***************************************************************************)
(* Proofs about RateBucket: for every rate, capacity and step, every width *)
(* of the word and every number of workers, the bucket holds exactly what  *)
(* the unbounded arithmetic would.                                         *)
(***************************************************************************)
EXTENDS RateBucket, TLAPS

Word == 0 .. MaxWord

-----------------------------------------------------------------------------
(* Division, and products that a test by division keeps within bounds.     *)

(* Quotient and rest.                                                      *)
LEMMA Division ==
    ASSUME NEW a \in Nat, NEW n \in Nat \ {0}
    PROVE  /\ a \div n \in Nat /\ a % n \in Nat /\ a % n < n
           /\ a = n * (a \div n) + (a % n)
  BY SMT

(* A product of naturals is a natural, and grows with its factors.         *)
LEMMA Product ==
    ASSUME NEW a \in Nat, NEW b \in Nat, NEW n \in Nat
    PROVE  /\ n * a \in Nat
           /\ a <= b => n * a <= n * b
  BY SMT

(* What fits into the word does not wrap.                                  *)
LEMMA WrapFits ==
    ASSUME NEW a \in Word
    PROVE  Wrap(a) = a
  BY RateBucketAssumption, SMT DEF Wrap, Word

(* The division of ratebucketRefill finds out, without forming the         *)
(* product, whether n times each reaches what is missing.                  *)
LEMMA TooMuchIsProduct ==
    ASSUME NEW missing \in 1 .. MaxWord, NEW n \in Nat, NEW each \in Nat
    PROVE  TooMuch(missing, n, each) <=> n * each >= missing
  <1>1. missing - 1 \in Word /\ Wrap(missing - 1) = missing - 1
    BY RateBucketAssumption, WrapFits, SMT DEF Word
  <1>2. CASE n = 0
    <2>1. n * each = 0
      BY <1>2, SMT
    <2> QED
      BY <1>2, <2>1, SMT DEF TooMuch
  <1>3. CASE n # 0
    <2> DEFINE q == (missing - 1) \div n
               r == (missing - 1) % n
    <2>1. q \in Nat /\ r \in Nat /\ r < n /\ missing - 1 = n * q + r
      BY <1>3, <1>1, Division DEF Word
    <2>2. TooMuch(missing, n, each) <=> each > q
      BY <1>1, <1>3 DEF TooMuch
    <2> HIDE DEF q, r
    <2>3. ASSUME each > q PROVE n * each >= missing
      <3>1. n * (q + 1) <= n * each
        BY <2>1, <2>3, Product, SMT
      <3>2. n * (q + 1) = n * q + n
        BY <2>1, SMT
      <3>3. n * q \in Nat /\ n * each \in Nat
        BY <2>1, Product
      <3> QED
        BY <3>1, <3>2, <3>3, <2>1, SMT
    <2>4. ASSUME ~(each > q) PROVE ~(n * each >= missing)
      <3>1. n * each <= n * q
        BY <2>1, <2>4, Product, SMT
      <3>3. n * q \in Nat /\ n * each \in Nat
        BY <2>1, Product
      <3> QED
        BY <3>1, <3>3, <2>1, SMT
    <2> QED
      BY <2>2, <2>3, <2>4
  <1> QED
    BY <1>2, <1>3

(* Quotient and rest are the only numbers that make up the dividend.       *)
LEMMA DivisionUnique ==
    ASSUME NEW n \in Nat \ {0}, NEW q \in Nat, NEW r \in 0 .. n - 1
    PROVE  /\ (q * n + r) \div n = q
           /\ (q * n + r) % n = r
  <1> DEFINE a == q * n + r
             p == a \div n
             s == a % n
  <1>1. a \in Nat
    BY SMT
  <1>2. p \in Nat /\ s \in Nat /\ s < n /\ a = n * p + s
    BY <1>1, Division
  <1>3. a = q * n + r /\ q * n = n * q
    BY SMT
  <1> HIDE DEF a, p, s
  <1>4. ASSUME p < q PROVE FALSE
    <2>1. n * (p + 1) <= n * q
      BY <1>2, <1>4, Product, SMT
    <2>2. n * (p + 1) = n * p + n /\ n * p \in Nat /\ n * q \in Nat
      BY <1>2, SMT
    <2> QED
      BY <1>1, <1>2, <1>3, <2>1, <2>2, SMT
  <1>5. ASSUME q < p PROVE FALSE
    <2>1. n * (q + 1) <= n * p
      BY <1>2, <1>5, Product, SMT
    <2>2. n * (q + 1) = n * q + n /\ n * p \in Nat /\ n * q \in Nat
      BY <1>2, SMT
    <2> QED
      BY <1>1, <1>2, <1>3, <2>1, <2>2, SMT
  <1>6. p = q
    BY <1>2, <1>4, <1>5, SMT
  <1>7. s = r
    BY <1>1, <1>2, <1>3, <1>6, SMT
  <1> QED
    BY <1>6, <1>7 DEF a, p, s

-----------------------------------------------------------------------------
(* A bucket as a worker leaves it: never over its capacity, and with no    *)
(* thousandths beyond a full one.                                          *)
Buckets ==
    [credit : Word, last : Word, remainder : 0 .. Kilo - 1,
     has_clock : BOOLEAN]
Valid(b, cap) ==
    b \in Buckets /\ b.credit <= cap /\ (b.credit = cap => b.remainder = 0)

(* The time a refill counts: whole steps since the last one.               *)
Elapsed(b, st, t) ==
    IF b.has_clock /\ t > b.last THEN (t - b.last) - ((t - b.last) % st) ELSE 0

(* The numbers behind Earn: rate times elapsed, put together from seconds, *)
(* milliseconds, whole bytes and thousandths.                              *)
LEMMA Parts ==
    ASSUME NEW r \in Nat, NEW e \in Nat
    PROVE  r * e = Kilo * ((e \div Kilo) * r + (e % Kilo) * (r \div Kilo))
                     + (e % Kilo) * (r % Kilo)
  <1> DEFINE s == e \div Kilo
             m == e % Kilo
             w == r \div Kilo
             f == r % Kilo
  <1>1. s \in Nat /\ m \in Nat /\ e = Kilo * s + m
    BY Division, RateBucketAssumption
  <1>2. w \in Nat /\ f \in Nat /\ r = Kilo * w + f
    BY Division, RateBucketAssumption
  <1> HIDE DEF s, m, w, f
  <1>3. r * e = Kilo * (s * r) + r * m
    BY <1>1, RateBucketAssumption, SMT
  <1>4. r * m = Kilo * (m * w) + m * f
    BY <1>1, <1>2, RateBucketAssumption, SMT
  <1>5. Kilo * (s * r + m * w) = Kilo * (s * r) + Kilo * (m * w)
    BY <1>1, <1>2, RateBucketAssumption, SMT
  <1>6. /\ s * r \in Nat /\ m * w \in Nat /\ m * f \in Nat
        /\ Kilo * (s * r) \in Nat /\ Kilo * (m * w) \in Nat
    BY <1>1, <1>2, Product, RateBucketAssumption
  <1>7. r * e = Kilo * (s * r + m * w) + m * f
    BY <1>3, <1>4, <1>5, <1>6, SMT
  <1> QED
    BY <1>7 DEF s, m, w, f

(* An update of credit and rest, and what it leaves of a bucket.           *)
With(b, c, rem) == [b EXCEPT !.credit = c, !.remainder = rem]

(* A bucket with new credit.                                               *)
LEMMA Updated ==
    ASSUME NEW b \in Buckets, NEW c \in Word, NEW rem \in 0 .. Kilo - 1
    PROVE  /\ With(b, c, rem) \in Buckets
           /\ With(b, c, rem).credit = c /\ With(b, c, rem).remainder = rem
           /\ With(b, c, rem).last = b.last
           /\ With(b, c, rem).has_clock = b.has_clock
  <1> DEFINE n == With(b, c, rem)
  <1>1. n \in Buckets
    BY DEF Buckets, With
  <1>2. n.credit = c /\ n.remainder = rem
    BY DEF Buckets, With
  <1>3. n.last = b.last
    BY DEF Buckets, With
  <1>4. n.has_clock = b.has_clock
    BY Zenon DEF Buckets, With
  <1> QED
    BY <1>1, <1>2, <1>3, <1>4

(* Earn, which never forms a product that does not fit, adds exactly       *)
(* rate times elapsed thousandths, or fills the bucket when that is more.  *)
LEMMA EarnExact ==
    ASSUME NEW cap \in Word, NEW b \in Buckets, b.credit < cap,
           NEW r \in Word, NEW e \in Nat
    PROVE  /\ Valid(Earn(b, r, cap, e), cap)
           /\ Earn(b, r, cap, e).last = b.last
           /\ Earn(b, r, cap, e).has_clock = b.has_clock
           /\ Level(Earn(b, r, cap, e))
                = Lesser(cap * Kilo, Level(b) + r * e)
  <1> DEFINE missing == cap - b.credit
             s == e \div Kilo
             m == e % Kilo
             w == r \div Kilo
             f == r % Kilo
             earned == s * r
             sofar == s * r + m * w
             fraction == m * f + b.remainder
             extra == fraction \div Kilo
             rest == fraction % Kilo
             filled == Full(b, cap)
             grown == [b EXCEPT !.credit = b.credit + sofar + extra,
                                !.remainder = rest]
  <1> USE RateBucketAssumption
  <1>0. Earn(b, r, cap, e) =
          IF TooMuch(Wrap(missing), s, r) THEN filled
          ELSE IF TooMuch(Wrap(Wrap(missing) - Wrap(earned)), m, w) THEN filled
          ELSE IF Wrap(fraction) \div Kilo
                    >= Wrap(Wrap(missing) - Wrap(Wrap(earned) + m * w))
               THEN filled
          ELSE [b EXCEPT !.credit = Wrap(@ + Wrap(Wrap(earned) + m * w)
                                           + Wrap(fraction) \div Kilo),
                         !.remainder = Wrap(fraction) % Kilo]
    BY DEF Earn
  <1>1. /\ s \in Nat /\ m \in Nat /\ m < Kilo /\ w \in Nat
        /\ f \in Nat /\ f < Kilo
    <2>1. r \in Nat
      BY DEF Word
    <2> QED
      BY <2>1, Division
  <1>s. r * e = Kilo * sofar + m * f
    <2>1. r \in Nat
      BY DEF Word
    <2> QED
      BY <2>1, Parts, Zenon
  <1> HIDE DEF s, m, w, f
  <1>2. /\ b.credit \in Nat /\ b.credit <= MaxWord /\ b.remainder \in Nat
        /\ b.remainder < Kilo /\ cap \in Nat /\ cap <= MaxWord
        /\ r \in Nat /\ Kilo \in Nat /\ Kilo > 0 /\ MaxWord \in Nat
    BY SMT DEF Buckets, Word
  <1>3. missing \in 1 .. MaxWord /\ Wrap(missing) = missing
    BY <1>2, WrapFits, SMT DEF Word
  <1>4. /\ earned \in Nat /\ m * w \in Nat /\ sofar \in Nat
        /\ m * f \in Nat /\ fraction \in Nat
    BY <1>1, <1>2, Product, SMT
  <1>5. extra \in Nat /\ rest \in Nat /\ rest < Kilo
        /\ fraction = Kilo * extra + rest
    BY <1>2, <1>4, Division
  <1> HIDE DEF extra, rest
  <1>6. fraction \in Word /\ Wrap(fraction) = fraction
    <2>1. m * f <= (Kilo - 1) * (Kilo - 1)
      BY <1>1, <1>2, SMT
    <2>2. (Kilo - 1) * (Kilo - 1) = Kilo * Kilo - Kilo - Kilo + 1
      BY <1>2, SMT
    <2>3. Kilo * Kilo \in Nat /\ Kilo * Kilo <= MaxWord
      BY <1>2, SMT
    <2>4. fraction <= MaxWord
      BY <1>2, <1>4, <2>1, <2>2, <2>3, SMT
    <2> QED
      BY <1>2, <1>4, <2>4, WrapFits, SMT DEF Word
  <1>7. Level(b) + r * e = Kilo * (b.credit + sofar) + fraction
    <2>1. r * e = Kilo * sofar + m * f
      BY <1>s
    <2>2. Kilo * (b.credit + sofar) = b.credit * Kilo + Kilo * sofar
      BY <1>2, <1>4, SMT
    <2>3. Kilo * sofar \in Nat /\ b.credit * Kilo \in Nat
      BY <1>2, <1>4, Product
    <2> HIDE DEF sofar
    <2> QED
      BY <1>2, <1>4, <2>1, <2>2, <2>3, SMT DEF Level
  <1>8. /\ Valid(filled, cap) /\ Level(filled) = cap * Kilo
        /\ filled.last = b.last /\ filled.has_clock = b.has_clock
    <2>1. cap \in Word /\ 0 \in 0 .. Kilo - 1
      BY <1>2, SMT
    <2>2. /\ filled \in Buckets /\ filled.credit = cap /\ filled.remainder = 0
          /\ filled.last = b.last /\ filled.has_clock = b.has_clock
      <3>1. filled = With(b, cap, 0)
        BY DEF Full, With
      <3> HIDE DEF filled
      <3> QED
        BY <2>1, <3>1, Updated
    <2>3. cap * Kilo + 0 = cap * Kilo /\ cap <= cap
      BY <1>2, SMT
    <2> QED
      BY <2>2, <2>3, Zenon DEF Valid, Level
  <1>9. ASSUME missing <= sofar + extra
        PROVE  Lesser(cap * Kilo, Level(b) + r * e) = cap * Kilo
    <2>1. Kilo * cap <= Kilo * (b.credit + sofar + extra)
      BY <1>2, <1>4, <1>5, <1>9, Product, SMT
    <2>2. Kilo * (b.credit + sofar + extra)
            = Kilo * (b.credit + sofar) + Kilo * extra
      BY <1>2, <1>4, <1>5, SMT
    <2>3. Kilo * cap = cap * Kilo /\ cap * Kilo \in Nat
          /\ Kilo * (b.credit + sofar) \in Nat /\ Kilo * extra \in Nat
      BY <1>2, <1>4, <1>5, Product, SMT
    <2>4. cap * Kilo <= Level(b) + r * e
      BY <1>5, <1>7, <2>1, <2>2, <2>3, SMT
    <2> QED
      BY <1>4, <1>7, <2>3, <2>4, SMT DEF Lesser
  <1>10. ASSUME sofar + extra < missing
         PROVE  /\ Valid(grown, cap) /\ grown.last = b.last
                /\ grown.has_clock = b.has_clock
                /\ Level(grown) = Lesser(cap * Kilo, Level(b) + r * e)
    <2> DEFINE c == b.credit + sofar + extra
    <2>1. c \in Nat /\ c < cap /\ c + 1 <= cap
      BY <1>2, <1>4, <1>5, <1>10, SMT
    <2>2. /\ grown \in Buckets /\ grown.credit = c /\ grown.remainder = rest
          /\ grown.last = b.last /\ grown.has_clock = b.has_clock
      <3>1. c \in Word /\ rest \in 0 .. Kilo - 1
        BY <1>2, <1>5, <2>1, SMT DEF Word
      <3>2. grown = With(b, c, rest)
        BY DEF With
      <3> HIDE DEF grown, c
      <3> QED
        BY <3>1, <3>2, Updated
    <2>3. Level(b) + r * e = Kilo * c + rest
      <3>1. Kilo * c = Kilo * (b.credit + sofar) + Kilo * extra
        BY <1>2, <1>4, <1>5, SMT
      <3>2. Kilo * (b.credit + sofar) \in Nat /\ Kilo * extra \in Nat
        BY <1>2, <1>4, <1>5, Product, SMT
      <3> QED
        BY <1>5, <1>7, <3>1, <3>2, SMT
    <2> HIDE DEF c
    <2>4. Kilo * c \in Nat /\ c * Kilo = Kilo * c
      BY <1>2, <2>1, SMT
    <2>5. Kilo * c + rest < cap * Kilo
      <3>1. Kilo * (c + 1) <= Kilo * cap
        BY <1>2, <2>1, Product
      <3>2. Kilo * (c + 1) = Kilo * c + Kilo /\ Kilo * cap = cap * Kilo
            /\ cap * Kilo \in Nat
        BY <1>2, <2>1, SMT
      <3> QED
        BY <1>2, <1>5, <2>4, <3>1, <3>2, SMT
    <2>6. Level(grown) = Kilo * c + rest
      BY <2>2, <2>4 DEF Level
    <2>7. Lesser(cap * Kilo, Level(b) + r * e) = Kilo * c + rest
      <3>1. cap * Kilo \in Nat
        BY <1>2, Product
      <3> QED
        BY <2>3, <2>4, <2>5, <3>1, <1>5, SMT DEF Lesser
    <2>8. Valid(grown, cap)
      BY <1>2, <2>1, <2>2, SMT DEF Valid
    <2> QED
      BY <2>2, <2>6, <2>7, <2>8
  <1>11. CASE earned >= missing
    <2>1. TooMuch(missing, s, r)
      BY <1>1, <1>2, <1>3, <1>11, TooMuchIsProduct
    <2>2. Earn(b, r, cap, e) = filled
      BY <1>0, <1>3, <2>1
    <2>3. missing <= sofar + extra
      BY <1>3, <1>4, <1>5, <1>11, SMT
    <2> QED
      BY <1>8, <1>9, <2>2, <2>3
  <1>12. CASE earned < missing
    <2>1. ~TooMuch(missing, s, r)
      BY <1>1, <1>2, <1>3, <1>4, <1>12, TooMuchIsProduct, SMT
    <2>2. Wrap(s * r) = s * r
      BY <1>2, <1>3, <1>4, <1>12, WrapFits, SMT DEF Word
    <2>3. missing - s * r \in 1 .. MaxWord
          /\ Wrap(missing - s * r) = missing - s * r
      BY <1>2, <1>3, <1>4, <1>12, WrapFits, SMT DEF Word
    <2>4. CASE m * w >= missing - s * r
      <3>1. TooMuch(missing - s * r, m, w)
        BY <1>1, <2>3, <2>4, TooMuchIsProduct
      <3>2. Earn(b, r, cap, e) = filled
        BY <1>0, <1>3, <2>1, <2>2, <2>3, <3>1
      <3>3. missing <= sofar + extra
        BY <1>3, <1>4, <1>5, <2>4, SMT
      <3> QED
        BY <1>8, <1>9, <3>2, <3>3
    <2>5. CASE m * w < missing - s * r
      <3>1. ~TooMuch(missing - s * r, m, w)
        BY <1>1, <1>3, <1>4, <2>3, <2>5, TooMuchIsProduct, SMT
      <3>2. Wrap(s * r + m * w) = s * r + m * w
        BY <1>2, <1>3, <1>4, <2>5, WrapFits, SMT DEF Word
      <3>3. Wrap(missing - (s * r + m * w)) = missing - (s * r + m * w)
        BY <1>2, <1>3, <1>4, <2>5, WrapFits, SMT DEF Word
      <3>4. CASE extra >= missing - sofar
        <4>1. Earn(b, r, cap, e) = filled
          BY <1>0, <1>3, <1>6, <2>1, <2>2, <2>3, <3>1, <3>2, <3>3, <3>4
             DEF extra
        <4>2. missing <= sofar + extra
          BY <1>3, <1>4, <1>5, <3>4, SMT
        <4> QED
          BY <1>8, <1>9, <4>1, <4>2
      <3>5. CASE ~(extra >= missing - sofar)
        <4>1. sofar + extra < missing
          BY <1>3, <1>4, <1>5, <3>5, SMT
        <4>2. Wrap(b.credit + (s * r + m * w) + extra)
                = b.credit + (s * r + m * w) + extra
          BY <1>2, <1>3, <1>4, <1>5, <4>1, WrapFits, SMT DEF Word
        <4>3. Earn(b, r, cap, e) = grown
          BY <1>0, <1>3, <1>6, <2>1, <2>2, <2>3, <3>1, <3>2, <3>3, <3>5, <4>2
             DEF extra, rest
        <4> QED
          BY <1>10, <4>1, <4>3
      <3> QED
        BY <3>4, <3>5
    <2> QED
      BY <1>3, <1>4, <2>4, <2>5, SMT
  <1> QED
    BY <1>3, <1>4, <1>11, <1>12, SMT

(* A valid bucket holds at most its capacity.                              *)
LEMMA LevelBound ==
    ASSUME NEW cap \in Word, NEW b, Valid(b, cap)
    PROVE  /\ Level(b) \in Nat /\ cap * Kilo \in Nat
           /\ Level(b) <= cap * Kilo
           /\ b.credit = cap => Level(b) = cap * Kilo
  <1> USE RateBucketAssumption
  <1>1. /\ b.credit \in Nat /\ b.credit <= cap /\ cap \in Nat
        /\ b.remainder \in Nat /\ b.remainder < Kilo /\ Kilo \in Nat
        /\ b.credit = cap => b.remainder = 0
    BY SMT DEF Valid, Buckets, Word
  <1>2. Kilo * b.credit \in Nat /\ Kilo * cap \in Nat
        /\ Kilo * b.credit = b.credit * Kilo /\ Kilo * cap = cap * Kilo
    BY <1>1, SMT
  <1>3. CASE b.credit = cap
    BY <1>1, <1>2, <1>3, SMT DEF Level
  <1>4. CASE b.credit # cap
    <2>1. Kilo * (b.credit + 1) <= Kilo * cap
      BY <1>1, <1>4, Product, SMT
    <2>2. Kilo * (b.credit + 1) = Kilo * b.credit + Kilo
      BY <1>1, SMT
    <2> QED
      BY <1>1, <1>2, <1>4, <2>1, <2>2, SMT DEF Level
  <1> QED
    BY <1>3, <1>4

(* A refill counts no more time than has passed.                           *)
LEMMA ElapsedBound ==
    ASSUME NEW b \in Buckets, NEW st \in 1 .. MaxWord, NEW t \in Word
    PROVE  /\ Elapsed(b, st, t) \in Nat
           /\ b.last + Elapsed(b, st, t) \in Word
  <1> USE RateBucketAssumption
  <1>1. b.last \in Word /\ t \in Nat /\ st \in Nat \ {0}
    BY SMT DEF Buckets, Word
  <1>2. CASE b.has_clock /\ t > b.last
    <2> DEFINE p == t - b.last
               q == p \div st
               x == p % st
    <2>1. p \in Nat
      BY <1>1, <1>2, SMT DEF Word
    <2>2. q \in Nat /\ x \in Nat /\ p = st * q + x
      BY <1>1, <2>1, Division
    <2>3. Elapsed(b, st, t) = p - x
      BY <1>2 DEF Elapsed
    <2>4. p = t - b.last
      OBVIOUS
    <2> HIDE DEF p, q, x
    <2>5. st * q \in Nat
      BY <1>1, <2>2, Product
    <2> QED
      BY <1>1, <2>1, <2>2, <2>3, <2>4, <2>5, SMT DEF Word
  <1>3. CASE ~(b.has_clock /\ t > b.last)
    BY <1>1, <1>3, SMT DEF Elapsed, Word
  <1> QED
    BY <1>2, <1>3

(* A valid bucket needs no clamping.                                       *)
LEMMA ClampSame ==
    ASSUME NEW cap \in Word, NEW b, Valid(b, cap)
    PROVE  Clamp(b, cap) = b
  <1>1. b \in Buckets /\ b.credit \in Nat /\ b.credit <= cap /\ cap \in Nat
    BY RateBucketAssumption, SMT DEF Valid, Buckets, Word
  <1>2. CASE b.credit >= cap
    <2>1. b.credit = cap /\ b.remainder = 0
      BY <1>1, <1>2, SMT DEF Valid
    <2>2. [b EXCEPT !.credit = cap, !.remainder = 0] = b
      BY <1>1, <2>1 DEF Buckets
    <2> QED
      BY <1>2, <2>2 DEF Clamp
  <1>3. CASE ~(b.credit >= cap)
    BY <1>3 DEF Clamp
  <1> QED
    BY <1>2, <1>3

(* ratebucketRefill adds exactly what the elapsed time earns, up to the    *)
(* capacity, for any bucket, rate, step and clock.                         *)
LEMMA RefillExact ==
    ASSUME NEW cap \in Word, NEW b, Valid(b, cap), NEW r \in Word,
           NEW st \in 1 .. MaxWord, NEW t \in Word
    PROVE  /\ Valid(Refill(b, r, cap, st, t), cap)
           /\ Level(Refill(b, r, cap, st, t))
                = Lesser(cap * Kilo, Level(b) + r * Elapsed(b, st, t))
  <1> USE RateBucketAssumption
  <1> DEFINE e == Elapsed(b, st, t)
             c == [b EXCEPT !.last = @ + e]
             started == [b EXCEPT !.last = t, !.has_clock = TRUE]
  <1>1. b \in Buckets /\ b.credit \in Nat /\ b.credit <= cap /\ cap \in Nat
    BY SMT DEF Valid, Buckets, Word
  <1>2. e \in Nat /\ b.last + e \in Word
    BY <1>1, ElapsedBound
  <1>3. Level(b) \in Nat /\ cap * Kilo \in Nat /\ Level(b) <= cap * Kilo
    BY LevelBound
  <1>4. r \in Nat /\ r * e \in Nat
    BY <1>2, Product DEF Word
  <1>5. Clamp(b, cap) = b
    BY ClampSame
  <1>6. ASSUME r * e = 0
        PROVE  Lesser(cap * Kilo, Level(b) + r * e) = Level(b)
    BY <1>3, <1>6, SMT DEF Lesser
  <1>7. ASSUME b.credit = cap
        PROVE  Lesser(cap * Kilo, Level(b) + r * e) = Level(b)
    <2>1. Level(b) = cap * Kilo
      BY <1>7, LevelBound
    <2> QED
      BY <1>3, <1>4, <2>1, SMT DEF Lesser
  <1>8. /\ c \in Buckets /\ c.credit = b.credit /\ c.remainder = b.remainder
        /\ Level(c) = Level(b) /\ Valid(c, cap)
    <2>1. c \in Buckets
      BY <1>1, <1>2 DEF Buckets
    <2>2. c.credit = b.credit /\ c.remainder = b.remainder
      BY <1>1 DEF Buckets
    <2> HIDE DEF c
    <2> QED
      BY <2>1, <2>2 DEF Level, Valid
  <1>9. /\ started \in Buckets /\ started.credit = b.credit
        /\ started.remainder = b.remainder
        /\ Level(started) = Level(b) /\ Valid(started, cap)
    <2>1. started \in Buckets
      BY <1>1 DEF Buckets
    <2>2. started.credit = b.credit /\ started.remainder = b.remainder
      BY <1>1 DEF Buckets
    <2> HIDE DEF started
    <2> QED
      BY <2>1, <2>2 DEF Level, Valid
  <1>10. CASE ~b.has_clock
    <2>1. Refill(b, r, cap, st, t) = started
      BY <1>5, <1>10 DEF Refill
    <2>2. e = 0
      BY <1>10 DEF Elapsed
    <2>3. r * e = 0
      BY <1>4, <2>2, SMT
    <2> QED
      BY <1>6, <1>9, <2>1, <2>3
  <1>11. CASE b.has_clock /\ t <= b.last
    <2>1. Refill(b, r, cap, st, t) = b
      BY <1>5, <1>11 DEF Refill
    <2>2. b.last \in Int /\ t \in Int
      BY <1>1, SMT DEF Buckets, Word
    <2>3. ~(t > b.last)
      BY <1>11, <2>2, SMT
    <2>4. e = 0
      BY <2>3 DEF Elapsed
    <2>5. r * e = 0
      BY <1>4, <2>4, SMT
    <2> QED
      BY <1>6, <2>1, <2>5
  <1>12. CASE b.has_clock /\ ~(t <= b.last)
    <2>1. b.last \in Int /\ t \in Int
      BY <1>1, SMT DEF Buckets, Word
    <2>2. t > b.last
      BY <1>12, <2>1, SMT
    <2>3. e = (t - b.last) - ((t - b.last) % st)
      BY <1>12, <2>2 DEF Elapsed
    <2>4. Refill(b, r, cap, st, t) =
            IF e = 0 \/ b.credit = cap \/ r = 0 THEN c
            ELSE Earn(c, r, cap, e)
      BY <1>5, <1>12, <2>3 DEF Refill
    <2> HIDE DEF e, c
    <2>5. CASE e = 0 \/ r = 0
      <3>1. r * e = 0
        BY <1>2, <1>4, <2>5, SMT
      <3> QED
        BY <1>6, <1>8, <2>4, <2>5, <3>1 DEF e
    <2>6. CASE b.credit = cap
      BY <1>7, <1>8, <2>4, <2>6 DEF e
    <2>7. CASE ~(e = 0 \/ b.credit = cap \/ r = 0)
      <3>1. c.credit < cap
        BY <1>1, <1>8, <2>7, SMT
      <3>2. /\ Valid(Earn(c, r, cap, e), cap)
            /\ Level(Earn(c, r, cap, e)) = Lesser(cap * Kilo, Level(c) + r * e)
        BY <1>2, <1>8, <3>1, EarnExact
      <3> QED
        BY <1>8, <2>4, <2>7, <3>2 DEF e
    <2> QED
      BY <2>5, <2>6, <2>7
  <1> QED
    BY <1>10, <1>11, <1>12

(* A refill moves the time of the last one by the steps it counts, and the *)
(* first one starts the clock.                                             *)
LEMMA RefillTime ==
    ASSUME NEW cap \in Word, NEW b, Valid(b, cap), NEW r \in Word,
           NEW st \in 1 .. MaxWord, NEW t \in Word
    PROVE  LET n == Refill(b, r, cap, st, t)
           IN  /\ n.has_clock
               /\ n.last = IF b.has_clock THEN b.last + Elapsed(b, st, t) ELSE t
  <1> USE RateBucketAssumption
  <1> DEFINE e == Elapsed(b, st, t)
             c == [b EXCEPT !.last = @ + e]
             n == Refill(b, r, cap, st, t)
  <1>1. b \in Buckets /\ b.last \in Nat /\ t \in Nat /\ cap \in Nat
        /\ b.credit \in Nat
    BY SMT DEF Valid, Buckets, Word
  <1>2. Clamp(b, cap) = b
    BY ClampSame
  <1>3. CASE ~b.has_clock
    <2>1. n = [b EXCEPT !.last = t, !.has_clock = TRUE]
      BY <1>2, <1>3 DEF Refill
    <2> HIDE DEF n
    <2>2. n.has_clock /\ n.last = t
      BY <1>1, <2>1 DEF Buckets
    <2> QED
      BY <1>3, <2>2 DEF n
  <1>4. CASE b.has_clock /\ ~(t > b.last)
    <2>1. n = b
      BY <1>1, <1>2, <1>4, SMT DEF Refill
    <2>2. e = 0
      BY <1>4 DEF Elapsed
    <2>3. b.last + e = b.last
      BY <1>1, <2>2, SMT
    <2> QED
      BY <1>4, <2>1, <2>3
  <1>5. CASE b.has_clock /\ t > b.last
    <2>1. e = (t - b.last) - ((t - b.last) % st)
      BY <1>5 DEF Elapsed
    <2>2. ~(t <= b.last)
      BY <1>1, <1>5, SMT
    <2>3. n = IF e = 0 \/ b.credit = cap \/ r = 0 THEN c
              ELSE Earn(c, r, cap, e)
      BY <1>2, <1>5, <2>1, <2>2 DEF Refill
    <2>4. c \in [credit : Word, last : Int, remainder : 0 .. Kilo - 1,
                 has_clock : BOOLEAN]
          /\ c.last = b.last + e /\ c.has_clock
      <3>1. e \in Nat /\ b.last + e \in Word
        BY <1>1, ElapsedBound
      <3> HIDE DEF e
      <3>2. b.last + e \in Int
        BY <3>1, SMT DEF Word
      <3> QED
        BY <1>1, <1>5, <3>2 DEF Buckets
    <2> HIDE DEF c, e, n
    <2>5. Earn(c, r, cap, e).last = c.last
          /\ Earn(c, r, cap, e).has_clock = c.has_clock
      BY <2>4 DEF Earn, Full
    <2> QED
      BY <1>5, <2>3, <2>4, <2>5 DEF n, e
  <1> QED
    BY <1>3, <1>4, <1>5

-----------------------------------------------------------------------------
(* The form in which SpeedLimit keeps the bucket between two operations is *)
(* exact: the units of a bucket fit into the word, and reading them back   *)
(* gives the same bytes and thousandths.                                   *)
LEMMA StoredExact ==
    ASSUME policy \in Policies, NEW b, Valid(b, policy.capacity)
    PROVE  /\ Valid(Stored(b), policy.capacity)
           /\ Level(Stored(b)) = Level(b)
           /\ Stored(b).last = b.last
           /\ b.has_clock => Stored(b).has_clock
  <1> USE RateBucketAssumption
  <1>1. CASE ~policy.units
    BY <1>1 DEF Stored
  <1>2. CASE policy.units
    <2> DEFINE cap == policy.capacity
               tokens == b.credit * Kilo + b.remainder
               n == Stored(b)
    <2>1. cap \in Word /\ cap = policy.rate /\ cap * Kilo <= MaxWord
      BY <1>2 DEF Word
    <2>2. /\ b \in Buckets /\ b.credit \in Nat /\ b.remainder \in 0 .. Kilo - 1
          /\ Kilo \in Nat \ {0}
      BY DEF Valid, Buckets, Word
    <2>3. tokens \in Nat /\ tokens <= cap * Kilo /\ cap * Kilo \in Nat
      BY <2>1, LevelBound DEF Level
    <2>4. tokens \in Word
      BY <2>1, <2>3, SMT DEF Word
    <2>5. Wrap(tokens) = tokens
      BY <2>4, WrapFits
    <2>6. tokens \div Kilo = b.credit /\ tokens % Kilo = b.remainder
      BY <2>2, DivisionUnique
    <2>7. n = [b EXCEPT !.credit = b.credit, !.remainder = b.remainder,
                        !.has_clock = @ \/ b.last # 0]
      BY <1>2, <2>5, <2>6 DEF Stored
    <2>8. n \in Buckets
      BY <2>2, <2>7, Zenon DEF Buckets
    <2>9. n.credit = b.credit /\ n.remainder = b.remainder /\ n.last = b.last
      BY <2>2, <2>7 DEF Buckets
    <2>10. b.has_clock => n.has_clock
      BY <2>2, <2>7, Zenon DEF Buckets
    <2> HIDE DEF n
    <2>11. Valid(n, policy.capacity) /\ Level(n) = Level(b)
      BY <2>8, <2>9 DEF Valid, Level
    <2> QED
      BY <2>9, <2>10, <2>11 DEF n
  <1> QED
    BY <1>1, <1>2

(* Why CreditExact holds: the bucket is valid, the history counts its      *)
(* thousandths, and the two have counted the same time.                    *)
CreditBooks ==
    /\ policy \in Policies
    /\ now \in [Workers -> Word]
    /\ Valid(bucket, policy.capacity)
    /\ units = Level(bucket)
    /\ since = IF bucket.has_clock THEN bucket.last ELSE -1

(* The books are right at the start,                                       *)
LEMMA BooksOpened ==
    ASSUME BucketInit
    PROVE  CreditBooks
  <1> USE RateBucketAssumption DEF BucketInit
  <1>1. policy \in Policies /\ policy.capacity \in Word
    BY DEF Word
  <1>2. now \in [Workers -> Word]
    BY SMT DEF Word
  <1>3. bucket \in Buckets /\ bucket.credit = policy.capacity
        /\ bucket.remainder = 0
    BY <1>1, SMT DEF Buckets, Word
  <1>4. policy.capacity <= policy.capacity
    BY <1>1, SMT DEF Word
  <1>5. Valid(bucket, policy.capacity)
    BY <1>3, <1>4 DEF Valid
  <1>6. since = IF bucket.has_clock THEN bucket.last ELSE -1
    BY SMT
  <1> QED
    BY <1>1, <1>2, <1>5, <1>6 DEF CreditBooks

(* What a worker finds after a refill, and that the history agrees.        *)
LEMMA RefilledExact ==
    ASSUME CreditBooks, NEW w \in Workers
    PROVE  /\ Valid(Refilled(now[w]), policy.capacity)
           /\ Level(Refilled(now[w])) = Exact(now[w])
           /\ Refilled(now[w]).has_clock
           /\ EarnedUpTo(now[w]) => since' = Refilled(now[w]).last
  <1>1. /\ policy.capacity \in Word /\ policy.rate \in Word
        /\ policy.step \in 1 .. MaxWord /\ now[w] \in Word
    BY RateBucketAssumption DEF CreditBooks, Word
  <1>2. Valid(bucket, policy.capacity) /\ units = Level(bucket)
    BY DEF CreditBooks
  <1>3. /\ Steps(now[w]) = Elapsed(bucket, policy.step, now[w])
        /\ since = -1 <=> ~bucket.has_clock
    <2>1. bucket.last \in Nat /\ bucket.has_clock \in BOOLEAN
      BY <1>2, RateBucketAssumption, SMT DEF Valid, Buckets, Word
    <2>2. CASE bucket.has_clock
      <3>1. since = bucket.last
        BY <2>2 DEF CreditBooks
      <3>2. since >= 0 /\ since # -1
        BY <2>1, <3>1, SMT
      <3> QED
        BY <2>2, <3>1, <3>2 DEF Steps, Elapsed
    <2>3. CASE ~bucket.has_clock
      <3>1. since = -1
        BY <2>3 DEF CreditBooks
      <3>2. ~(since >= 0)
        BY <3>1, SMT
      <3> QED
        BY <2>3, <3>1, <3>2 DEF Steps, Elapsed
    <2> QED
      BY <2>1, <2>2, <2>3
  <1>4. Exact(now[w])
          = Lesser(policy.capacity * Kilo,
                   units + policy.rate * Elapsed(bucket, policy.step, now[w]))
    BY <1>3 DEF Exact
  <1>5. /\ Refilled(now[w]).has_clock
        /\ Refilled(now[w]).last
              = IF bucket.has_clock
                THEN bucket.last + Elapsed(bucket, policy.step, now[w])
                ELSE now[w]
    BY <1>1, <1>2, RefillTime DEF Refilled
  <1>6. EarnedUpTo(now[w]) => since' = Refilled(now[w]).last
    BY <1>3, <1>5 DEF EarnedUpTo, CreditBooks
  <1> QED
    BY <1>1, <1>2, <1>4, <1>5, <1>6, RefillExact DEF Refilled

(* A grant never exceeds the credit, and takes whole bytes.                *)
LEMMA GrantExact ==
    ASSUME NEW cap \in Word, NEW b, Valid(b, cap), NEW n \in Requests,
           NEW partial \in BOOLEAN
    PROVE  LET g == Grant(b, n, partial)
               d == [b EXCEPT !.credit = @ - g]
           IN  /\ Valid(d, cap) /\ Level(d) = Level(b) - g * Kilo
               /\ d.last = b.last /\ (b.has_clock => d.has_clock)
  <1> USE RateBucketAssumption
  <1> DEFINE g == Grant(b, n, partial)
             d == [b EXCEPT !.credit = @ - g]
  <1>1. /\ b \in Buckets /\ b.credit \in Nat /\ b.credit <= cap
        /\ b.credit <= MaxWord /\ cap \in Nat /\ n \in Nat
        /\ b.remainder \in Nat /\ Kilo \in Nat
        /\ b.credit = cap => b.remainder = 0
    BY SMT DEF Valid, Buckets, Word
  <1>2. g \in Nat /\ g <= b.credit
    BY <1>1, SMT DEF Grant
  <1> HIDE DEF g
  <1>3. /\ d \in Buckets /\ d.credit = b.credit - g
        /\ d.remainder = b.remainder
        /\ d.last = b.last /\ (b.has_clock => d.has_clock)
    <2>1. b.credit - g \in Word
      BY <1>1, <1>2, SMT DEF Word
    <2> QED
      BY <1>1, <2>1 DEF Buckets
  <1> HIDE DEF d
  <1>4. Valid(d, cap)
    BY <1>1, <1>2, <1>3, SMT DEF Valid
  <1>5. (b.credit - g) * Kilo = b.credit * Kilo - g * Kilo
    BY <1>1, <1>2, SMT
  <1>6. b.credit * Kilo \in Nat /\ g * Kilo \in Nat
    BY <1>1, <1>2, Product
  <1>7. Level(d) = Level(b) - g * Kilo
    BY <1>1, <1>3, <1>5, <1>6, SMT DEF Level
  <1> QED
    BY <1>3, <1>4, <1>7 DEF d, g

(* and after every step.                                                   *)
LEMMA BooksKept ==
    ASSUME CreditBooks, [BucketNext]_bucketVars
    PROVE  CreditBooks'
  <1> USE RateBucketAssumption
  <1>1. policy \in Policies /\ policy.capacity \in Word
    BY DEF CreditBooks, Word
  <1>2. CASE UNCHANGED bucketVars
    BY <1>2 DEF bucketVars, CreditBooks, Valid, Level
  <1>3. ASSUME NEW w \in Workers, Tick(w) PROVE CreditBooks'
    <2>1. now' \in [Workers -> Word]
      <3>1. now \in [Workers -> Word]
        BY DEF CreditBooks
      <3>2. PICK d \in Ticks :
                now' = [now EXCEPT ![w] = Lesser(@ + d, MaxWord)]
        BY <1>3 DEF Tick
      <3>3. Lesser(now[w] + d, MaxWord) \in Word
        BY <3>1, SMT DEF Lesser, Word
      <3> QED
        BY <3>1, <3>2, <3>3
    <2> QED
      BY <1>3, <2>1 DEF Tick, CreditBooks, Valid, Level
  <1>4. ASSUME NEW w \in Workers, Take(w) PROVE CreditBooks'
    <2> DEFINE b == Refilled(now[w])
    <2>1. PICK n \in Requests, partial \in BOOLEAN :
            /\ bucket' = Stored([b EXCEPT !.credit = @ - Grant(b, n, partial)])
            /\ units' = Exact(now[w]) - Grant(b, n, partial) * Kilo
            /\ EarnedUpTo(now[w])
      BY <1>4 DEF Take
    <2>2. /\ Valid(b, policy.capacity) /\ Level(b) = Exact(now[w])
          /\ b.has_clock /\ since' = b.last
      BY <2>1, RefilledExact
    <2> DEFINE d == [b EXCEPT !.credit = @ - Grant(b, n, partial)]
    <2>3. /\ Valid(d, policy.capacity)
          /\ Level(d) = Level(b) - Grant(b, n, partial) * Kilo
          /\ d.last = b.last /\ (b.has_clock => d.has_clock)
      BY <1>1, <2>2, GrantExact
    <2>4. /\ Valid(Stored(d), policy.capacity) /\ Level(Stored(d)) = Level(d)
          /\ Stored(d).last = d.last /\ (d.has_clock => Stored(d).has_clock)
      BY <1>1, <2>3, StoredExact
    <2>5. /\ bucket' = Stored(d) /\ units' = Level(d)
          /\ since' = IF Stored(d).has_clock THEN Stored(d).last ELSE -1
      BY <2>1, <2>2, <2>3, <2>4
    <2> HIDE DEF b, d
    <2>6. policy' = policy /\ now' = now
      BY <1>4 DEF Take
    <2> QED
      BY <2>4, <2>5, <2>6 DEF CreditBooks, Valid, Level
  <1>5. ASSUME NEW w \in Workers, Peek(w) PROVE CreditBooks'
    <2> DEFINE b == Refilled(now[w])
    <2>1. /\ Valid(b, policy.capacity) /\ Level(b) = Exact(now[w])
          /\ b.has_clock /\ since' = b.last
      BY <1>5, RefilledExact DEF Peek
    <2>2. /\ Valid(Stored(b), policy.capacity) /\ Level(Stored(b)) = Level(b)
          /\ Stored(b).last = b.last /\ (b.has_clock => Stored(b).has_clock)
      BY <1>1, <2>1, StoredExact
    <2>3. /\ bucket' = Stored(b) /\ units' = Level(b)
          /\ since' = IF Stored(b).has_clock THEN Stored(b).last ELSE -1
      BY <1>5, <2>1, <2>2 DEF Peek
    <2> HIDE DEF b
    <2>4. policy' = policy /\ now' = now
      BY <1>5 DEF Peek
    <2> QED
      BY <2>2, <2>3, <2>4 DEF CreditBooks, Valid, Level
  <1> QED
    BY <1>2, <1>3, <1>4, <1>5 DEF BucketNext

(* CreditExact, for every policy SpeedLimit and the users accept, every    *)
(* word, every number of workers and clock readings: the refill and the    *)
(* units SpeedLimit stores neither create nor lose a thousandth.           *)
THEOREM CreditKept == BucketSpec => []CreditExact
  <1>1. BucketInit => CreditBooks
    BY BooksOpened
  <1>2. CreditBooks /\ [BucketNext]_bucketVars => CreditBooks'
    BY BooksKept
  <1>3. CreditBooks => CreditExact
    BY RateBucketAssumption, SMT DEF CreditBooks, CreditExact, Valid, Buckets
  <1> QED
    BY <1>1, <1>2, <1>3, PTL DEF BucketSpec

(* No policy ever lets the bucket hold more than its capacity, so that a   *)
(* burst is bounded by it.                                                 *)
THEOREM BurstBounded ==
    BucketSpec => [](Level(bucket) <= policy.capacity * Kilo)
  <1>1. BucketInit => CreditBooks
    BY BooksOpened
  <1>2. CreditBooks /\ [BucketNext]_bucketVars => CreditBooks'
    BY BooksKept
  <1>3. CreditBooks => Level(bucket) <= policy.capacity * Kilo
    BY LevelBound, RateBucketAssumption DEF CreditBooks, Word
  <1> QED
    BY <1>1, <1>2, <1>3, PTL DEF BucketSpec
=============================================================================
