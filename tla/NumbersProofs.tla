--------------------------- MODULE NumbersProofs ---------------------------
(***************************************************************************)
(* What parseEther makes of an amount, for floats of every precision and   *)
(* coins of any number of decimals.                                        *)
(*                                                                         *)
(* What recursive functions compute is proved by induction over a set of   *)
(* natural numbers, which needs no operator to be instantiated.            *)
(***************************************************************************)
EXTENDS Numbers, WellFoundedInduction, TLAPS

-----------------------------------------------------------------------------
(* Induction.                                                              *)

\* A set of numbers that is not empty has a least one.
LEMMA LeastOf ==
  ASSUME NEW T, T \subseteq Nat, T # {}
  PROVE  \E x \in T : \A y \in T : x <= y
<1> DEFINE R == OpToRel(<, Nat)
<1>1. \E x \in T : \A y \in T : ~(<<y, x>> \in R)
  <2>1. IsWellFoundedOn(R, Nat)
    BY NatLessThanWellFounded
  <2> HIDE DEF R
  <2> QED
    BY <2>1, WFMin
<1>2. PICK x \in T : \A y \in T : ~(<<y, x>> \in R)
  BY <1>1
<1>3. \A y \in T : ~(y < x)
  BY <1>2 DEF OpToRel
<1> QED
  BY <1>3

LEMMA SetInduction ==
  ASSUME NEW S, 0 \in S, \A n \in Nat : n \in S => n + 1 \in S
  PROVE  Nat \subseteq S
<1> DEFINE T == {n \in Nat : n \notin S}
<1> SUFFICES ASSUME T # {} PROVE FALSE
  OBVIOUS
<1>1. PICK x \in T : \A y \in T : x <= y
  BY LeastOf
<1>2. x # 0 /\ x - 1 \in Nat /\ x - 1 \notin T
  BY <1>1
<1> QED
  BY <1>1, <1>2

LEMMA StrongInduction ==
  ASSUME NEW S, \A n \in Nat : (\A k \in Nat : k < n => k \in S) => n \in S
  PROVE  Nat \subseteq S
<1> DEFINE T == {n \in Nat : n \notin S}
<1> SUFFICES ASSUME T # {} PROVE FALSE
  OBVIOUS
<1>1. PICK x \in T : \A y \in T : x <= y
  BY LeastOf
<1>2. \A k \in Nat : k < x => k \in S
  BY <1>1
<1> QED
  BY <1>1, <1>2

-----------------------------------------------------------------------------
(* Powers.                                                                 *)

IsPowers(b, f) == f = [k \in Nat |-> IF k = 0 THEN 1 ELSE b * f[k - 1]]

\* The powers up to the n-th.
ArePowersTo(b, n, g) == \A k \in 0 .. n : g[k] = IF k = 0 THEN 1 ELSE b * g[k - 1]

LEMMA PowersExist ==
  ASSUME NEW b
  PROVE  \E f : IsPowers(b, f)
<1>1. ASSUME NEW g, NEW h, NEW n \in Nat, NEW m \in Nat,
             ArePowersTo(b, n, g), ArePowersTo(b, m, h)
      PROVE  \A k \in Nat : k <= n /\ k <= m => g[k] = h[k]
  <2> DEFINE S == {k \in Nat : k <= n /\ k <= m => g[k] = h[k]}
  <2>1. 0 \in S
    BY <1>1 DEF ArePowersTo
  <2>2. ASSUME NEW k \in Nat, k \in S PROVE k + 1 \in S
    <3> SUFFICES ASSUME k + 1 <= n, k + 1 <= m PROVE g[k + 1] = h[k + 1]
      OBVIOUS
    <3>1. g[k] = h[k] /\ k + 1 \in 0 .. n /\ k + 1 \in 0 .. m /\ k + 1 # 0 /\ (k + 1) - 1 = k
      BY <2>2
    <3> QED
      BY <1>1, <3>1 DEF ArePowersTo
  <2> HIDE DEF S
  <2>3. Nat \subseteq S
    BY <2>1, <2>2, SetInduction
  <2> QED
    BY <2>3 DEF S
<1>2. \A n \in Nat : \E g : ArePowersTo(b, n, g)
  <2> DEFINE S == {n \in Nat : \E g : ArePowersTo(b, n, g)}
  <2>1. 0 \in S
    <3>1. ArePowersTo(b, 0, [k \in Nat |-> 1])
      BY DEF ArePowersTo
    <3> QED
      BY <3>1
  <2>2. ASSUME NEW n \in Nat, n \in S PROVE n + 1 \in S
    <3>1. PICK g : ArePowersTo(b, n, g)
      BY <2>2
    <3> DEFINE h == [k \in Nat |-> IF k = n + 1 THEN b * g[n] ELSE g[k]]
    <3>2. ASSUME NEW k \in 0 .. n + 1
          PROVE  h[k] = IF k = 0 THEN 1 ELSE b * h[k - 1]
      <4>1. CASE k = n + 1
        BY <4>1
      <4>2. CASE k \in 0 .. n
        BY <3>1, <4>2 DEF ArePowersTo
      <4> QED
        BY <4>1, <4>2
    <3>3. ArePowersTo(b, n + 1, h)
      BY <3>2 DEF ArePowersTo
    <3> QED
      BY <3>3
  <2> HIDE DEF S
  <2>3. Nat \subseteq S
    BY <2>1, <2>2, SetInduction
  <2> QED
    BY <2>3 DEF S
<1> DEFINE G(n) == CHOOSE g : ArePowersTo(b, n, g)
           f == [k \in Nat |-> G(k)[k]]
<1>3. \A n \in Nat : ArePowersTo(b, n, G(n))
  BY <1>2
<1>4. ASSUME NEW k \in Nat
      PROVE  f[k] = IF k = 0 THEN 1 ELSE b * f[k - 1]
  <2>1. f[k] = G(k)[k] /\ G(k)[k] = IF k = 0 THEN 1 ELSE b * G(k)[k - 1]
    BY <1>3 DEF ArePowersTo
  <2>2. ASSUME k # 0 PROVE G(k)[k - 1] = G(k - 1)[k - 1] /\ f[k - 1] = G(k - 1)[k - 1]
    <3>1. k - 1 \in Nat /\ k - 1 <= k
      BY <2>2
    <3> HIDE DEF G
    <3>2. G(k)[k - 1] = G(k - 1)[k - 1]
      BY <1>1, <1>3, <3>1
    <3> QED
      BY <3>1, <3>2
  <2> QED
    BY <2>1, <2>2
<1>5. f = [k \in Nat |-> IF k = 0 THEN 1 ELSE b * f[k - 1]]
  <2> DEFINE g == [k \in Nat |-> IF k = 0 THEN 1 ELSE b * f[k - 1]]
  <2>1. \A k \in Nat : f[k] = g[k]
    BY <1>4
  <2> QED
    BY <2>1
<1>6. IsPowers(b, f)
  BY <1>5 DEF IsPowers
<1> QED
  BY <1>6

LEMMA PowUnfolds ==
  ASSUME NEW b, NEW n \in Nat
  PROVE  Pow(b, 0) = 1 /\ Pow(b, n + 1) = b * Pow(b, n)
<1> DEFINE p == CHOOSE f : IsPowers(b, f)
<1>1. IsPowers(b, p)
  BY PowersExist
<1>2. \A k : Pow(b, k) = p[k]
  BY DEF Pow, IsPowers
<1> HIDE DEF p
<1>3. p[0] = 1 /\ p[n + 1] = b * p[n]
  BY <1>1 DEF IsPowers
<1> QED
  BY <1>2, <1>3

LEMMA PowIsPositive ==
  ASSUME NEW b \in Nat \ {0}, NEW n \in Nat
  PROVE  Pow(b, n) \in Nat \ {0}
<1> DEFINE S == {k \in Nat : Pow(b, k) \in Nat \ {0}}
<1>1. 0 \in S
  BY PowUnfolds
<1>2. ASSUME NEW k \in Nat, k \in S PROVE k + 1 \in S
  BY <1>2, PowUnfolds
<1> HIDE DEF S
<1>3. n \in S
  BY <1>1, <1>2, SetInduction
<1> QED
  BY <1>3 DEF S

LEMMA TwosDouble ==
  ASSUME NEW n \in Nat \ {0}
  PROVE  Pow(2, n - 1) \in Nat \ {0} /\ Pow(2, n) = 2 * Pow(2, n - 1)
<1> DEFINE j == n - 1
<1>1. j \in Nat /\ j + 1 = n
  OBVIOUS
<1> HIDE DEF j
<1>2. Pow(2, j) \in Nat \ {0} /\ Pow(2, j + 1) = 2 * Pow(2, j)
  BY <1>1, PowIsPositive, PowUnfolds
<1> QED
  BY <1>1, <1>2 DEF j

LEMMA PowOfSum ==
  ASSUME NEW b \in Nat \ {0}, NEW m \in Nat, NEW n \in Nat
  PROVE  Pow(b, m + n) = Pow(b, m) * Pow(b, n)
<1> DEFINE S == {k \in Nat : Pow(b, m + k) = Pow(b, m) * Pow(b, k)}
<1>1. 0 \in S
  BY PowUnfolds, PowIsPositive
<1>2. ASSUME NEW k \in Nat, k \in S PROVE k + 1 \in S
  <2>1. Pow(b, m + k + 1) = b * Pow(b, m + k) /\ Pow(b, k + 1) = b * Pow(b, k)
    BY PowUnfolds
  <2> DEFINE x == Pow(b, m)
             y == Pow(b, k)
  <2>2. x \in Nat /\ y \in Nat
    BY PowIsPositive
  <2>3. Pow(b, m + k) = x * y
    BY <1>2
  <2> HIDE DEF x, y
  <2>4. b * (x * y) = x * (b * y)
    BY <2>2
  <2>5. m + (k + 1) = m + k + 1
    OBVIOUS
  <2> QED
    BY <2>1, <2>3, <2>4, <2>5 DEF x, y
<1> HIDE DEF S
<1>3. n \in S
  BY <1>1, <1>2, SetInduction
<1> QED
  BY <1>3 DEF S

\* Products of numbers that are not negative keep their order.
LEMMA TimesKeepsOrder ==
  ASSUME NEW a \in Nat, NEW b \in Nat, NEW c \in Nat, a <= b
  PROVE  a * c <= b * c /\ c * a <= c * b
OBVIOUS

LEMMA PowGrows ==
  ASSUME NEW b \in Nat \ {0}, NEW m \in Nat, NEW n \in Nat, m <= n
  PROVE  Pow(b, m) <= Pow(b, n)
<1>1. n - m \in Nat /\ m + (n - m) = n
  OBVIOUS
<1>2. Pow(b, n) = Pow(b, m) * Pow(b, n - m)
  BY <1>1, PowOfSum
<1> DEFINE x == Pow(b, m)
           y == Pow(b, n - m)
<1>3. x \in Nat /\ y \in Nat /\ 1 <= y
  BY <1>1, PowIsPositive
<1> HIDE DEF x, y
<1>4. x * 1 <= x * y
  BY <1>3, TimesKeepsOrder
<1> QED
  BY <1>2, <1>3, <1>4 DEF x, y

LEMMA PowOfMore ==
  ASSUME NEW a \in Nat \ {0}, NEW b \in Nat \ {0}, a <= b, NEW n \in Nat
  PROVE  Pow(a, n) <= Pow(b, n)
<1> DEFINE S == {k \in Nat : Pow(a, k) <= Pow(b, k)}
<1>1. 0 \in S
  BY PowUnfolds
<1>2. ASSUME NEW k \in Nat, k \in S PROVE k + 1 \in S
  <2> DEFINE x == Pow(a, k)
             y == Pow(b, k)
  <2>1. x \in Nat /\ y \in Nat /\ x <= y
    BY <1>2, PowIsPositive
  <2> HIDE DEF x, y
  <2>2. a * x <= a * y /\ a * y <= b * y
    BY <2>1, TimesKeepsOrder
  <2>3. a * x <= b * y
    BY <2>1, <2>2
  <2> QED
    BY <2>3, PowUnfolds DEF x, y
<1> HIDE DEF S
<1>3. n \in S
  BY <1>1, <1>2, SetInduction
<1> QED
  BY <1>3 DEF S

LEMMA TwosAreUnbounded ==
  ASSUME NEW n \in Nat
  PROVE  n < Pow(2, n)
<1> DEFINE S == {k \in Nat : k < Pow(2, k)}
<1>1. 0 \in S
  BY PowUnfolds
<1>2. ASSUME NEW k \in Nat, k \in S PROVE k + 1 \in S
  BY <1>2, PowUnfolds, PowIsPositive
<1> HIDE DEF S
<1>3. n \in S
  BY <1>1, <1>2, SetInduction
<1> QED
  BY <1>3 DEF S

\* The order of powers of two is that of their exponents.
LEMMA TwosAreOrdered ==
  ASSUME NEW m \in Nat, NEW n \in Nat, Pow(2, m) < Pow(2, n)
  PROVE  m < n
<1> SUFFICES ASSUME n <= m PROVE FALSE
  OBVIOUS
<1>1. Pow(2, n) <= Pow(2, m) /\ Pow(2, n) \in Nat /\ Pow(2, m) \in Nat
  BY PowGrows, PowIsPositive
<1> QED
  BY <1>1

-----------------------------------------------------------------------------
(* The length of a number.                                                 *)

\* A function that halves its way down, as BitLen does, exists: it counts
\* the digits.
HasLength(n, k) == n < Pow(2, k) /\ (k = 0 \/ Pow(2, k - 1) <= n)

LEMMA LengthExists ==
  ASSUME NEW n \in Nat
  PROVE  \E k \in Nat : HasLength(n, k)
<1> DEFINE T == {k \in Nat : n < Pow(2, k)}
<1>1. n \in T
  BY TwosAreUnbounded
<1>2. PICK k \in T : \A j \in T : k <= j
  BY <1>1, LeastOf
<1>3. ASSUME k # 0 PROVE Pow(2, k - 1) <= n
  <2>1. k - 1 \in Nat /\ k - 1 \notin T
    BY <1>2, <1>3
  <2> QED
    BY <2>1, PowIsPositive
<1> QED
  BY <1>2, <1>3 DEF HasLength

LEMMA LengthIsUnique ==
  ASSUME NEW n \in Nat, NEW j \in Nat, NEW k \in Nat, HasLength(n, j), HasLength(n, k)
  PROVE  j = k
<1>1. ASSUME NEW i \in Nat, NEW l \in Nat, HasLength(n, i), HasLength(n, l), i < l
      PROVE  FALSE
  <2>1. Pow(2, i) <= Pow(2, l - 1)
    BY <1>1, PowGrows
  <2>2. Pow(2, i) \in Nat /\ Pow(2, l - 1) \in Nat /\ Pow(2, l - 1) <= n /\ n < Pow(2, i)
    BY <1>1, PowIsPositive DEF HasLength
  <2> QED
    BY <2>1, <2>2
<1> QED
  BY <1>1

\* Half of a number has a digit less.
LEMMA HalfIsShorter ==
  ASSUME NEW n \in Nat \ {0}, NEW k \in Nat, HasLength(n \div 2, k)
  PROVE  HasLength(n, k + 1)
<1> DEFINE h == n \div 2
           x == Pow(2, k)
<1>1. /\ h \in Nat /\ 2 * h <= n /\ n <= 2 * h + 1
      /\ x \in Nat /\ h < x /\ Pow(2, k + 1) = 2 * x
  <2>1. h \in Nat /\ 2 * h <= n /\ n <= 2 * h + 1
    OBVIOUS
  <2>2. x \in Nat
    BY PowIsPositive
  <2>3. h < x
    BY DEF HasLength
  <2>4. Pow(2, k + 1) = 2 * x
    BY PowUnfolds
  <2> QED
    BY <2>1, <2>2, <2>3, <2>4
<1>2. n < Pow(2, k + 1)
  <2> HIDE DEF h, x
  <2> QED
    BY <1>1
<1>3. Pow(2, k) <= n
  <2>1. CASE k = 0
    BY <2>1, PowUnfolds
  <2>2. CASE k # 0
    <3>1. k - 1 \in Nat /\ (k - 1) + 1 = k
      BY <2>2
    <3>2. Pow(2, k) = 2 * Pow(2, k - 1) /\ Pow(2, k - 1) <= h /\ Pow(2, k - 1) \in Nat
      BY <2>2, <3>1, PowUnfolds, PowIsPositive DEF HasLength
    <3> HIDE DEF h
    <3> QED
      BY <1>1, <3>2
  <2> QED
    BY <2>1, <2>2
<1> QED
  BY <1>2, <1>3 DEF HasLength

LEMMA BitLenUnfolds ==
  BitLen = [n \in Nat |-> IF n = 0 THEN 0 ELSE 1 + BitLen[n \div 2]]
<1> DEFINE f == [n \in Nat |-> CHOOSE k \in Nat : HasLength(n, k)]
           g == [n \in Nat |-> IF n = 0 THEN 0 ELSE 1 + f[n \div 2]]
<1>1. \A n \in Nat : f[n] \in Nat /\ HasLength(n, f[n])
  BY LengthExists
<1>2. ASSUME NEW n \in Nat PROVE f[n] = g[n]
  <2>1. CASE n = 0
    <3>1. HasLength(0, 0)
      BY PowUnfolds DEF HasLength
    <3>2. f[0] = 0
      BY <1>1, <3>1, LengthIsUnique
    <3> QED
      BY <2>1, <3>2
  <2>2. CASE n # 0
    <3>1. n \div 2 \in Nat
      OBVIOUS
    <3>2. f[n \div 2] \in Nat /\ HasLength(n \div 2, f[n \div 2])
      BY <1>1, <3>1
    <3>3. HasLength(n, f[n \div 2] + 1)
      BY <2>2, <3>2, HalfIsShorter
    <3>4. f[n] = f[n \div 2] + 1
      BY <1>1, <3>2, <3>3, LengthIsUnique
    <3>5. g[n] = 1 + f[n \div 2]
      BY <2>2
    <3> QED
      BY <3>2, <3>4, <3>5
  <2> QED
    BY <2>1, <2>2
<1>3. f = g
  BY <1>2
<1>4. \E h : h = [n \in Nat |-> IF n = 0 THEN 0 ELSE 1 + h[n \div 2]]
  BY <1>3
<1> QED
  BY <1>4 DEF BitLen

\* BitLen is the number of binary digits.
LEMMA BitLenIsLength ==
  ASSUME NEW n \in Nat
  PROVE  BitLen[n] \in Nat /\ HasLength(n, BitLen[n])
<1> DEFINE S == {k \in Nat : BitLen[k] \in Nat /\ HasLength(k, BitLen[k])}
<1>1. ASSUME NEW k \in Nat, \A j \in Nat : j < k => j \in S
      PROVE  k \in S
  <2>1. CASE k = 0
    <3>1. BitLen[0] = 0 /\ HasLength(0, 0)
      BY BitLenUnfolds, PowUnfolds DEF HasLength
    <3> QED
      BY <2>1, <3>1
  <2>2. CASE k # 0
    <3>1. k \div 2 \in Nat /\ k \div 2 < k
      BY <2>2
    <3>2. BitLen[k \div 2] \in Nat /\ HasLength(k \div 2, BitLen[k \div 2])
      BY <1>1, <3>1
    <3>3. BitLen[k] = 1 + BitLen[k \div 2]
      BY <2>2, BitLenUnfolds
    <3>4. HasLength(k, BitLen[k \div 2] + 1)
      BY <2>2, <3>2, HalfIsShorter
    <3> QED
      BY <3>2, <3>3, <3>4
  <2> QED
    BY <2>1, <2>2
<1> HIDE DEF S
<1>2. n \in S
  BY <1>1, StrongInduction
<1> QED
  BY <1>2 DEF S

-----------------------------------------------------------------------------
(* Rounding once.                                                          *)

LEMMA ProductIsNat ==
  ASSUME NEW a \in Nat, NEW b \in Nat
  PROVE  a * b \in Nat
OBVIOUS

LEMMA ProductIsPositive ==
  ASSUME NEW a \in Nat \ {0}, NEW b \in Nat \ {0}
  PROVE  a * b \in Nat \ {0}
OBVIOUS

\* A positive factor can be left out.
LEMMA FactorCancels ==
  ASSUME NEW a \in Nat, NEW b \in Nat, NEW c \in Nat \ {0}
  PROVE  /\ a * c <= b * c <=> a <= b
         /\ a * c < b * c <=> a < b
OBVIOUS

LEMMA NearestIsNear ==
  ASSUME NEW num \in Nat, NEW den \in Nat \ {0}
  PROVE  /\ Nearest(num, den) \in Nat
         /\ 2 * (Nearest(num, den) * den) <= 2 * num + den
         /\ 2 * num <= 2 * (Nearest(num, den) * den) + den
<1> DEFINE q == num \div den
           r == num % den
           m == Nearest(num, den)
<1>1. q \in Nat /\ r \in Nat /\ r < den /\ num = q * den + r
  OBVIOUS
<1>2. \/ m = q + 1 /\ den <= 2 * r
      \/ m = q /\ 2 * r <= den
  <2>1. m = IF 2 * r > den \/ (2 * r = den /\ q % 2 = 1) THEN q + 1 ELSE q
    BY DEF Nearest
  <2> HIDE DEF m, q, r
  <2> QED
    BY <1>1, <2>1
<1> HIDE DEF m, q, r
<1>3. q * den \in Nat /\ (q + 1) * den = q * den + den
  BY <1>1
<1> QED
  BY <1>1, <1>2, <1>3 DEF m

LEMMA ShiftIsPositive ==
  ASSUME NEW n \in Nat \ {0}, NEW s \in Int
  PROVE  Shift(n, s) \in Nat \ {0}
<1>1. CASE s > 0
  <2>1. Pow(2, s) \in Nat \ {0}
    BY <1>1, PowIsPositive
  <2> QED
    BY <1>1, <2>1, ProductIsPositive DEF Shift
<1> QED
  BY <1>1 DEF Shift

\* The quotient of two shifted numbers.
LEMMA ShiftIsRatio ==
  ASSUME NEW num \in Nat \ {0}, NEW den \in Nat \ {0}, NEW e \in Int,
         NEW k \in Nat, k + e >= 0
  PROVE  Shift(num, -e) * (den * Pow(2, k + e)) = Shift(den, e) * (num * Pow(2, k))
<1> DEFINE u == Pow(2, k)
           v == Pow(2, k + e)
<1>1. u \in Nat /\ v \in Nat
  BY PowIsPositive
<1>2. CASE e > 0
  <2> DEFINE s == Pow(2, e)
  <2>1. s \in Nat /\ v = u * s /\ Shift(den, e) = den * s /\ Shift(num, -e) = num
    BY <1>2, PowIsPositive, PowOfSum DEF Shift
  <2> HIDE DEF s, u, v
  <2>2. num * (den * (u * s)) = (den * s) * (num * u)
    BY <1>1, <2>1
  <2> QED
    BY <2>1, <2>2 DEF u, v
<1>3. CASE e = 0
  <2>1. v = u /\ Shift(den, e) = den /\ Shift(num, -e) = num
    BY <1>3 DEF Shift
  <2> HIDE DEF u, v
  <2>2. num * (den * u) = den * (num * u)
    BY <1>1
  <2> QED
    BY <2>1, <2>2 DEF u, v
<1>4. CASE e < 0
  <2> DEFINE s == Pow(2, -e)
  <2>1. -e \in Nat /\ k + e \in Nat /\ (k + e) + (-e) = k
    BY <1>4
  <2>2. s \in Nat /\ u = v * s /\ Shift(den, e) = den /\ Shift(num, -e) = num * s
    BY <1>4, <2>1, PowIsPositive, PowOfSum DEF Shift
  <2> HIDE DEF s, u, v
  <2>3. (num * s) * (den * v) = den * (num * (v * s))
    BY <1>1, <2>2
  <2> QED
    BY <2>2, <2>3 DEF u, v
<1> QED
  BY <1>2, <1>3, <1>4

\* Their order is that of the numbers themselves, at a common scale.
LEMMA ShiftKeepsOrder ==
  ASSUME NEW num \in Nat \ {0}, NEW den \in Nat \ {0}, NEW e \in Int,
         NEW k \in Nat, k + e >= 0, NEW p \in Nat
  PROVE  Shift(den, e) * p <= Shift(num, -e) <=> p * (den * Pow(2, k + e)) <= num * Pow(2, k)
<1> DEFINE a == Shift(num, -e)
           b == Shift(den, e)
           x == den * Pow(2, k + e)
           y == num * Pow(2, k)
<1>1. a \in Nat \ {0} /\ b \in Nat \ {0}
  BY ShiftIsPositive
<1>2. x \in Nat \ {0} /\ y \in Nat \ {0}
  <2>1. Pow(2, k + e) \in Nat \ {0} /\ Pow(2, k) \in Nat \ {0}
    BY PowIsPositive
  <2> QED
    BY <2>1, ProductIsPositive
<1>3. a * x = b * y
  BY ShiftIsRatio
<1> HIDE DEF a, b, x, y
<1>4. b * p <= a <=> (b * p) * x <= a * x
  BY <1>1, <1>2, FactorCancels
<1>5. (b * p) * x = (p * x) * b /\ b * y = y * b /\ p * x \in Nat
  BY <1>1, <1>2
<1>6. (p * x) * b <= y * b <=> p * x <= y
  BY <1>1, <1>2, <1>5, FactorCancels
<1> QED
  BY <1>3, <1>4, <1>5, <1>6 DEF a, b, x, y

\* A float's exponent makes its mantissa as long as its precision.
LEMMA FloatIsFull ==
  ASSUME NEW num \in Nat \ {0}, NEW den \in Nat \ {0}, NEW prec \in Nat \ {0},
         NEW f, f = Float(num, den, prec)
  PROVE  /\ f.e \in Int /\ f.m = Nearest(Shift(num, -f.e), Shift(den, f.e))
         /\ Shift(den, f.e) * Pow(2, prec - 1) <= Shift(num, -f.e)
         /\ Shift(num, -f.e) < Shift(den, f.e) * Pow(2, prec)
<1> DEFINE a == BitLen[num]
           b == BitLen[den]
           low == a - b - prec
           h == Pow(2, prec - 1)
           x == Pow(2, a - 1)
           y == Pow(2, b - 1)
           k == b + prec
<1>1. a \in Nat \ {0} /\ x <= num /\ num < Pow(2, a)
  BY BitLenIsLength, PowUnfolds DEF HasLength
<1>2. b \in Nat \ {0} /\ y <= den /\ den < Pow(2, b)
  BY BitLenIsLength, PowUnfolds DEF HasLength
<1>3. h \in Nat \ {0} /\ Pow(2, prec) = 2 * h
  BY TwosDouble
<1>4. x \in Nat \ {0} /\ Pow(2, a) = 2 * x /\ Pow(2, a + 1) = 4 * x
  <2> HIDE DEF a
  <2>1. x \in Nat \ {0} /\ Pow(2, a) = 2 * x
    BY <1>1, TwosDouble
  <2>2. Pow(2, a + 1) = 2 * Pow(2, a)
    BY <1>1, PowUnfolds
  <2> HIDE DEF x
  <2> QED
    BY <2>1, <2>2
<1>5. y \in Nat \ {0} /\ Pow(2, b) = 2 * y
  <2> HIDE DEF b
  <2> QED
    BY <1>2, TwosDouble
<1>6. k \in Nat /\ low \in Int /\ k + low = a /\ k + (low + 1) = a + 1
  BY <1>1, <1>2
<1>7. Pow(2, k) = (2 * y) * (2 * h)
  <2> HIDE DEF b, h, y
  <2>1. Pow(2, b + prec) = Pow(2, b) * Pow(2, prec)
    BY <1>2, PowOfSum
  <2> QED
    BY <1>3, <1>5, <2>1
<1> HIDE DEF a, b, h, x, y, k
<1> DEFINE g == num * ((2 * y) * (2 * h))
           z == h * (den * x)
<1>8. g \in Nat /\ z \in Nat
  BY <1>3, <1>4, <1>5
<1>9. 2 * z <= g /\ g < 8 * z
  <2>1. (den * x) * h <= ((2 * y) * x) * h /\ x * (y * h) <= num * (y * h)
    <3>1. den <= 2 * y
      BY <1>2, <1>5
    <3>2. den * x <= (2 * y) * x /\ den * x \in Nat /\ (2 * y) * x \in Nat
      BY <1>4, <1>5, <3>1, TimesKeepsOrder, ProductIsNat
    <3>3. y * h \in Nat
      BY <1>3, <1>5
    <3> QED
      BY <1>1, <1>3, <1>4, <3>2, <3>3, TimesKeepsOrder
  <2>2. num * (y * h) < (2 * x) * (y * h) /\ y * (x * h) <= den * (x * h)
    <3>1. y * h \in Nat \ {0} /\ x * h \in Nat /\ 2 * x \in Nat
      BY <1>3, <1>4, <1>5, ProductIsPositive
    <3> QED
      BY <1>1, <1>2, <1>4, <1>5, <3>1, TimesKeepsOrder, FactorCancels
  <2>3. /\ z = (den * x) * h /\ ((2 * y) * x) * h = 2 * (x * (y * h)) /\ g = 4 * (num * (y * h))
        /\ (2 * x) * (y * h) = 2 * (x * (y * h)) /\ y * (x * h) = x * (y * h)
        /\ den * (x * h) = z
    BY <1>3, <1>4, <1>5
  <2> DEFINE q == x * (y * h)
             r == num * (y * h)
  <2>4. q \in Nat /\ r \in Nat
    BY <1>3, <1>4, <1>5
  <2> HIDE DEF z, g, q, r
  <2>5. z <= 2 * q /\ q <= r /\ r < 2 * q /\ q <= z /\ g = 4 * r
    BY <2>1, <2>2, <2>3 DEF q, r
  <2> QED
    BY <1>8, <2>4, <2>5
<1>10. /\ Shift(den, low) * h <= Shift(num, -low) <=> 2 * z <= g
       /\ Shift(den, low) * (2 * h) <= Shift(num, -low) <=> 4 * z <= g
       /\ Shift(den, low + 1) * h <= Shift(num, -(low + 1)) <=> 4 * z <= g
       /\ Shift(den, low + 1) * (2 * h) <= Shift(num, -(low + 1)) <=> 8 * z <= g
  <2>1. /\ h * (den * Pow(2, k + low)) = 2 * z /\ (2 * h) * (den * Pow(2, k + low)) = 4 * z
        /\ h * (den * Pow(2, k + (low + 1))) = 4 * z
        /\ (2 * h) * (den * Pow(2, k + (low + 1))) = 8 * z
    BY <1>3, <1>4, <1>6
  <2>2. k + low >= 0 /\ k + (low + 1) >= 0 /\ low + 1 \in Int /\ 2 * h \in Nat /\ h \in Nat
    BY <1>1, <1>3, <1>6
  <2>3. num * Pow(2, k) = g
    BY <1>7
  <2> HIDE DEF low, z, g
  <2> QED
    BY <1>6, <2>1, <2>2, <2>3, ShiftKeepsOrder
<1> DEFINE e == IF Shift(num, -low) >= Shift(den, low) * Pow(2, prec) THEN low + 1 ELSE low
<1>11. f.e = e /\ f.m = Nearest(Shift(num, -e), Shift(den, e))
  BY DEF Float, a, b
<1>12. e = IF 4 * z <= g THEN low + 1 ELSE low
  <2>1. Shift(num, -low) \in Nat /\ Shift(den, low) \in Nat
    BY <1>6, ShiftIsPositive
  <2> HIDE DEF low
  <2>2. Shift(den, low) * (2 * h) \in Nat
    BY <1>3, <2>1
  <2> QED
    BY <1>3, <1>10, <2>1, <2>2
<1>13. /\ Shift(den, e) * h <= Shift(num, -e)
       /\ Shift(num, -e) < Shift(den, e) * (2 * h)
  <2>1. e \in Int /\ Shift(num, -e) \in Nat /\ Shift(den, e) \in Nat
    <3>1. e \in Int
      BY <1>6
    <3> HIDE DEF e
    <3> QED
      BY <3>1, ShiftIsPositive
  <2>2. Shift(den, e) * (2 * h) \in Nat
    BY <1>3, <2>1
  <2>3. ~(Shift(den, e) * (2 * h) <= Shift(num, -e)) /\ Shift(den, e) * h <= Shift(num, -e)
    <3>1. CASE 4 * z <= g
      <4>1. e = low + 1
        BY <1>12, <3>1
      <4> HIDE DEF e, low, z, g
      <4>2. ~(8 * z <= g)
        BY <1>8, <1>9
      <4> QED
        BY <1>10, <3>1, <4>1, <4>2
    <3>2. CASE ~(4 * z <= g)
      <4>1. e = low
        BY <1>12, <3>2
      <4> HIDE DEF e, low, z, g
      <4> QED
        BY <1>9, <1>10, <3>2, <4>1
    <3> QED
      BY <3>1, <3>2
  <2> HIDE DEF e
  <2> QED
    BY <2>1, <2>2, <2>3
<1> QED
  <2>1. e \in Int
    BY <1>6
  <2> HIDE DEF e
  <2> QED
    BY <1>3, <1>11, <1>13, <2>1 DEF h

\* x is within one r-th of y.
Close(x, y, r) == x * r <= y * r + y /\ y * r <= x * r + y

LEMMA CloseAtEveryScale ==
  ASSUME NEW x \in Nat, NEW y \in Nat, NEW r \in Nat, NEW c \in Nat \ {0}
  PROVE  Close(x * c, y * c, r) <=> Close(x, y, r)
<1> DEFINE s == x * r
           t == y * r
<1>1. s \in Nat /\ t \in Nat
  OBVIOUS
<1>2. (x * c) * r = s * c /\ (y * c) * r = t * c
  OBVIOUS
<1> HIDE DEF s, t
<1>3. t * c + y * c = (t + y) * c /\ s * c + y * c = (s + y) * c
  BY <1>1
<1>4. /\ s * c <= (t + y) * c <=> s <= t + y
      /\ t * c <= (s + y) * c <=> t <= s + y
  BY <1>1, FactorCancels
<1> QED
  BY <1>2, <1>3, <1>4 DEF Close, s, t

\* Rounded to prec bits, a quotient is off by a 2^prec-th of itself at most.
LEMMA FloatIsClose ==
  ASSUME NEW num \in Nat \ {0}, NEW den \in Nat \ {0}, NEW prec \in Nat \ {0},
         NEW f, f = Float(num, den, prec), NEW k \in Nat, k + f.e >= 0
  PROVE  /\ Pow(2, prec - 1) <= f.m /\ f.m <= Pow(2, prec)
         /\ f.m \in Nat
         /\ Close(f.m * (den * Pow(2, k + f.e)), num * Pow(2, k), Pow(2, prec))
<1> DEFINE e == f.e
           m == f.m
           a == Shift(num, -e)
           b == Shift(den, e)
           h == Pow(2, prec - 1)
           x == den * Pow(2, k + e)
           y == num * Pow(2, k)
<1>1. /\ e \in Int /\ m = Nearest(a, b) /\ b * h <= a /\ a < b * Pow(2, prec)
  BY FloatIsFull
<1>2. h \in Nat \ {0} /\ Pow(2, prec) = 2 * h
  BY TwosDouble
<1>3. a \in Nat \ {0} /\ b \in Nat \ {0}
  BY <1>1, ShiftIsPositive
<1>4. x \in Nat \ {0} /\ y \in Nat \ {0}
  <2>1. Pow(2, k + e) \in Nat \ {0} /\ Pow(2, k) \in Nat \ {0}
    BY <1>1, PowIsPositive
  <2> QED
    BY <2>1, ProductIsPositive
<1>5. a * x = b * y
  <2>1. e \in Int /\ k + e >= 0
    BY <1>1
  <2> HIDE DEF e
  <2> QED
    BY <2>1, ShiftIsRatio
<1>6. m \in Nat /\ 2 * (m * b) <= 2 * a + b /\ 2 * a <= 2 * (m * b) + b
  BY <1>1, <1>3, NearestIsNear
<1> HIDE DEF a, b, e, h, m, x, y
<1> DEFINE p == m * b
           q == b * h
<1>7. p \in Nat /\ q \in Nat /\ b * (2 * h) = 2 * q
  BY <1>2, <1>3, <1>6
<1>8. h <= m
  <2> SUFFICES ASSUME m + 1 <= h PROVE FALSE
    BY <1>2, <1>6
  <2>1. (m + 1) * b <= h * b
    BY <1>2, <1>3, <1>6, TimesKeepsOrder
  <2>2. (m + 1) * b = p + b /\ h * b = q
    BY <1>2, <1>3, <1>6
  <2> HIDE DEF p, q
  <2> QED
    BY <1>1, <1>3, <1>6, <1>7, <2>1, <2>2 DEF p, q
<1>9. m <= 2 * h
  <2> SUFFICES ASSUME 2 * h + 1 <= m PROVE FALSE
    BY <1>2, <1>6
  <2>1. (2 * h + 1) * b <= m * b
    BY <1>2, <1>3, <1>6, TimesKeepsOrder
  <2>2. (2 * h + 1) * b = 2 * q + b
    BY <1>2, <1>3
  <2>3. a < 2 * q
    BY <1>1, <1>2, <1>7
  <2> HIDE DEF q
  <2>4. 2 * q + b <= p
    BY <2>1, <2>2
  <2>5. 2 * p <= 2 * a + b
    BY <1>6
  <2> HIDE DEF p
  <2> QED
    BY <1>3, <1>7, <2>3, <2>4, <2>5
<1>10. Close(p, a, 2 * h)
  <2>1. 2 * p <= 2 * a + b /\ 2 * a <= 2 * p + b
    BY <1>6
  <2>2. q <= a
    BY <1>1
  <2>3. (2 * p) * h <= (2 * a + b) * h /\ (2 * a) * h <= (2 * p + b) * h
    BY <1>2, <1>3, <1>7, <2>1, TimesKeepsOrder
  <2>4. /\ (2 * a + b) * h = a * (2 * h) + q /\ (2 * p + b) * h = p * (2 * h) + q
        /\ (2 * p) * h = p * (2 * h) /\ (2 * a) * h = a * (2 * h)
    <3> HIDE DEF p
    <3> QED
      BY <1>2, <1>3, <1>7
  <2> DEFINE s == a * (2 * h)
             t == p * (2 * h)
  <2>5. s \in Nat /\ t \in Nat
    <3> HIDE DEF p
    <3> QED
      BY <1>2, <1>3, <1>7
  <2> HIDE DEF p, q, s, t
  <2>6. t <= s + q /\ s <= t + q
    BY <2>3, <2>4 DEF s, t
  <2>7. t <= s + a /\ s <= t + a
    BY <1>3, <1>7, <2>2, <2>5, <2>6
  <2> QED
    BY <2>7 DEF Close, s, t
<1>11. Close(m * x, y, 2 * h)
  <2>1. Close(p * x, a * x, 2 * h)
    <3> HIDE DEF p
    <3> QED
      BY <1>2, <1>3, <1>4, <1>7, <1>10, CloseAtEveryScale
  <2>2. p * x = (m * x) * b /\ b * y = y * b
    BY <1>3, <1>4, <1>6
  <2>3. m * x \in Nat /\ y \in Nat
    BY <1>4, <1>6
  <2> HIDE DEF p
  <2> QED
    BY <1>2, <1>3, <1>5, <2>1, <2>2, <2>3, CloseAtEveryScale
<1> QED
  BY <1>2, <1>6, <1>8, <1>9, <1>11 DEF e, h, m, x, y

\* Two roundings of what is far below the precision are off by less than one.
LEMMA CloseTwice ==
  ASSUME NEW x \in Nat, NEW y \in Nat, NEW z \in Nat, NEW r \in Nat \ {0}, NEW g \in Nat \ {0},
         Close(y, x, r), Close(z, y, r), 4 * x <= g * r
  PROVE  z < x + g /\ x < z + g
<1> DEFINE xr == x * r
           yr == y * r
           zr == z * r
           gr == g * r
<1>1. xr \in Nat /\ yr \in Nat /\ zr \in Nat /\ gr \in Nat /\ g <= gr
  <2>1. g * 1 <= g * r
    BY TimesKeepsOrder
  <2> QED
    BY <2>1
<1>2. yr <= xr + x /\ xr <= yr + x /\ zr <= yr + y /\ yr <= zr + y /\ 4 * x <= gr
  BY DEF Close
<1>3. (4 * y) * r = 4 * yr /\ (4 * x + g) * r = 4 * xr + gr
  OBVIOUS
<1>4. (4 * x) * r = 4 * xr /\ (4 * y + g) * r = 4 * yr + gr
  OBVIOUS
<1>5. (4 * z) * r = 4 * zr /\ (4 * y + 2 * g) * r = 4 * yr + 2 * gr
      /\ (4 * z + 2 * g) * r = 4 * zr + 2 * gr
  OBVIOUS
<1> HIDE DEF xr, yr, zr, gr
<1>6. 4 * y <= 4 * x + g
  <2>1. 4 * yr <= 4 * xr + gr
    BY <1>1, <1>2
  <2> QED
    BY <1>3, <2>1, FactorCancels
<1>7. 4 * x <= 4 * y + g
  <2>1. 4 * xr <= 4 * yr + gr
    BY <1>1, <1>2
  <2> QED
    BY <1>4, <2>1, FactorCancels
<1>8. 4 * y <= 2 * gr
  BY <1>1, <1>2, <1>6
<1>9. 4 * z <= 4 * y + 2 * g
  <2>1. 4 * zr <= 4 * yr + 2 * gr
    BY <1>1, <1>2, <1>8
  <2> QED
    BY <1>5, <2>1, FactorCancels
<1>10. 4 * y <= 4 * z + 2 * g
  <2>1. 4 * yr <= 4 * zr + 2 * gr
    BY <1>1, <1>2, <1>8
  <2> QED
    BY <1>3, <1>5, <2>1, FactorCancels
<1> QED
  BY <1>6, <1>7, <1>9, <1>10

-----------------------------------------------------------------------------
(* What becomes of an amount.                                              *)

LEMMA TwosKeepOrder ==
  ASSUME NEW m \in Nat, NEW n \in Nat, Pow(2, m) <= Pow(2, n)
  PROVE  m <= n
<1> SUFFICES ASSUME n + 1 <= m PROVE FALSE
  OBVIOUS
<1>1. Pow(2, n + 1) <= Pow(2, m) /\ Pow(2, n + 1) = 2 * Pow(2, n)
  BY PowGrows, PowUnfolds
<1>2. Pow(2, n) \in Nat \ {0} /\ Pow(2, m) \in Nat
  BY PowIsPositive
<1> QED
  BY <1>1, <1>2

\* A number up to a power of two has one digit more than its exponent at most.
LEMMA LengthIsBounded ==
  ASSUME NEW m \in Nat, NEW n \in Nat, m <= Pow(2, n)
  PROVE  BitLen[m] \in 0 .. n + 1
<1> DEFINE l == BitLen[m]
<1>1. l \in Nat /\ (l = 0 \/ Pow(2, l - 1) <= m)
  BY BitLenIsLength DEF HasLength
<1> HIDE DEF l
<1>2. ASSUME l # 0 PROVE l - 1 <= n
  <2>1. l - 1 \in Nat /\ Pow(2, l - 1) <= m
    BY <1>1, <1>2
  <2>2. Pow(2, l - 1) \in Nat /\ Pow(2, n) \in Nat
    BY <2>1, PowIsPositive
  <2>3. Pow(2, l - 1) <= Pow(2, n)
    BY <2>1, <2>2
  <2> QED
    BY <2>1, <2>3, TwosKeepOrder
<1> QED
  BY <1>1, <1>2 DEF l

\* Truncation keeps the whole part, at every scale.
LEMMA TruncatedIsWhole ==
  ASSUME NEW p, p.m \in Nat, p.e \in Int, NEW j \in Nat, j + p.e >= 0
  PROVE  /\ Truncated(p) \in Nat
         /\ Truncated(p) * Pow(2, j) <= p.m * Pow(2, j + p.e)
         /\ p.m * Pow(2, j + p.e) < (Truncated(p) + 1) * Pow(2, j)
<1> DEFINE w == Truncated(p)
           m == p.m
           e == p.e
           u == Pow(2, j)
           v == Pow(2, j + e)
<1>1. m \in Nat /\ e \in Int /\ j + e \in Nat
  OBVIOUS
<1> HIDE DEF e
<1>2. u \in Nat \ {0} /\ v \in Nat \ {0}
  BY <1>1, PowIsPositive
<1>3. CASE e >= 0
  <2> DEFINE s == Pow(2, e)
  <2>1. w = m * s /\ s \in Nat \ {0} /\ v = u * s
    BY <1>1, <1>3, PowIsPositive, PowOfSum DEF Truncated, e
  <2> HIDE DEF m, s, u, v, w
  <2>2. w \in Nat /\ w * u = m * v /\ (w + 1) * u = m * v + u /\ m * v \in Nat
    BY <1>1, <1>2, <2>1
  <2> QED
    BY <1>2, <2>2 DEF m, u, v, w, e
<1>4. CASE e < 0
  <2> DEFINE s == Pow(2, -e)
  <2>1. -e \in Nat /\ (j + e) + (-e) = j
    BY <1>1, <1>4
  <2>2. w = m \div s
    BY <1>4 DEF Truncated, e
  <2>3. s \in Nat \ {0} /\ u = v * s
    BY <1>1, <2>1, PowIsPositive, PowOfSum
  <2> HIDE DEF m, s, u, v, w
  <2>4. w \in Nat /\ w * s <= m /\ m < (w + 1) * s
    BY <1>1, <2>2, <2>3
  <2>5. w * s \in Nat /\ (w + 1) * s \in Nat
    BY <2>3, <2>4
  <2>6. (w * s) * v <= m * v /\ m * v < ((w + 1) * s) * v
    BY <1>1, <1>2, <2>4, <2>5, FactorCancels
  <2>7. (w * s) * v = w * u /\ ((w + 1) * s) * v = (w + 1) * u
    BY <1>2, <2>3, <2>4
  <2> QED
    BY <2>4, <2>6, <2>7 DEF m, u, v, w, e
<1> QED
  BY <1>1, <1>3, <1>4

\* A quotient and then a multiple of it, each rounded, and the whole part.
LEMMA TwoRoundings ==
  ASSUME NEW num \in Nat \ {0}, NEW den \in Nat \ {0}, NEW c \in Nat \ {0}, NEW prec \in Nat \ {0},
         NEW f, f = Float(num, den, prec), NEW g, g = Float(f.m * c, 1, prec),
         NEW p, p.m = g.m, p.e = g.e + f.e,
         4 * (num * c) <= den * Pow(2, prec)
  PROVE  /\ f.m \in Nat /\ f.m <= Pow(2, prec) /\ f.e \in Int /\ f.e <= 0
         /\ p.m \in Nat /\ p.m <= Pow(2, prec) /\ p.e \in Int /\ p.e <= 0
         /\ Truncated(p) \in Nat
         /\ Truncated(p) * den < num * c + den
         /\ num * c < Truncated(p) * den + 2 * den
<1> DEFINE m1 == f.m
           e1 == f.e
           m2 == g.m
           e2 == g.e
           h == Pow(2, prec - 1)
<1>1. h \in Nat \ {0} /\ Pow(2, prec) = 2 * h
  BY TwosDouble
<1>2. e1 \in Int
  BY FloatIsFull
<1>3. m1 \in Nat /\ h <= m1 /\ m1 <= 2 * h
  <2>1. \E k \in Nat : k + e1 >= 0
    <3>1. CASE e1 >= 0
      <4>1. 0 + e1 >= 0
        BY <1>2, <3>1
      <4> QED
        BY <4>1
    <3>2. CASE e1 < 0
      <4>1. -e1 \in Nat /\ -e1 + e1 >= 0
        BY <1>2, <3>2
      <4> QED
        BY <4>1
    <3> QED
      BY <1>2, <3>1, <3>2
  <2>2. PICK k \in Nat : k + f.e >= 0
    BY <2>1
  <2> QED
    BY <1>1, <2>2, FloatIsClose
<1>4. m1 * c \in Nat \ {0}
  BY <1>1, <1>3
<1> DEFINE n == f.m * c
<1>5. n \in Nat \ {0} /\ 1 \in Nat \ {0} /\ g = Float(n, 1, prec)
  BY <1>4
<1>6. e2 \in Int
  <2> HIDE DEF n
  <2> QED
    BY <1>5, FloatIsFull
<1>7. \E k \in Nat : k + e1 >= 0 /\ k + e2 >= 0
  <2> HIDE DEF e1, e2
  <2> DEFINE s == IF e1 < 0 THEN -e1 ELSE 0
             t == IF e2 < 0 THEN -e2 ELSE 0
  <2>1. s \in Nat /\ t \in Nat /\ s + e1 >= 0 /\ t + e2 >= 0
    BY <1>2, <1>6
  <2>2. s + t \in Nat /\ s + t + e1 >= 0 /\ s + t + e2 >= 0
    <3> HIDE DEF s, t
    <3> QED
      BY <1>2, <1>6, <2>1
  <2> QED
    BY <2>2
<1>8. PICK k \in Nat : k + f.e >= 0 /\ k + g.e >= 0
  BY <1>7
<1> DEFINE u == Pow(2, k)
           v1 == Pow(2, k + e1)
           v2 == Pow(2, k + e2)
<1>9. Close(m1 * (den * v1), num * u, 2 * h)
  BY <1>1, <1>8, FloatIsClose
<1>10. /\ h <= m2 /\ m2 <= 2 * h /\ m2 \in Nat
      /\ Close(m2 * (1 * v2), (m1 * c) * u, 2 * h)
  <2>1. (m1 * c) * u = n * u
    OBVIOUS
  <2> HIDE DEF n
  <2>2. /\ h <= m2 /\ m2 <= Pow(2, prec) /\ m2 \in Nat
        /\ Close(m2 * (1 * v2), n * u, Pow(2, prec))
    BY <1>5, <1>8, FloatIsClose
  <2> QED
    BY <1>1, <2>1, <2>2
<1>11. u \in Nat \ {0} /\ v1 \in Nat \ {0} /\ v2 \in Nat \ {0}
  <2>1. k + e1 \in Nat /\ k + e2 \in Nat
    BY <1>2, <1>6, <1>8
  <2> HIDE DEF e1, e2
  <2> QED
    BY <2>1, PowIsPositive
<1>12. Pow(2, k + k) = u * u /\ Pow(2, (k + k) + (e2 + e1)) = v1 * v2
  <2>1. k + e1 \in Nat /\ k + e2 \in Nat /\ (k + k) + (e2 + e1) = (k + e1) + (k + e2)
    BY <1>2, <1>6, <1>8
  <2> HIDE DEF e1, e2
  <2> QED
    BY <2>1, PowOfSum
<1> DEFINE w == Truncated(p)
<1>13. /\ w \in Nat
       /\ w * (u * u) <= m2 * (v1 * v2)
       /\ m2 * (v1 * v2) < (w + 1) * (u * u)
  <2>1. p.m \in Nat /\ p.e \in Int /\ k + k \in Nat /\ (k + k) + p.e >= 0
    BY <1>2, <1>6, <1>8, <1>10
  <2>2. p.e = e2 + e1 /\ p.m = m2
    OBVIOUS
  <2> HIDE DEF u, v1, v2, m2, e1, e2
  <2> QED
    BY <1>12, <2>1, <2>2, TruncatedIsWhole
<1>14. 4 * (num * c) <= den * (2 * h)
  BY <1>1
<1>15. p.m = m2 /\ p.e = e2 + e1
  OBVIOUS
<1> HIDE DEF m1, m2, e1, e2, h, u, v1, v2, w
<1> DEFINE x == (num * u) * (c * u)
           y == (m1 * (den * v1)) * (c * u)
           z == (m2 * v2) * (den * v1)
           o == (den * u) * u
           uu == u * u
           vv == v1 * v2
<1>16. x \in Nat /\ y \in Nat /\ z \in Nat /\ o \in Nat \ {0} /\ uu \in Nat \ {0} /\ vv \in Nat \ {0}
  <2>1. uu \in Nat \ {0} /\ vv \in Nat \ {0} /\ c * u \in Nat /\ den * v1 \in Nat /\ den * u \in Nat \ {0}
    BY <1>11, ProductIsPositive
  <2>2. num * u \in Nat /\ m1 * (den * v1) \in Nat /\ m2 * v2 \in Nat
    BY <1>3, <1>10, <1>11, <2>1, ProductIsNat
  <2> QED
    BY <1>11, <2>1, <2>2, ProductIsNat, ProductIsPositive
<1>17. Close(y, x, 2 * h)
  <2>1. m1 * (den * v1) \in Nat /\ num * u \in Nat /\ c * u \in Nat \ {0} /\ 2 * h \in Nat
    BY <1>1, <1>3, <1>11, ProductIsNat, ProductIsPositive
  <2> QED
    BY <1>9, <2>1, CloseAtEveryScale
<1>18. Close(z, y, 2 * h)
  <2>1. m2 * v2 \in Nat /\ (m1 * c) * u \in Nat /\ den * v1 \in Nat \ {0} /\ 2 * h \in Nat
    BY <1>1, <1>4, <1>10, <1>11, ProductIsNat, ProductIsPositive
  <2>2. 1 * v2 = v2 /\ ((m1 * c) * u) * (den * v1) = y
    BY <1>3, <1>11
  <2> QED
    BY <1>10, <2>1, <2>2, CloseAtEveryScale
<1>19. 4 * x <= o * (2 * h)
  <2>1. 4 * (num * c) \in Nat /\ den * (2 * h) \in Nat
    BY <1>1
  <2>2. (4 * (num * c)) * uu <= (den * (2 * h)) * uu
    BY <1>14, <1>16, <2>1, TimesKeepsOrder
  <2>3. 4 * x = (4 * (num * c)) * uu /\ o * (2 * h) = (den * (2 * h)) * uu
    BY <1>1, <1>11
  <2> HIDE DEF uu, x, o
  <2> QED
    BY <2>2, <2>3
<1>20. z < x + o /\ x < z + o
  <2> HIDE DEF x, y, z, o
  <2>1. 2 * h \in Nat \ {0}
    BY <1>1
  <2> QED
    BY <1>16, <1>17, <1>18, <1>19, <2>1, CloseTwice
<1>21. x = (num * c) * uu /\ o = den * uu /\ z = (m2 * vv) * den
  BY <1>10, <1>11
<1>22. w * den < num * c + den /\ num * c < w * den + 2 * den
  <2> DEFINE q == m2 * vv
             r == num * c
             t == w * den
  <2>1. q \in Nat /\ r \in Nat /\ t \in Nat
    BY <1>10, <1>13, <1>16, ProductIsNat
  <2>2. (w * uu) * den <= q * den /\ q * den < ((w + 1) * uu) * den
    <3>1. w * uu \in Nat /\ (w + 1) * uu \in Nat
      BY <1>13, <1>16, ProductIsNat
    <3> HIDE DEF q, uu, vv
    <3> QED
      BY <1>13, <2>1, <3>1, TimesKeepsOrder, FactorCancels DEF q, uu, vv
  <2>3. (w * uu) * den = t * uu /\ ((w + 1) * uu) * den = (t + den) * uu
    <3> HIDE DEF uu
    <3> QED
      BY <1>13, <1>16
  <2>4. (r + den) * uu = x + o /\ (t + den) * uu + o = (t + 2 * den) * uu
    <3> HIDE DEF uu, x, o, t, r
    <3>1. (r + den) * uu = r * uu + den * uu /\ (t + den) * uu + den * uu = (t + 2 * den) * uu
      BY <1>16, <2>1
    <3> QED
      BY <1>21, <3>1 DEF r
  <2>5. t * uu < (r + den) * uu /\ r * uu < (t + 2 * den) * uu
    <3> HIDE DEF x, z, o, uu, vv, q, r, t
    <3>1. z = q * den /\ x = r * uu
      BY <1>21 DEF q, r
    <3>2. t * uu \in Nat /\ (t + den) * uu \in Nat
      BY <1>16, <2>1
    <3> QED
      BY <1>16, <1>20, <2>2, <2>3, <2>4, <3>1, <3>2
  <2> HIDE DEF q, r, t, uu
  <2>6. r + den \in Nat /\ t + 2 * den \in Nat
    BY <2>1
  <2>7. t < r + den /\ r < t + 2 * den
    BY <1>16, <2>1, <2>5, <2>6, FactorCancels
  <2> QED
    BY <2>7 DEF r, t
<1>23. e1 <= 0
  <2> DEFINE a == den * v1
             b == num * u
             d == den * u
  <2>1. a \in Nat \ {0} /\ b \in Nat \ {0} /\ d \in Nat \ {0} /\ m1 * a \in Nat
    BY <1>3, <1>11, ProductIsPositive, ProductIsNat
  <2>2. m1 * a <= 2 * b
    <3>1. (m1 * a) * (2 * h) <= b * (2 * h) + b /\ b * (2 * h) \in Nat
      BY <1>1, <1>9, <2>1 DEF Close
    <3> HIDE DEF a, b
    <3>2. b * 1 <= b * (2 * h)
      BY <1>1, <2>1, TimesKeepsOrder
    <3>3. (2 * b) * (2 * h) = b * (2 * h) + b * (2 * h)
      BY <1>1, <2>1
    <3>4. (m1 * a) * (2 * h) <= (2 * b) * (2 * h)
      <4> DEFINE s == b * (2 * h)
      <4>1. b <= s
        BY <2>1, <3>2
      <4>2. (m1 * a) * (2 * h) <= s + b /\ s \in Nat /\ (2 * b) * (2 * h) = s + s
        BY <3>1, <3>3
      <4>3. (m1 * a) * (2 * h) \in Nat
        BY <1>1, <2>1, ProductIsNat
      <4> HIDE DEF s
      <4> QED
        BY <2>1, <4>1, <4>2, <4>3
    <3>5. 2 * h \in Nat \ {0} /\ 2 * b \in Nat
      BY <1>1, <2>1
    <3> QED
      BY <2>1, <3>4, <3>5, FactorCancels
  <2>3. h * a <= m1 * a
    <3> HIDE DEF a
    <3> QED
      BY <1>1, <1>3, <2>1, TimesKeepsOrder
  <2>4. 2 * b <= h * d
    <3>1. num * 1 <= num * c /\ num * c \in Nat
      BY TimesKeepsOrder
    <3> DEFINE s == den * h
               r == num * c
    <3>2. den * (2 * h) = 2 * s /\ s \in Nat
      BY <1>1
    <3> HIDE DEF s, r
    <3>3. 4 * r <= 2 * s /\ num <= r /\ r \in Nat
      BY <1>14, <3>1, <3>2 DEF r
    <3>4. 2 * num <= s /\ 2 * num \in Nat
      BY <3>2, <3>3
    <3>5. (2 * num) * u <= s * u
      BY <1>11, <3>2, <3>4, TimesKeepsOrder
    <3>6. (2 * num) * u = 2 * b /\ s * u = h * d
      BY <1>1, <1>11 DEF s
    <3> QED
      BY <3>5, <3>6
  <2>5. a <= d
    <3> HIDE DEF a, b, d
    <3>1. a * h <= d * h
      <4>1. h * a <= h * d /\ h * a \in Nat /\ h * d \in Nat
        BY <1>1, <2>1, <2>2, <2>3, <2>4
      <4> QED
        BY <1>1, <2>1, <4>1
    <3> QED
      BY <1>1, <2>1, <3>1, FactorCancels
  <2>6. v1 <= u
    <3>1. v1 * den <= u * den
      BY <1>11, <2>5
    <3> QED
      BY <1>11, <3>1, FactorCancels
  <2>7. k + e1 <= k
    <3>1. k + e1 \in Nat
      BY <1>2, <1>8 DEF e1
    <3> QED
      BY <2>6, <3>1, TwosKeepOrder DEF u, v1
  <2> QED
    BY <1>2, <2>7
<1>24. e2 + e1 <= 0
  <2>1. z < 2 * (h * o)
    <3> DEFINE s == h * o
    <3>1. s \in Nat /\ 1 * o <= h * o
      BY <1>1, <1>16, TimesKeepsOrder
    <3>2. o * (2 * h) = 2 * s
      BY <1>1, <1>16
    <3> HIDE DEF x, z, o, s
    <3>3. o <= s
      BY <1>16, <3>1 DEF s
    <3> QED
      BY <1>16, <1>19, <1>20, <3>1, <3>2, <3>3 DEF s
  <2> DEFINE b == h * den
  <2>2. b \in Nat \ {0}
    BY <1>1, ProductIsPositive
  <2>3. vv * b <= z
    <3>1. h * (vv * den) <= m2 * (vv * den)
      <4>1. vv * den \in Nat
        BY <1>16, ProductIsNat
      <4> HIDE DEF vv
      <4> QED
        BY <1>1, <1>10, <4>1, TimesKeepsOrder
    <3>2. h * (vv * den) = vv * b /\ m2 * (vv * den) = (m2 * vv) * den
      <4> HIDE DEF vv
      <4> QED
        BY <1>1, <1>10, <1>16
    <3> QED
      BY <1>21, <3>1, <3>2
  <2>4. 2 * (h * o) = (2 * uu) * b
    <3> HIDE DEF o, uu
    <3> QED
      BY <1>1, <1>16, <1>21
  <2>5. vv < 2 * uu
    <3>1. vv * b < (2 * uu) * b
      <4>1. vv * b \in Nat /\ (2 * uu) * b \in Nat
        BY <1>16, <2>2
      <4> HIDE DEF z, vv, b, uu, o
      <4> QED
        BY <1>16, <2>1, <2>3, <2>4, <4>1
    <3>2. 2 * uu \in Nat
      BY <1>16
    <3> HIDE DEF vv, b, uu
    <3> QED
      BY <1>16, <2>2, <3>1, <3>2, FactorCancels
  <2> DEFINE j == k + k
  <2>6. j + (e2 + e1) \in Nat /\ j \in Nat
    BY <1>2, <1>6, <1>8 DEF e1, e2
  <2>7. Pow(2, j + 1) = 2 * uu /\ Pow(2, j + (e2 + e1)) = vv
    BY <1>12, <2>6, PowUnfolds
  <2>8. j + (e2 + e1) < j + 1
    <3> DEFINE i == j + (e2 + e1)
    <3>1. i \in Nat /\ j + 1 \in Nat /\ Pow(2, i) < Pow(2, j + 1)
      BY <2>5, <2>6, <2>7
    <3> HIDE DEF i, j
    <3>2. i < j + 1
      BY <3>1, TwosAreOrdered
    <3> QED
      BY <3>2 DEF i
  <2> QED
    BY <1>2, <1>6, <2>6, <2>8
<1> QED
  BY <1>1, <1>2, <1>3, <1>10, <1>13, <1>15, <1>6, <1>22, <1>23, <1>24 DEF m1, e1, w

LEMMA TextIsQuotient ==
  ASSUME NEW t \in Texts, t.n > 0
  PROVE  Num(t) \in Nat \ {0} /\ Den(t) \in Nat \ {0}
<1>1. t.n \in Nat \ {0} /\ t.x \in Int
  BY DEF Texts
<1> DEFINE i == IF t.x > 0 THEN t.x ELSE 0
           j == IF t.x < 0 THEN -t.x ELSE 0
<1>2. i \in Nat /\ j \in Nat
  BY <1>1
<1> HIDE DEF i, j
<1>3. Pow(10, i) \in Nat \ {0} /\ Pow(10, j) \in Nat \ {0}
  BY <1>2, PowIsPositive
<1>4. t.n * Pow(10, i) \in Nat \ {0}
  BY <1>1, <1>3, ProductIsPositive
<1> QED
  BY <1>3, <1>4 DEF Num, Den, i, j

\* An amount with at most two decimals more than wei have, far enough below
\* the precision.
IsAmount(t) ==
  /\ t \in Texts /\ t.decimal /\ t.n > 0 /\ t.x \in -WeiDecimals - 2 .. WeiDecimals
  /\ 4 * (Num(t) * Pow(10, WeiDecimals)) <= Den(t) * Pow(2, AmountPrec)

\* Neither its digits nor its exponent is out of a float's range.
LEMMA AmountIsReadable ==
  ASSUME NEW t, IsAmount(t)
  PROVE  ~Unreadable(t) /\ ~Huge(t) /\ ~Tiny(t)
<1> DEFINE n == t.n
           x == t.x
           c == Pow(10, WeiDecimals)
           r == Pow(2, AmountPrec)
           top == Pow(5, WeiDecimals + 2)
           l == BitLen[n]
<1>1. /\ n \in Nat \ {0} /\ x \in Int /\ x >= -WeiDecimals - 2 /\ x <= WeiDecimals
      /\ WeiDecimals \in Nat /\ AmountPrec \in Nat \ {0} /\ MaxExp \in Nat
      /\ AmountPrec + 4 <= MaxExp /\ top < Pow(2, MaxExp) /\ t.decimal = TRUE
  BY NumbersAssumption, RangeAssumption DEF IsAmount, Texts
<1>2. c \in Nat \ {0} /\ r \in Nat \ {0} /\ top \in Nat
  BY <1>1, PowIsPositive
<1>3. ASSUME NEW i \in Nat, i <= WeiDecimals + 2
      PROVE  ~(Pow(5, i) >= Pow(2, MaxExp))
  <2>1. Pow(5, i) <= top
    BY <1>1, <1>3, PowGrows
  <2>2. Pow(5, i) \in Nat /\ Pow(2, MaxExp) \in Nat
    BY <1>1, PowIsPositive
  <2> QED
    BY <1>1, <1>2, <2>1, <2>2
<1>4. ~Huge(t) /\ ~Tiny(t)
  <2>1. x > 0 => x \in Nat /\ x <= WeiDecimals + 2
    BY <1>1
  <2>2. x < 0 => -x \in Nat /\ -x <= WeiDecimals + 2
    BY <1>1
  <2> QED
    BY <1>3, <2>1, <2>2 DEF Huge, Tiny
<1>5. WeiDecimals + 2 < MaxExp
  <2>1. Pow(2, WeiDecimals + 2) <= top
    BY <1>1, PowOfMore
  <2>2. Pow(2, WeiDecimals + 2) \in Nat /\ Pow(2, MaxExp) \in Nat
    BY <1>1, PowIsPositive
  <2>3. Pow(2, WeiDecimals + 2) < Pow(2, MaxExp)
    BY <1>1, <1>2, <2>1, <2>2
  <2> QED
    BY <1>1, <2>3, TwosAreOrdered
<1>6. l \in Nat \ {0} /\ Pow(2, l - 1) <= n /\ l - 1 \in Nat
  BY <1>1, BitLenIsLength, PowUnfolds DEF HasLength
<1>7. 4 * (Num(t) * c) <= Den(t) * r
  BY DEF IsAmount
<1> HIDE DEF l, top, r, c
<1>8. CASE x >= 0
  <2> DEFINE s == Pow(10, x)
             y == Pow(2, x)
  <2>1. s \in Nat \ {0} /\ y \in Nat \ {0} /\ y <= s
    BY <1>1, <1>8, PowIsPositive, PowOfMore
  <2>2. Den(t) = 1 /\ Num(t) = n * s
    <3>1. (IF x > 0 THEN x ELSE 0) = x /\ (IF x < 0 THEN -x ELSE 0) = 0
      BY <1>1, <1>8
    <3> QED
      BY <3>1, PowUnfolds DEF Num, Den
  <2> DEFINE ns == n * s
             z == Pow(2, l - 1)
  <2>3. ns * c <= r
    <3>1. ns * c \in Nat
      BY <1>1, <1>2, <2>1, ProductIsNat
    <3>2. 4 * (ns * c) <= r
      BY <1>2, <1>7, <2>2
    <3> HIDE DEF ns
    <3> QED
      BY <1>2, <3>1, <3>2
  <2>4. z * y <= r
    <3>1. z \in Nat /\ ns \in Nat
      BY <1>1, <1>6, <2>1, PowIsPositive, ProductIsNat
    <3> HIDE DEF y, s, z
    <3>2. z * y <= n * y /\ n * y <= n * s
      BY <1>1, <1>6, <2>1, <3>1, TimesKeepsOrder DEF z
    <3>3. z * y \in Nat /\ n * y \in Nat
      BY <1>1, <2>1, <3>1, ProductIsNat
    <3> HIDE DEF ns
    <3>4. ns * 1 <= ns * c
      BY <1>2, <3>1, TimesKeepsOrder
    <3>5. z * y <= ns
      BY <3>1, <3>2, <3>3 DEF ns
    <3>6. ns * c \in Nat
      BY <1>2, <3>1, ProductIsNat
    <3> QED
      BY <1>2, <2>3, <3>1, <3>3, <3>4, <3>5, <3>6
  <2>5. (l - 1) + x \in Nat /\ Pow(2, (l - 1) + x) <= r
    <3>1. (l - 1) + x \in Nat /\ x \in Nat
      BY <1>1, <1>6, <1>8
    <3>2. Pow(2, (l - 1) + x) = z * y
      <4> DEFINE i == l - 1
      <4>1. i \in Nat
        BY <1>6
      <4> HIDE DEF i, x
      <4>2. Pow(2, i + x) = Pow(2, i) * Pow(2, x)
        BY <3>1, <4>1, PowOfSum
      <4> QED
        BY <4>2 DEF i, x
    <3> QED
      BY <2>4, <3>1, <3>2
  <2>6. (l - 1) + x <= AmountPrec
    <3> DEFINE i == (l - 1) + x
    <3>1. i \in Nat /\ Pow(2, i) <= Pow(2, AmountPrec)
      BY <2>5 DEF r
    <3> HIDE DEF i
    <3>2. i <= AmountPrec
      BY <1>1, <3>1, TwosKeepOrder
    <3> QED
      BY <3>2 DEF i
  <2>7. l + x \in -MaxExp .. MaxExp
    BY <1>1, <1>6, <1>8, <2>6
  <2> QED
    BY <1>1, <1>4, <2>7 DEF Unreadable, l
<1>9. CASE x < 0
  <2>1. -x \in Nat /\ -x <= WeiDecimals + 2 /\ (IF x > 0 THEN x ELSE 0) = 0 /\ (IF x < 0 THEN -x ELSE 0) = -x
    BY <1>1, <1>9
  <2>2. Num(t) = n /\ Den(t) = Pow(10, -x)
    BY <1>1, <2>1, PowUnfolds DEF Num, Den
  <2>3. Pow(10, WeiDecimals + 2) = 100 * c
    <3>1. Pow(10, (WeiDecimals + 1) + 1) = 10 * Pow(10, WeiDecimals + 1)
      BY <1>1, PowUnfolds
    <3>2. Pow(10, WeiDecimals + 1) = 10 * c
      BY <1>1, PowUnfolds DEF c
    <3>3. (WeiDecimals + 1) + 1 = WeiDecimals + 2
      BY <1>1
    <3> QED
      BY <1>2, <3>1, <3>2, <3>3
  <2>4. Den(t) \in Nat /\ Den(t) <= 100 * c
    <3> DEFINE i == -x
    <3>1. i \in Nat /\ i <= WeiDecimals + 2 /\ WeiDecimals + 2 \in Nat
      BY <1>1, <2>1
    <3> HIDE DEF i
    <3>2. Pow(10, i) \in Nat /\ Pow(10, i) <= Pow(10, WeiDecimals + 2)
      BY <3>1, PowIsPositive, PowGrows
    <3> QED
      BY <2>2, <2>3, <3>2 DEF i
  <2>5. n <= 25 * r
    <3> DEFINE d == Den(t)
               s == n * c
               q == c * r
    <3>1. d * r <= (100 * c) * r /\ (100 * c) * r = 100 * q /\ q \in Nat /\ s \in Nat /\ d * r \in Nat
      BY <1>1, <1>2, <2>4, TimesKeepsOrder
    <3>2. 4 * s <= d * r
      BY <1>7, <2>2
    <3> HIDE DEF d, s, q
    <3>3. s <= 25 * q
      BY <3>1, <3>2
    <3>4. s = n * c /\ 25 * q = (25 * r) * c /\ 25 * r \in Nat
      BY <1>2 DEF s, q
    <3> QED
      BY <1>1, <1>2, <3>3, <3>4, FactorCancels
  <2>6. n < Pow(2, AmountPrec + 5)
    <3>1. /\ Pow(2, AmountPrec + 1) = 2 * r
          /\ Pow(2, (AmountPrec + 1) + 1) = 2 * Pow(2, AmountPrec + 1)
          /\ Pow(2, (AmountPrec + 2) + 1) = 2 * Pow(2, AmountPrec + 2)
          /\ Pow(2, (AmountPrec + 3) + 1) = 2 * Pow(2, AmountPrec + 3)
          /\ Pow(2, (AmountPrec + 4) + 1) = 2 * Pow(2, AmountPrec + 4)
      BY <1>1, PowUnfolds DEF r
    <3>2. /\ (AmountPrec + 1) + 1 = AmountPrec + 2 /\ (AmountPrec + 2) + 1 = AmountPrec + 3
          /\ (AmountPrec + 3) + 1 = AmountPrec + 4 /\ (AmountPrec + 4) + 1 = AmountPrec + 5
      BY <1>1
    <3>3. Pow(2, AmountPrec + 5) = 32 * r
      BY <1>2, <3>1, <3>2
    <3> QED
      BY <1>1, <1>2, <2>5, <3>3
  <2>7. l <= AmountPrec + 5
    <3> DEFINE i == l - 1
    <3>1. i \in Nat /\ AmountPrec + 5 \in Nat /\ Pow(2, i) <= n
      BY <1>1, <1>6
    <3>2. Pow(2, i) \in Nat /\ Pow(2, AmountPrec + 5) \in Nat
      BY <3>1, PowIsPositive
    <3> HIDE DEF i
    <3>3. Pow(2, i) < Pow(2, AmountPrec + 5)
      BY <1>1, <2>6, <3>1, <3>2
    <3>4. i < AmountPrec + 5
      BY <3>1, <3>3, TwosAreOrdered
    <3> QED
      BY <1>1, <1>6, <3>4 DEF i
  <2>8. l + x \in -MaxExp .. MaxExp
    BY <1>1, <1>5, <1>6, <1>9, <2>7
  <2> QED
    BY <1>1, <1>4, <2>8 DEF Unreadable, l
<1> QED
  BY <1>1, <1>8, <1>9

\* parseEther of such an amount does not panic, and is off by a wei at most.
LEMMA ParsedIsClose ==
  ASSUME NEW t, IsAmount(t)
  PROVE  /\ ParseEther(t).err # "panic" /\ ParseEther(t).wei \in Nat
         /\ ParseEther(t).wei * Den(t) < Num(t) * Pow(10, WeiDecimals) + Den(t)
         /\ Num(t) * Pow(10, WeiDecimals) < ParseEther(t).wei * Den(t) + 2 * Den(t)
<1> DEFINE num == Num(t)
           den == Den(t)
           c == Pow(10, WeiDecimals)
           f == AsFloat(t)
           g == Float(f.m * c, 1, AmountPrec)
           p == Product(t)
           w == Truncated(p)
<1>1. t \in Texts /\ t.n \in Nat /\ t.n > 0 /\ 4 * (num * c) <= den * Pow(2, AmountPrec)
  BY DEF IsAmount, Texts
<1>2. /\ WeiDecimals \in Nat /\ AmountPrec \in Nat \ {0} /\ MaxExp \in Nat
      /\ AmountPrec + 4 <= MaxExp
  BY NumbersAssumption, RangeAssumption
<1>3. num \in Nat \ {0} /\ den \in Nat \ {0} /\ c \in Nat \ {0}
  BY <1>1, <1>2, TextIsQuotient, PowIsPositive
<1>4. p.m = g.m /\ p.e = g.e + f.e
  BY DEF Product, Float
<1>5. /\ f.m \in Nat /\ f.m <= Pow(2, AmountPrec) /\ f.e \in Int /\ f.e <= 0
      /\ p.m \in Nat /\ p.m <= Pow(2, AmountPrec) /\ p.e \in Int /\ p.e <= 0
      /\ w \in Nat /\ w * den < num * c + den /\ num * c < w * den + 2 * den
  <2>1. f = Float(num, den, AmountPrec) /\ g = Float(f.m * c, 1, AmountPrec)
    BY DEF AsFloat
  <2> HIDE DEF num, den, c, f, g, p
  <2> QED
    BY <1>1, <1>2, <1>3, <1>4, <2>1, TwoRoundings
<1> HIDE DEF f, p
<1>6. ~IsInf(f) /\ ~IsInf(p)
  BY <1>2, <1>5, LengthIsBounded DEF IsInf
<1>7. ~(t.n <= 0) /\ ~Unreadable(t) /\ ~Huge(t) /\ ~Tiny(t)
  BY <1>1, AmountIsReadable
<1>8. ParseEther(t) = IF w = 0 THEN BadAmount ELSE [err |-> "nil", wei |-> w]
  BY <1>6, <1>7 DEF ParseEther, f, p
<1>9. ParseEther(t).err # "panic" /\ ParseEther(t).wei = w
  BY <1>8 DEF BadAmount
<1> QED
  BY <1>5, <1>9
=============================================================================
