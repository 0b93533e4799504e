--------------------------- MODULE UnwrappedProofs ----------------------------
(***************************************************************************)
(* What holds of the closed-form solvers and of what a caller does with    *)
(* their solutions, for every chain, every limit and every seed.           *)
(***************************************************************************)
EXTENDS UnwrappedSolver, FiniteSetTheorems, SequenceTheorems, TLAPS

------------------------------------------------------------------------------
(* Whole turns *)

\* What the units are to each other.
LEMMA HalfIs == Half \in Nat /\ Turn = 2 * Half /\ Tol \in Nat /\ Tol < Half /\ Turn \in Nat
<1>1. Turn \in Nat /\ Turn > 0 /\ Turn % 2 = 0 /\ Tol \in Nat /\ 2 * Tol < Turn
  BY AngleAssumption
<1>2. Turn = 2 * (Turn \div 2) /\ Turn \div 2 \in Nat
  BY <1>1
<1>. QED
  BY <1>1, <1>2 DEF Half

\* Two different numbers of turns are at least a turn apart.
LEMMA TurnsApart ==
  ASSUME NEW a \in Int, NEW b \in Int
  PROVE  /\ Turn * a \in Int /\ Turn * b \in Int
         /\ a < b => Turn * a + Turn <= Turn * b
         /\ a <= b => Turn * a <= Turn * b
<1>1. Turn \in Nat /\ Turn > 0
  BY AngleAssumption
<1>2. \A p, q \in Int : p > 0 /\ q >= 0 => p * q >= 0
  OBVIOUS
<1>3. ASSUME a < b PROVE Turn * a + Turn <= Turn * b
  <2>1. b - a - 1 \in Int /\ b - a - 1 >= 0
    BY <1>3
  <2>2. Turn * (b - a - 1) >= 0
    BY <1>1, <1>2, <2>1
  <2>3. Turn * (b - a - 1) = Turn * b - Turn * a - Turn
    BY <1>1
  <2>4. Turn * b \in Int /\ Turn * a \in Int
    BY <1>1
  <2>. QED
    BY <1>1, <2>2, <2>3, <2>4
<1>4. Turn * a \in Int /\ Turn * b \in Int
  BY <1>1
<1>. QED
  BY <1>1, <1>3, <1>4

\* The half-open interval that wrap_angle maps into.
Principal == (1 - Half)..Half

\* Wrapping takes whole turns and ends there.
LEMMA WrapIs ==
  ASSUME NEW x \in Int
  PROVE  WrapAngle(x) \in Principal /\ \E k \in Int : WrapAngle(x) = x + Turn * k
<1> DEFINE r == x % Turn
<1> DEFINE n == x \div Turn
<1>1. x # NaN
  BY AngleAssumption
<1>2. Turn \in Nat /\ Turn > 0 /\ Turn = 2 * Half /\ Half \in Nat
  BY AngleAssumption, HalfIs
<1>3. r \in 0..(Turn - 1) /\ n \in Int /\ x = Turn * n + r
  BY <1>2
<1>4. Remainder(x) = r \/ Remainder(x) = r - Turn
  BY DEF Remainder
<1>5. r < Half => Remainder(x) = r
  BY DEF Remainder
<1>6. r > Half => Remainder(x) = r - Turn
  BY <1>2, <1>3 DEF Remainder
<1> HIDE DEF r, n
<1>7. Turn * (-n) = -(Turn * n) /\ Turn * (-n - 1) = -(Turn * n) - Turn /\ Turn * n \in Int
  BY <1>2, <1>3
<1>8. r = x + Turn * (-n) /\ r - Turn = x + Turn * (-n - 1)
  BY <1>2, <1>3, <1>7
<1>9. WrapAngle(x) = IF Remainder(x) <= -Half THEN Remainder(x) + Turn ELSE Remainder(x)
  BY <1>1 DEF WrapAngle
<1>10. (WrapAngle(x) = r \/ WrapAngle(x) = r - Turn) /\ WrapAngle(x) \in Principal
  <2>1. CASE r < Half
    BY <1>2, <1>3, <1>5, <1>9, <2>1 DEF Principal
  <2>2. CASE r > Half
    BY <1>2, <1>3, <1>6, <1>9, <2>2 DEF Principal
  <2>3. CASE r = Half
    BY <1>2, <1>3, <1>4, <1>9, <2>3 DEF Principal
  <2>. QED
    BY <1>2, <1>3, <2>1, <2>2, <2>3
<1>11. -n \in Int /\ -n - 1 \in Int
  BY <1>3
<1>. QED
  BY <1>8, <1>10, <1>11

\* An angle has one representative there.
LEMMA WrapUnique ==
  ASSUME NEW x \in Int, NEW k \in Int, x + Turn * k \in Principal
  PROVE  WrapAngle(x) = x + Turn * k
<1>1. PICK m \in Int : WrapAngle(x) = x + Turn * m
  BY WrapIs
<1>2. x + Turn * m \in Principal
  BY <1>1, WrapIs
<1>3. Half \in Nat /\ Turn = 2 * Half
  BY HalfIs
<1>4. ~(m < k) /\ ~(k < m)
  <2>1. ASSUME m < k PROVE FALSE
    <3>1. Turn * m + Turn <= Turn * k /\ Turn * m \in Int /\ Turn * k \in Int
      BY <2>1, TurnsApart
    <3>. QED
      BY <1>2, <1>3, <3>1 DEF Principal
  <2>2. ASSUME k < m PROVE FALSE
    <3>1. Turn * k + Turn <= Turn * m /\ Turn * m \in Int /\ Turn * k \in Int
      BY <2>2, TurnsApart
    <3>. QED
      BY <1>2, <1>3, <3>1 DEF Principal
  <2>. QED
    BY <2>1, <2>2
<1>5. m = k
  BY <1>4
<1>. QED
  BY <1>1, <1>5

\* Wrapping twice is wrapping once.
LEMMA WrapTwice ==
  \A x \in Principal : x \in Int /\ WrapAngle(x) = x
<1> SUFFICES ASSUME NEW x \in Principal PROVE x \in Int /\ WrapAngle(x) = x
  OBVIOUS
<1>1. x \in Int
  BY HalfIs DEF Principal
<1>2. x + Turn * 0 = x
  BY <1>1, HalfIs
<1>. QED
  BY <1>1, <1>2, WrapUnique

\* An angle duplicates itself, and duplicates are mutual.
LEMMA SameAngleReflexive ==
  \A x \in Int \cup {NaN} : SameAngle(x, x)
<1>1. ASSUME NEW x \in Int PROVE SameAngle(x, x)
  <2>1. x - x = 0 /\ 0 \in Principal
    BY HalfIs DEF Principal
  <2>2. WrapAngle(x - x) = 0
    BY <2>1, WrapTwice
  <2>. QED
    BY <2>2, HalfIs DEF SameAngle
<1>2. SameAngle(NaN, NaN)
  BY DEF SameAngle
<1>. QED
  BY <1>1, <1>2

\* Angles duplicate each other or neither does.
LEMMA SameAngleSymmetric ==
  ASSUME NEW x \in Int, NEW y \in Int, SameAngle(x, y)
  PROVE  SameAngle(y, x)
<1> DEFINE d == WrapAngle(x - y)
<1>1. NaN \notin {x, y}
  BY AngleAssumption
<1>2. d <= Tol /\ -d <= Tol
  BY <1>1 DEF SameAngle
<1>3. x - y \in Int /\ y - x \in Int
  OBVIOUS
<1>4. PICK k \in Int : d = (x - y) + Turn * k
  BY <1>3, WrapIs
<1>5. d \in Principal
  BY <1>3, WrapIs
<1>6. Turn * (-k) = -(Turn * k) /\ Turn * k \in Int
  BY HalfIs
<1>7. -d = (y - x) + Turn * (-k) /\ d \in Int
  BY <1>3, <1>4, <1>6
<1> HIDE DEF d
<1>8. -d \in Principal
  BY <1>2, <1>5, <1>7, HalfIs DEF Principal
<1>9. WrapAngle(y - x) = -d
  <2>1. -k \in Int /\ (y - x) + Turn * (-k) \in Principal
    BY <1>7, <1>8
  <2>. QED
    BY <1>3, <1>7, <2>1, WrapUnique
<1>. QED
  BY <1>2, <1>7, <1>9 DEF SameAngle

------------------------------------------------------------------------------
(* The representative in range that is nearest to a reference *)

\* Division rounds down to the last whole number of turns.
LEMMA FloorIs ==
  ASSUME NEW a \in Int
  PROVE  /\ a \div Turn \in Int
         /\ \A m \in Int : m <= a \div Turn <=> Turn * m <= a
<1> DEFINE n == a \div Turn
<1>1. Turn \in Nat /\ Turn > 0
  BY AngleAssumption
<1>2. n \in Int /\ Turn * n <= a /\ a < Turn * n + Turn /\ Turn * n \in Int
  <2>1. n \in Int /\ a = Turn * n + (a % Turn) /\ a % Turn \in 0..(Turn - 1)
    BY <1>1
  <2>2. Turn * n \in Int
    BY <1>1, <2>1
  <2> HIDE DEF n
  <2>. QED
    BY <1>1, <2>1, <2>2
<1> HIDE DEF n
<1>3. ASSUME NEW m \in Int PROVE m <= n <=> Turn * m <= a
  <2>1. Turn * m \in Int /\ (m <= n => Turn * m <= Turn * n) /\ (n < m => Turn * n + Turn <= Turn * m)
    BY <1>2, TurnsApart
  <2>. QED
    BY <1>1, <1>2, <2>1
<1>. QED
  BY <1>2, <1>3 DEF n

\* And up to the first.
LEMMA CeilIs ==
  ASSUME NEW a \in Int
  PROVE  /\ Ceil(a, Turn) \in Int
         /\ \A m \in Int : Ceil(a, Turn) <= m <=> a <= Turn * m
<1>1. -a \in Int
  OBVIOUS
<1>2. (-a) \div Turn \in Int /\ \A m \in Int : m <= (-a) \div Turn <=> Turn * m <= -a
  BY <1>1, FloorIs
<1>3. ASSUME NEW m \in Int PROVE Ceil(a, Turn) <= m <=> a <= Turn * m
  <2>1. -m <= (-a) \div Turn <=> Turn * (-m) <= -a
    BY <1>2
  <2>2. Turn * (-m) = -(Turn * m) /\ Turn * m \in Int
    BY HalfIs
  <2>. QED
    BY <1>2, <2>1, <2>2 DEF Ceil
<1>. QED
  BY <1>2, <1>3 DEF Ceil

\* Rounding leaves at most half a turn.
LEMMA RoundIs ==
  ASSUME NEW a \in Int
  PROVE  /\ Round(a, Turn) \in Int /\ Turn * Round(a, Turn) \in Int
         /\ 2 * (a - Turn * Round(a, Turn)) <= Turn
         /\ 2 * (Turn * Round(a, Turn) - a) <= Turn
<1>1. Turn \in Nat /\ Turn > 0
  BY AngleAssumption
<1>2. ASSUME NEW b \in Nat
      PROVE  LET k == (2 * b + Turn) \div (2 * Turn) IN
             /\ k \in Int /\ Turn * k \in Int
             /\ 2 * (b - Turn * k) <= Turn /\ 2 * (Turn * k - b) <= Turn
  <2> DEFINE k == (2 * b + Turn) \div (2 * Turn)
  <2> DEFINE r == (2 * b + Turn) % (2 * Turn)
  <2>1. 2 * b + Turn \in Int /\ 2 * Turn \in Nat /\ 2 * Turn > 0
    BY <1>1
  <2>2. k \in Int /\ r \in 0..(2 * Turn - 1) /\ 2 * b + Turn = (2 * Turn) * k + r
    <3> DEFINE u == 2 * b + Turn
    <3> DEFINE w == 2 * Turn
    <3>1. u \in Int /\ w \in Nat /\ w > 0
      BY <2>1
    <3> HIDE DEF u, w
    <3>2. u \div w \in Int /\ u % w \in 0..(w - 1) /\ u = w * (u \div w) + (u % w)
      BY <3>1
    <3>. QED
      BY <3>2 DEF u, w
  <2> HIDE DEF k, r
  <2>3. Turn * k \in Int /\ (2 * Turn) * k = 2 * (Turn * k)
    BY <1>1, <2>2
  <2>4. 2 * (b - Turn * k) <= Turn /\ 2 * (Turn * k - b) <= Turn
    BY <1>1, <2>2, <2>3
  <2>. QED
    BY <2>2, <2>3, <2>4 DEF k
<1>3. CASE a >= 0
  <2>1. a \in Nat /\ Round(a, Turn) = (2 * a + Turn) \div (2 * Turn)
    BY <1>3 DEF Round
  <2>. QED
    BY <1>2, <2>1
<1>4. CASE a < 0
  <2> DEFINE k == (2 * (-a) + Turn) \div (2 * Turn)
  <2>1. -a \in Nat /\ 2 * (-a) + Turn = Turn - 2 * a
    BY <1>1, <1>4
  <2>2. /\ k \in Int /\ Turn * k \in Int
        /\ 2 * (-a - Turn * k) <= Turn /\ 2 * (Turn * k - (-a)) <= Turn
    <3> DEFINE b == -a
    <3>1. b \in Nat /\ k = (2 * b + Turn) \div (2 * Turn)
      BY <2>1
    <3> HIDE DEF b, k
    <3>2. /\ k \in Int /\ Turn * k \in Int
          /\ 2 * (b - Turn * k) <= Turn /\ 2 * (Turn * k - b) <= Turn
      BY <1>2, <3>1
    <3>. QED
      BY <3>2 DEF b
  <2>3. Round(a, Turn) = -k
    BY <1>4, <2>1 DEF Round
  <2> HIDE DEF k
  <2>4. Turn * (-k) = -(Turn * k)
    BY <1>1, <2>2
  <2>. QED
    BY <1>1, <2>2, <2>3, <2>4
<1>. QED
  BY <1>3, <1>4

\* The turns that bring a base within a limit form an interval.
LEMMA WindowIs ==
  ASSUME NEW base \in Int, NEW limit \in Limits, NEW m \in Int
  PROVE  LET kLo == Ceil(limit.lo - base - Tol, Turn)
             kHi == (limit.hi - base + Tol) \div Turn
         IN /\ kLo \in Int /\ kHi \in Int
            /\ WithinLimit(base + Turn * m, limit) <=>
                 (limit.lo = NegInf \/ kLo <= m) /\ (limit.hi = PosInf \/ m <= kHi)
<1>1. limit.lo \in Int /\ limit.hi \in Int /\ Tol \in Int
  BY HalfIs DEF Limits
<1>2. Turn * m \in Int
  BY TurnsApart
<1>3. limit.lo - base - Tol \in Int /\ limit.hi - base + Tol \in Int /\ base + Turn * m # NaN
  BY <1>1, <1>2, AngleAssumption
<1>4. /\ Ceil(limit.lo - base - Tol, Turn) \in Int
      /\ Ceil(limit.lo - base - Tol, Turn) <= m <=> limit.lo - base - Tol <= Turn * m
  BY <1>3, CeilIs
<1>5. /\ (limit.hi - base + Tol) \div Turn \in Int
      /\ m <= (limit.hi - base + Tol) \div Turn <=> Turn * m <= limit.hi - base + Tol
  BY <1>3, FloorIs
<1>6. WithinLimit(base + Turn * m, limit) <=>
        /\ limit.lo = NegInf \/ base + Turn * m >= limit.lo - Tol
        /\ limit.hi = PosInf \/ base + Turn * m <= limit.hi + Tol
  BY <1>3 DEF WithinLimit, AboveLo, BelowHi
<1>7. /\ base + Turn * m >= limit.lo - Tol <=> limit.lo - base - Tol <= Turn * m
      /\ base + Turn * m <= limit.hi + Tol <=> Turn * m <= limit.hi - base + Tol
  BY <1>1, <1>2
<1>. QED
  BY <1>4, <1>5, <1>6, <1>7

\* canonical_angle_in_limits takes whole turns.
LEMMA CanonicalIs ==
  ASSUME NEW x \in Int, NEW limit \in Limits
  PROVE  \E k \in Int : CanonicalInLimit(x, limit) = x + Turn * k
<1>1. limit.lo \in Int /\ limit.hi \in Int /\ Tol \in Int /\ x # NaN
  BY HalfIs, AngleAssumption DEF Limits
<1>2. limit.lo - x - Tol \in Int /\ limit.hi - x + Tol \in Int
  BY <1>1
<1>3. Ceil(limit.lo - x - Tol, Turn) \in Int /\ (limit.hi - x + Tol) \div Turn \in Int
  BY <1>2, CeilIs, FloorIs
<1>4. x = x + Turn * 0
  BY HalfIs
<1>. QED
  BY <1>3, <1>4 DEF CanonicalInLimit

\* Of the turns in a window, the nearest to the rounded distance from the reference
\* is the nearest of all.
LEMMA ClampNearest ==
  ASSUME NEW d \in Int, NEW kLo \in Int, NEW kHi \in Int,
         NEW hasLo \in BOOLEAN, NEW hasHi \in BOOLEAN,
         NEW m \in Int, hasLo => kLo <= m, hasHi => m <= kHi
  PROVE  LET k == AtMost(AtLeast(Round(d, Turn), kLo, hasLo), kHi, hasHi) IN
         /\ k \in Int /\ (hasLo => kLo <= k) /\ (hasHi => k <= kHi)
         /\ (Turn * k - d) * (Turn * k - d) <= (Turn * m - d) * (Turn * m - d)
<1> DEFINE r == Round(d, Turn)
<1> DEFINE k == AtMost(AtLeast(r, kLo, hasLo), kHi, hasHi)
<1>1. r \in Int /\ Turn * r \in Int /\ 2 * (d - Turn * r) <= Turn /\ 2 * (Turn * r - d) <= Turn
  BY RoundIs
<1> HIDE DEF r
<1>2. /\ k \in Int /\ (hasLo => kLo <= k) /\ (hasHi => k <= kHi)
      /\ \/ k = r
         \/ r < k /\ k <= m
         \/ k < r /\ m <= k
  BY <1>1 DEF AtMost, AtLeast
<1> HIDE DEF k
<1>3. /\ Turn * k \in Int /\ Turn * m \in Int
      /\ (r < k => Turn * r + Turn <= Turn * k) /\ (k < r => Turn * k + Turn <= Turn * r)
      /\ (k <= m => Turn * k <= Turn * m) /\ (m <= k => Turn * m <= Turn * k)
      /\ (m < k => Turn * m + Turn <= Turn * k) /\ (k < m => Turn * k + Turn <= Turn * m)
  BY <1>1, <1>2, TurnsApart
<1> DEFINE a == Turn * k - d
<1> DEFINE b == Turn * m - d
<1>4. a \in Int /\ b \in Int
  BY <1>3
<1>5. a = b \/ (a >= -b /\ b <= 0 /\ a >= 0 /\ a <= -b) \/ (a <= b /\ -a <= b) \/ (a >= b /\ -a >= b)
  <2>1. Turn \in Nat
    BY HalfIs
  <2>2. CASE k = r
    BY <1>1, <1>2, <1>3, <2>1, <2>2
  <2>3. CASE r < k /\ k <= m
    BY <1>1, <1>2, <1>3, <2>1, <2>3
  <2>4. CASE k < r /\ m <= k
    BY <1>1, <1>2, <1>3, <2>1, <2>4
  <2>. QED
    BY <1>2, <2>2, <2>3, <2>4
<1> HIDE DEF a, b
<1>6. a * a <= b * b
  <2>1. \A p, q \in Int : p <= q /\ -p <= q => p * p <= q * q
    <3>1. ASSUME NEW p \in Int, NEW q \in Int, p <= q, -p <= q PROVE p * p <= q * q
      <4>1. q - p >= 0 /\ q + p >= 0 /\ q - p \in Int /\ q + p \in Int
        BY <3>1
      <4>2. \A u, w \in Int : u >= 0 /\ w >= 0 => u * w >= 0
        OBVIOUS
      <4>3. (q - p) * (q + p) >= 0
        BY <4>1, <4>2
      <4>4. (q - p) * (q + p) = q * q - p * p
        OBVIOUS
      <4>5. q * q \in Int /\ p * p \in Int
        OBVIOUS
      <4>. QED
        BY <4>3, <4>4, <4>5
    <3>. QED
      BY <3>1
  <2>2. b * b = (-b) * (-b)
    BY <1>4
  <2>3. a * a \in Int /\ b * b \in Int /\ -b \in Int
    BY <1>4
  <2>4. a = b \/ (a <= b /\ -a <= b) \/ (a <= -b /\ -a <= -b)
    BY <1>4, <1>5
  <2>. QED
    BY <1>4, <2>1, <2>2, <2>3, <2>4
<1>. QED
  BY <1>2, <1>6 DEF a, b, k, r

\* What unwrapping makes of an angle: it goes on standing for the same angle, and when
\* some whole turns bring the angle within the limit then it is within the limit, and
\* none that is within is nearer to the reference.
LEMMA UnwrapIs ==
  ASSUME NEW x \in Int, NEW limit \in Limits, NEW reference \in Int,
         limit.lo # NegInf \/ limit.hi # PosInf
  PROVE  LET u == UnwrapToRangeNearest(x, limit, reference) IN
         /\ u \in Int /\ \E k \in Int : u = x + Turn * k
         /\ \A m \in Int : WithinLimit(x + Turn * m, limit) =>
              /\ WithinLimit(u, limit)
              /\ (u - reference) * (u - reference)
                   <= (x + Turn * m - reference) * (x + Turn * m - reference)
<1> DEFINE u == UnwrapToRangeNearest(x, limit, reference)
<1> DEFINE base == CanonicalInLimit(x, limit)
<1> DEFINE kLo == Ceil(limit.lo - base - Tol, Turn)
<1> DEFINE kHi == (limit.hi - base + Tol) \div Turn
<1> DEFINE hasLo == limit.lo # NegInf
<1> DEFINE hasHi == limit.hi # PosInf
<1> DEFINE k == AtMost(AtLeast(Round(reference - base, Turn), kLo, hasLo), kHi, hasHi)
<1>1. PICK n \in Int : base = x + Turn * n
  BY CanonicalIs
<1>2. Turn * n \in Int /\ base \in Int
  <2>1. Turn * n \in Int
    BY TurnsApart
  <2>. QED
    BY <1>1, <2>1
<1>3. u = IF hasLo /\ hasHi /\ kLo > kHi THEN base ELSE base + Turn * k
  BY AngleAssumption DEF UnwrapToRangeNearest
<1> HIDE DEF u, base
<1>4. kLo \in Int /\ kHi \in Int /\ reference - base \in Int
  <2>1. 0 \in Int
    OBVIOUS
  <2>. QED
    BY <1>2, <2>1, WindowIs
<1>5. \A m \in Int : WithinLimit(base + Turn * m, limit) <=>
        (hasLo => kLo <= m) /\ (hasHi => m <= kHi)
  BY <1>2, WindowIs
<1>6. hasLo \in BOOLEAN /\ hasHi \in BOOLEAN
  OBVIOUS
<1> HIDE DEF kLo, kHi, hasLo, hasHi
<1>7. \A m \in Int : Turn * m \in Int /\ Turn * (n + m) = Turn * n + Turn * m /\ Turn * (m - n) = Turn * m - Turn * n
  BY HalfIs
<1>8. k \in Int
  <2>1. Round(reference - base, Turn) \in Int
    BY <1>4, RoundIs
  <2>. QED
    BY <1>4, <2>1 DEF AtMost, AtLeast
<1>9. u \in Int /\ \E i \in Int : u = x + Turn * i
  <2> HIDE DEF k
  <2>0. Turn * k \in Int /\ Turn * (n + k) = Turn * n + Turn * k
    BY <1>7, <1>8
  <2>1. base + Turn * k = x + Turn * (n + k) /\ n + k \in Int /\ base + Turn * k \in Int
    BY <1>1, <1>2, <1>8, <2>0
  <2>. QED
    BY <1>1, <1>2, <1>3, <2>1
<1>10. ASSUME NEW m0 \in Int, WithinLimit(x + Turn * m0, limit)
       PROVE  /\ WithinLimit(u, limit)
              /\ (u - reference) * (u - reference)
                   <= (x + Turn * m0 - reference) * (x + Turn * m0 - reference)
  <2> DEFINE m == m0 - n
  <2>1. m \in Int /\ base + Turn * m = x + Turn * m0
    BY <1>1, <1>2, <1>7
  <2> HIDE DEF m
  <2>2. (hasLo => kLo <= m) /\ (hasHi => m <= kHi)
    BY <1>5, <1>10, <2>1
  <2>3. ~(hasLo /\ hasHi /\ kLo > kHi)
    BY <1>4, <2>1, <2>2
  <2>4. u = base + Turn * k
    BY <1>3, <2>3
  <2> DEFINE d == reference - base
  <2>5. /\ (hasLo => kLo <= k) /\ (hasHi => k <= kHi)
        /\ (Turn * k - d) * (Turn * k - d) <= (Turn * m - d) * (Turn * m - d)
    <3>1. d \in Int /\ k = AtMost(AtLeast(Round(d, Turn), kLo, hasLo), kHi, hasHi)
      BY <1>4
    <3> HIDE DEF d, k
    <3>. QED
      BY <1>4, <1>6, <2>1, <2>2, <3>1, ClampNearest
  <2> HIDE DEF k
  <2>6. WithinLimit(u, limit)
    BY <1>5, <1>8, <2>4, <2>5
  <2>7. Turn * k - d = u - reference /\ Turn * m - d = x + Turn * m0 - reference
    <3>1. Turn * k \in Int /\ Turn * m \in Int /\ Turn * m0 \in Int
      BY <1>7, <1>8, <2>1
    <3>. QED
      BY <1>2, <2>1, <2>4, <3>1
  <2>. QED
    BY <2>5, <2>6, <2>7
<1>. QED
  BY <1>9, <1>10 DEF u

------------------------------------------------------------------------------
(* Configurations *)

Angle == Int \cup {NaN}

\* Only the planar arm can compute a NaN, and it has two joints.
Config(kind) == IF kind \in {"2r", "3r"} THEN [1..2 -> Angle] ELSE [1..4 -> Int]

KindNames == {"2r", "3r", "6r", "opw", "opw_raw"}

\* A function on 1..n is a sequence.
LEMMA TupleIs ==
  ASSUME NEW n \in Nat, NEW S, NEW q \in [1..n -> S]
  PROVE  q \in Seq(S) /\ Len(q) = n /\ DOMAIN q = 1..n
OBVIOUS

\* A configuration is a sequence of angles, of two joints or of four.
LEMMA ConfigIs ==
  ASSUME NEW kind, NEW q \in Config(kind)
  PROVE  /\ q \in Seq(Angle) /\ DOMAIN q = 1..Len(q)
         /\ Len(q) = (IF kind \in {"2r", "3r"} THEN 2 ELSE 4)
         /\ \A j \in DOMAIN q : q[j] \in Angle /\ (kind \notin {"2r", "3r"} => q[j] \in Int)
<1> DEFINE planar == kind \in {"2r", "3r"}
<1>1. (planar => q \in [1..2 -> Angle]) /\ (~planar => q \in [1..4 -> Int])
  BY DEF Config
<1> HIDE DEF planar
<1>2. CASE planar
  <2>1. q \in [1..2 -> Angle]
    BY <1>1, <1>2
  <2>2. q \in Seq(Angle) /\ Len(q) = 2 /\ DOMAIN q = 1..2
    BY <2>1, TupleIs
  <2>3. \A j \in DOMAIN q : q[j] \in Angle
    BY <2>1, <2>2
  <2>. QED
    BY <1>2, <2>2, <2>3 DEF planar
<1>3. CASE ~planar
  <2>1. q \in [1..4 -> Int] /\ Int \subseteq Angle
    BY <1>1, <1>3 DEF Angle
  <2>2. q \in [1..4 -> Angle] /\ \A j \in 1..4 : q[j] \in Int /\ q[j] \in Angle
    BY <2>1
  <2>3. q \in Seq(Angle) /\ Len(q) = 4 /\ DOMAIN q = 1..4
    BY <2>2, TupleIs
  <2>. QED
    BY <1>3, <2>2, <2>3 DEF planar
<1>. QED
  BY <1>2, <1>3

\* Wrapping leaves a NaN alone.
LEMMA WrapAngleType ==
  ASSUME NEW x \in Angle
  PROVE  /\ WrapAngle(x) \in Angle /\ WrapAngle(WrapAngle(x)) = WrapAngle(x)
         /\ x \in Int => WrapAngle(x) \in Principal
<1>1. ASSUME x \in Int
      PROVE  WrapAngle(x) \in Angle /\ WrapAngle(WrapAngle(x)) = WrapAngle(x) /\ WrapAngle(x) \in Principal
  <2>1. WrapAngle(x) \in Principal
    BY <1>1, WrapIs
  <2>. QED
    BY <2>1, WrapTwice DEF Angle
<1>2. WrapAngle(NaN) = NaN /\ NaN \in Angle /\ NaN \notin Int
  BY AngleAssumption DEF WrapAngle, Angle
<1>. QED
  BY <1>1, <1>2 DEF Angle

\* Wrapping a configuration gives one of its kind, once and for all.
LEMMA WrapConfigIs ==
  ASSUME NEW kind, NEW q \in Config(kind)
  PROVE  /\ WrapConfig(q) \in Config(kind) /\ WrapConfig(WrapConfig(q)) = WrapConfig(q)
         /\ DOMAIN WrapConfig(q) = DOMAIN q
         /\ kind \notin {"2r", "3r"} =>
              \A j \in DOMAIN WrapConfig(q) : WrapConfig(q)[j] \in Principal
<1>1. WrapConfig(q) = [j \in DOMAIN q |-> WrapAngle(q[j])]
  BY DEF WrapConfig
<1>2. \A j \in DOMAIN q :
        /\ WrapAngle(q[j]) \in Angle /\ WrapAngle(WrapAngle(q[j])) = WrapAngle(q[j])
        /\ kind \notin {"2r", "3r"} => WrapAngle(q[j]) \in Principal
  <2> SUFFICES ASSUME NEW j \in DOMAIN q
               PROVE  /\ WrapAngle(q[j]) \in Angle /\ WrapAngle(WrapAngle(q[j])) = WrapAngle(q[j])
                      /\ kind \notin {"2r", "3r"} => WrapAngle(q[j]) \in Principal
    OBVIOUS
  <2> DEFINE x == q[j]
  <2>1. x \in Angle /\ (kind \notin {"2r", "3r"} => x \in Int)
    BY ConfigIs
  <2> HIDE DEF x
  <2>2. /\ WrapAngle(x) \in Angle /\ WrapAngle(WrapAngle(x)) = WrapAngle(x)
        /\ x \in Int => WrapAngle(x) \in Principal
    BY <2>1, WrapAngleType
  <2>. QED
    BY <2>1, <2>2 DEF x
<1>3. Principal \subseteq Int
  BY WrapTwice
<1> DEFINE w == WrapConfig(q)
<1>4. DOMAIN w = DOMAIN q /\ \A j \in DOMAIN q : w[j] = WrapAngle(q[j])
  BY <1>1
<1>5. WrapConfig(w) = [j \in DOMAIN w |-> WrapAngle(w[j])]
  BY DEF WrapConfig
<1>6. DOMAIN q = (IF kind \in {"2r", "3r"} THEN 1..2 ELSE 1..4)
  BY ConfigIs
<1>7. w = [j \in DOMAIN q |-> w[j]]
  BY <1>1, <1>4
<1> HIDE DEF w
<1>8. WrapConfig(w) = w
  BY <1>2, <1>4, <1>5, <1>7
<1>9. w \in Config(kind)
  BY <1>2, <1>3, <1>4, <1>6, <1>7 DEF Config
<1>. QED
  BY <1>2, <1>4, <1>8, <1>9 DEF w

\* A configuration duplicates itself.
LEMMA CoincideReflexive ==
  ASSUME NEW kind, NEW q \in Config(kind) PROVE Coincide(q, q)
BY ConfigIs, SameAngleReflexive DEF Coincide, Angle

\* Where there is no NaN, duplicates are mutual.
LEMMA CoincideSymmetric ==
  ASSUME NEW kind, kind \notin {"2r", "3r"}, NEW p \in Config(kind), NEW q \in Config(kind),
         Coincide(p, q)
  PROVE  Coincide(q, p)
<1>1. DOMAIN p = 1..4 /\ DOMAIN q = 1..4 /\ \A j \in 1..4 : p[j] \in Int /\ q[j] \in Int
  BY ConfigIs
<1>. QED
  BY <1>1, SameAngleSymmetric DEF Coincide

------------------------------------------------------------------------------
(* What is stored is what was verified *)

Err == Nat \cup {NaN}

\* The solutions and the verified candidates of a solver of this kind belong together.
Matches(res, ver, kind) ==
  /\ res \in Seq(Config(kind)) /\ ver \subseteq [q : Config(kind), err : Err]
  /\ \A v \in ver : \E i \in DOMAIN res : Coincide(v.q, WrapConfig(res[i]))
  /\ kind # "opw_raw" =>
       \A i \in DOMAIN res : \E v \in ver : v.q = WrapConfig(res[i])
  /\ kind \in {"6r", "opw"} =>
       /\ \A i \in DOMAIN res : \A j \in DOMAIN res[i] : res[i][j] \in Principal
       /\ \A i, k \in DOMAIN res : i # k => ~Coincide(res[i], res[k])

\* Before the first candidate.
LEMMA NothingMatches ==
  \A kind : Matches(<< >>, {}, kind)
BY DEF Matches

\* One more solution.
LEMMA AppendIs ==
  ASSUME NEW S, NEW res \in Seq(S), NEW x \in S
  PROVE  LET longer == Append(res, x) IN
         /\ longer \in Seq(S) /\ longer # << >> /\ Len(longer) = Len(res) + 1
         /\ DOMAIN longer = 1..(Len(res) + 1) /\ DOMAIN res = 1..Len(res) /\ Len(res) \in Nat
         /\ longer[Len(res) + 1] = x
         /\ \A i \in DOMAIN res : i \in DOMAIN longer /\ i # Len(res) + 1 /\ longer[i] = res[i]
         /\ \A i \in DOMAIN longer : i = Len(res) + 1 \/ i \in DOMAIN res
OBVIOUS

SolverType == [kind : KindNames, chain : Chains, tol : Tolerances, valid : BOOLEAN]

\* A candidate is stored and recorded together.
LEMMA TryMatches ==
  ASSUME solver \in SolverType, Matches(result, verified, Kind),
         NEW q \in Config(Kind), NEW err \in Err, NEW next, Try(q, err, next)
  PROVE  Matches(result', verified', Kind) /\ solver' = solver
<1> DEFINE w == WrapConfig(q)
<1>1. Kind \in KindNames
  BY DEF Kind, SolverType
<1>2. /\ w \in Config(Kind) /\ WrapConfig(w) = w
      /\ Kind \notin {"2r", "3r"} => \A j \in DOMAIN w : w[j] \in Principal
  BY WrapConfigIs
<1>3. /\ result' = Stored(q, err) /\ solver' = solver
      /\ verified' = IF Passes(err) THEN verified \cup {Seen(q, err)} ELSE verified
  BY DEF Try
<1>4. Seen(q, err) \in [q : Config(Kind), err : Err] /\ Seen(q, err).q = w
  BY <1>2 DEF Seen
<1> DEFINE C == Config(Kind)
<1>5. /\ result \in Seq(C)
      /\ verified' \subseteq [q : C, err : Err]
      /\ \A v \in verified' : v \in verified \/ (v = Seen(q, err) /\ Passes(err))
      /\ verified \subseteq verified'
      /\ Passes(err) => Seen(q, err) \in verified'
  BY <1>3, <1>4 DEF Matches
<1>6. Coincide(w, w)
  BY <1>2, CoincideReflexive
<1> HIDE DEF w
<1>7. \A v \in verified : \E i \in DOMAIN result : Coincide(v.q, WrapConfig(result[i]))
  BY DEF Matches
<1>8. CASE result' = result
  <2>1. Passes(err) => \E i \in DOMAIN result : Coincide(w, WrapConfig(result[i]))
    <3>1. ASSUME Passes(err) PROVE \E i \in DOMAIN result : Coincide(w, WrapConfig(result[i]))
      <4>1. Stored(q, err) # Append(result, w) /\ Stored(q, err) # Append(result, q)
        <5>1. \A x \in C : Append(result, x) # result
          <6>1. \A x \in C : Len(Append(result, x)) = Len(result) + 1 /\ Len(result) \in Nat
            BY <1>5, AppendIs
          <6>. QED
            BY <6>1
        <5>. QED
          BY <1>2, <1>3, <1>8, <5>1
      <4>2. Kind \in {"6r", "opw"} /\ IsDuplicate(w)
        BY <1>1, <3>1, <4>1 DEF Stored, KindNames, w
      <4>3. PICK i \in DOMAIN result : Coincide(w, result[i])
        BY <4>2 DEF IsDuplicate
      <4>4. \E v \in verified : v.q = WrapConfig(result[i])
        BY <4>2 DEF Matches
      <4>5. WrapConfig(result[i]) = result[i]
        <5>1. result[i] \in C /\ DOMAIN result[i] = 1..4
          BY <1>5, <4>2, ConfigIs
        <5>2. \A j \in 1..4 : result[i][j] \in Principal
          BY <4>2, <5>1 DEF Matches
        <5>3. \A j \in 1..4 : WrapAngle(result[i][j]) = result[i][j]
          BY <5>2, WrapTwice
        <5>4. result[i] \in [1..4 -> Int]
          BY <4>2, <5>1 DEF Config
        <5>. QED
          BY <5>1, <5>3, <5>4 DEF WrapConfig
      <4>. QED
        BY <4>3, <4>5
    <3>. QED
      BY <3>1
  <2>2. \A v \in verified' : \E i \in DOMAIN result : Coincide(v.q, WrapConfig(result[i]))
    BY <1>4, <1>5, <1>7, <2>1
  <2>. QED
    BY <1>3, <1>5, <1>8, <2>2 DEF Matches
<1>9. ASSUME NEW x \in C, result' = Append(result, x), WrapConfig(x) = w,
             Kind # "opw_raw" => Passes(err),
             Kind \in {"6r", "opw"} => x = w /\ ~IsDuplicate(w)
      PROVE  Matches(result', verified', Kind)
  <2> DEFINE n == Len(result) + 1
  <2>1. /\ result' \in Seq(C) /\ n \in DOMAIN result' /\ result'[n] = x
        /\ \A i \in DOMAIN result : i \in DOMAIN result' /\ result'[i] = result[i] /\ i # n
        /\ \A i \in DOMAIN result' : i = n \/ i \in DOMAIN result
    <3> HIDE DEF C
    <3>1. n \in 1..n
      BY <1>5
    <3>. QED
      BY <1>5, <1>9, <3>1, AppendIs
  <2> HIDE DEF n
  <2>2. \A v \in verified' : \E i \in DOMAIN result' : Coincide(v.q, WrapConfig(result'[i]))
    BY <1>4, <1>5, <1>6, <1>7, <1>9, <2>1
  <2>3. ASSUME Kind # "opw_raw"
        PROVE  \A i \in DOMAIN result' : \E v \in verified' : v.q = WrapConfig(result'[i])
    BY <1>4, <1>5, <1>9, <2>1, <2>3 DEF Matches
  <2>4. ASSUME Kind \in {"6r", "opw"}
        PROVE  /\ \A i \in DOMAIN result' : \A j \in DOMAIN result'[i] : result'[i][j] \in Principal
               /\ \A i, k \in DOMAIN result' : i # k => ~Coincide(result'[i], result'[k])
    <3>1. \A j \in DOMAIN x : x[j] \in Principal
      BY <1>2, <1>9, <2>4
    <3>2. \A i \in DOMAIN result : ~Coincide(x, result[i])
      BY <1>9, <2>4 DEF IsDuplicate
    <3>3. \A i \in DOMAIN result : ~Coincide(result[i], x)
      <4>1. \A i \in DOMAIN result : result[i] \in C
        BY <1>5
      <4>2. Kind \notin {"2r", "3r"}
        BY <2>4
      <4>. QED
        BY <3>2, <4>1, <4>2, CoincideSymmetric
    <3>. QED
      BY <2>1, <2>4, <3>1, <3>2, <3>3 DEF Matches
  <2>. QED
    BY <1>5, <2>1, <2>2, <2>3, <2>4 DEF Matches
<1>10. CASE Kind = "opw_raw"
  <2>1. result' = Append(result, w)
    BY <1>3, <1>10 DEF Stored, w
  <2>. QED
    BY <1>2, <1>3, <1>9, <1>10, <2>1
<1>11. CASE Kind # "opw_raw" /\ ~Passes(err)
  BY <1>3, <1>8, <1>11 DEF Stored
<1>12. CASE Kind \in {"2r", "3r"} /\ Passes(err)
  <2>1. result' = Append(result, q)
    BY <1>3, <1>12 DEF Stored
  <2>. QED
    BY <1>3, <1>9, <1>12, <2>1 DEF w
<1>13. CASE Kind \in {"6r", "opw"} /\ Passes(err)
  <2>1. result' = IF IsDuplicate(w) THEN result ELSE Append(result, w)
    BY <1>3, <1>13 DEF Stored, w
  <2>. QED
    BY <1>2, <1>3, <1>8, <1>9, <1>13, <2>1
<1>. QED
  BY <1>1, <1>3, <1>10, <1>11, <1>12, <1>13 DEF KindNames
------------------------------------------------------------------------------
(* The solve, step by step *)

ArmType == [q : [1..2 -> Int], err : Nat]
OpwArmType == [q : [1..2 -> Int], wrist : Int \X Int, err : Nat]

\* What the loops hold.
LoopsType ==
  /\ thetas \in Seq(Int) /\ pairs \in Seq(Int) /\ wrists \in Seq(Int \X Int)
  /\ key \in Nat

\* Where a solve can be, and with what.
Stage ==
  /\ pc \in {"theta3", "pair"} => Kind \in {"3r", "6r"}
  /\ pc \in {"pair", "wrist"} => thetas # << >>
  /\ pc = "wrist" => Kind = "6r" /\ arm \in ArmType
  /\ pc = "branch" => Kind \in {"opw", "opw_raw"} /\ (key = 0 \/ arm \in OpwArmType)

\* A solve ends with solutions, or with a reason and no candidate that passed.
Ending ==
  /\ pc = "ready" => result = << >>
  /\ pc \in {"solved", "unwrapped"} => result # << >>
  /\ pc = "failed" =>
       /\ verified = {} /\ result = << >>
       /\ error = "degenerate_geometry" => ~solver.valid \/ Kind \in {"3r", "6r"}
       /\ Kind = "opw" /\ error = "singular_configuration" => domain = Shoulders

Exact ==
  /\ LoopsType
  /\ pc = "none" => result = << >> /\ verified = {}
  /\ pc # "none" => /\ solver \in SolverType /\ Matches(result, verified, Kind)
                    /\ Stage /\ Ending

\* A step that neither tries a candidate nor ends the solve.
LEMMA KeepsMatch ==
  ASSUME Exact, pc # "none", UNCHANGED <<solver, result, verified>>
  PROVE  solver' \in SolverType /\ Matches(result', verified', Kind') /\ Kind' = Kind
BY DEF Exact, Kind

\* Without a solution no candidate has passed.
LEMMA NothingPassed ==
  ASSUME Exact, pc # "none", result = << >>
  PROVE  verified = {}
BY DEF Exact, Matches

\* A solve that returns at once does so with a solution.
LEMMA TryEnds ==
  ASSUME solver \in SolverType, Matches(result, verified, Kind),
         NEW q \in Config(Kind), NEW err \in Err, NEW next, Try(q, err, next)
  PROVE  /\ solver' \in SolverType /\ Matches(result', verified', Kind') /\ Kind' = Kind
         /\ pc' = next \/ (pc' = "solved" /\ result' # << >>)
<1>1. Matches(result', verified', Kind) /\ solver' = solver
  BY TryMatches
<1>2. Kind' = Kind /\ Kind \in KindNames
  BY <1>1 DEF Kind, SolverType
<1>3. Full(result') => result' # << >>
  <2>1. MaxSolutions[Kind] \in {2, 4, 8}
    BY <1>2 DEF MaxSolutions, KindNames
  <2>2. Len(<< >>) = 0
    OBVIOUS
  <2>. QED
    BY <2>1, <2>2 DEF Full
<1>. QED
  BY <1>1, <1>2, <1>3 DEF Try

\* There is no solver.
LEMMA ExactInit == Init => Exact
BY DEF Init, SolverInit, NoLoops, Exact, LoopsType

\* A new solver has solved nothing.
LEMMA NewSolverExact ==
  ASSUME Exact, pc = "none", NEW kind \in KindNames, NEW c \in Chains, NEW tol \in Tolerances,
         NEW valid \in BOOLEAN, NewSolver(kind, c, tol, valid)
  PROVE  Exact'
<1>1. solver' \in SolverType /\ pc' = "ready" /\ UNCHANGED <<loops, result, verified>>
  BY DEF NewSolver, SolverType
<1>2. result' = << >> /\ verified' = {} /\ LoopsType'
  BY <1>1 DEF Exact, LoopsType, loops
<1>3. Matches(result', verified', Kind')
  BY <1>2, NothingMatches
<1>. QED
  BY <1>1, <1>2, <1>3 DEF Exact, Stage, Ending

\* A constructor makes a new solver.
LEMMA ConstructExact == Exact /\ Construct => Exact'
<1> SUFFICES ASSUME Exact, Construct PROVE Exact'
  OBVIOUS
<1>1. PICK kind \in {"2r", "3r", "6r"} : \E c \in Chains, tol \in Tolerances :
        NewSolver(kind, c, tol, Valid(kind, c))
  BY DEF Construct
<1>2. PICK c \in Chains, tol \in Tolerances : NewSolver(kind, c, tol, Valid(kind, c))
  BY <1>1
<1>3. Valid(kind, c) \in BOOLEAN /\ kind \in KindNames /\ pc = "none"
  <2>1. c.revolutes \in BOOLEAN
    BY AnalyticalAssumption DEF ChainType
  <2>. QED
    BY <2>1 DEF Valid, KindNames, Construct
<1>. QED
  BY <1>2, <1>3, NewSolverExact

\* A factory makes a new solver or none.
LEMMA MakeExact == Exact /\ Make => Exact'
<1> SUFFICES ASSUME Exact, Make PROVE Exact'
  OBVIOUS
<1>1. PICK kind \in {"2r", "6r", "opw", "opw_raw"} : \E c \in Chains, tol \in Tolerances :
        \/ NewSolver(kind, c, tol, TRUE)
        \/ error' = "degenerate_geometry" /\ UNCHANGED <<solver, pc, loops, result, verified>>
  BY DEF Make
<1>2. PICK c \in Chains, tol \in Tolerances :
        \/ NewSolver(kind, c, tol, TRUE)
        \/ error' = "degenerate_geometry" /\ UNCHANGED <<solver, pc, loops, result, verified>>
  BY <1>1
<1>3. pc = "none" /\ kind \in KindNames
  BY DEF Make, KindNames
<1>4. CASE NewSolver(kind, c, tol, TRUE)
  BY <1>3, <1>4, NewSolverExact
<1>5. CASE UNCHANGED <<solver, pc, loops, result, verified>>
  BY <1>3, <1>5 DEF Exact, LoopsType, loops
<1>. QED
  BY <1>2, <1>4, <1>5

\* A solve fails before it has a solution.
LEMMA FailExact ==
  ASSUME Exact, pc # "none", result = << >>, NEW reason, Fail(reason),
         reason = "degenerate_geometry" => ~solver.valid \/ Kind \in {"3r", "6r"},
         Kind = "opw" /\ reason = "singular_configuration" => domain = Shoulders
  PROVE  Exact'
<1>1. pc' = "failed" /\ error' = reason /\ Leave /\ UNCHANGED <<solver, domain, result, verified>>
  BY DEF Fail
<1>2. solver' \in SolverType /\ Matches(result', verified', Kind') /\ Kind' = Kind
  BY <1>1, KeepsMatch
<1>3. verified' = {} /\ result' = << >>
  BY <1>1, NothingPassed
<1>4. LoopsType' /\ Stage'
  BY <1>1 DEF Leave, LoopsType, Stage
<1>5. Ending'
  BY <1>1, <1>2, <1>3 DEF Ending
<1>. QED
  BY <1>1, <1>2, <1>4, <1>5 DEF Exact

\* At the end of the loops the solutions decide.
LEMMA ConcludeExact ==
  ASSUME Exact, pc # "none", NEW reason, Conclude(reason),
         reason = "degenerate_geometry" => Kind \in {"3r", "6r"},
         Kind = "opw" /\ reason = "singular_configuration" => domain = Shoulders
  PROVE  Exact'
<1>1. CASE result = << >>
  BY <1>1, FailExact DEF Conclude
<1>2. CASE result # << >>
  <2>1. pc' = "solved" /\ Leave /\ UNCHANGED <<solver, result, verified>>
    BY <1>2 DEF Conclude
  <2>2. solver' \in SolverType /\ Matches(result', verified', Kind')
    BY <2>1, KeepsMatch
  <2>3. LoopsType' /\ Stage' /\ Ending'
    BY <1>2, <2>1 DEF Leave, LoopsType, Stage, Ending
  <2>. QED
    BY <2>1, <2>2, <2>3 DEF Exact
<1>. QED
  BY <1>1, <1>2

\* An unusable chain is refused.
LEMMA InvalidExact == Exact /\ Invalid => Exact'
<1> SUFFICES ASSUME Exact, Invalid PROVE Exact'
  OBVIOUS
<1>1. pc = "ready" /\ ~solver.valid /\ Fail("degenerate_geometry") /\ result = << >>
  BY DEF Invalid, Exact, Ending
<1>. QED
  BY <1>1, FailExact

\* The planar arm's candidates, and how far off they are.
LEMMA PlanarIs ==
  ASSUME solver \in SolverType, NEW gamma \in Int, NEW d
  PROVE  LET tried == PlanarCandidates(gamma, d) IN
         \A i \in {1, 2} : i \in DOMAIN tried => tried[i] \in [1..2 -> Angle]
<1>1. Half \in Int /\ Half \div 2 \in Int /\ home_bend \in Int
  <2>1. solver.chain \in ChainType
    BY AnalyticalAssumption DEF SolverType
  <2>. QED
    BY <2>1, HalfIs DEF home_bend, Chain, ChainType
<1>2. \A num, den : ArcCos(num, den) \in Angle
  BY <1>1 DEF ArcCos, Angle
<1>3. \A x, y \in Angle : Sum(x, y) \in Angle /\ Minus(x) \in Angle
  BY DEF Sum, Minus, Angle
<1> DEFINE alpha == ArcCos(d * d + L1 * L1 - L2 * L2, 2 * L1 * d)
<1> DEFINE beta == ArcCos(L1 * L1 + L2 * L2 - d * d, 2 * L1 * L2)
<1> DEFINE up == <<Sum(gamma, Minus(alpha)), Sum(Half - home_bend, Minus(beta))>>
<1> DEFINE down == <<Sum(gamma, alpha), Sum(beta, -Half - home_bend)>>
<1>4. alpha \in Angle /\ beta \in Angle
  BY <1>2
<1>5. PlanarCandidates(gamma, d) = IF alpha = 0 THEN <<up>> ELSE <<up, down>>
  BY DEF PlanarCandidates
<1> HIDE DEF alpha, beta
<1>6. gamma \in Angle /\ Half - home_bend \in Angle /\ -Half - home_bend \in Angle
  BY <1>1 DEF Angle
<1>7. up \in [1..2 -> Angle] /\ down \in [1..2 -> Angle]
  <2>1. \A x, y \in Angle : <<x, y>> \in [1..2 -> Angle]
    OBVIOUS
  <2>2. Minus(alpha) \in Angle /\ Minus(beta) \in Angle
    BY <1>3, <1>4
  <2>3. /\ Sum(gamma, Minus(alpha)) \in Angle /\ Sum(Half - home_bend, Minus(beta)) \in Angle
        /\ Sum(gamma, alpha) \in Angle /\ Sum(beta, -Half - home_bend) \in Angle
    BY <1>3, <1>4, <1>6, <2>2
  <2>. QED
    BY <2>1, <2>3
<1> HIDE DEF up, down
<1>8. \A x, y : <<x>>[1] = x /\ <<x, y>>[1] = x /\ <<x, y>>[2] = y /\ DOMAIN <<x>> = {1}
  OBVIOUS
<1>. QED
  BY <1>5, <1>7, <1>8

\* The one or two that passed are stored and recorded.
LEMMA Solve2rExact == Exact /\ Solve2r => Exact'
<1> SUFFICES ASSUME Exact, Solve2r PROVE Exact'
  OBVIOUS
<1>1. pc = "ready" /\ Kind = "2r" /\ solver \in SolverType /\ result = << >> /\ LoopsType
  BY DEF Solve2r, Ready, Exact, Ending
<1>2. PICK gamma \in Bearings, seen \in Distances, inPlane \in BOOLEAN :
        LET d == IF L1 = 0 THEN 0 ELSE seen
            tried == PlanarCandidates(gamma, d)
            Kept(i) == IF i \in DOMAIN tried /\ Passes(PlanarError(tried[i], inPlane))
                       THEN <<tried[i]>> ELSE << >>
            passed == Kept(1) \o Kept(2)
        IN IF ~Reach(d) THEN Fail("unreachable")
           ELSE IF passed = << >> THEN Fail("verification_failed")
           ELSE /\ result' = passed /\ pc' = "solved"
                /\ verified' = {Seen(passed[i], PlanarError(passed[i], inPlane)) :
                                  i \in DOMAIN passed}
                /\ UNCHANGED <<solver, loops, error>>
  BY Zenon DEF Solve2r
<1> DEFINE d == IF L1 = 0 THEN 0 ELSE seen
<1> DEFINE tried == PlanarCandidates(gamma, d)
<1> DEFINE Kept(i) == IF i \in DOMAIN tried /\ Passes(PlanarError(tried[i], inPlane))
                      THEN <<tried[i]>> ELSE << >>
<1> DEFINE passed == Kept(1) \o Kept(2)
<1> DEFINE C == Config("2r")
<1>3. passed \in Seq(C)
  <2>1. gamma \in Int /\ C = [1..2 -> Angle]
    BY AnalyticalAssumption DEF Config
  <2>2. \A i \in {1, 2} : i \in DOMAIN tried => tried[i] \in C
    BY <1>1, <2>1, PlanarIs
  <2> HIDE DEF tried, C
  <2>3. \A x \in C : <<x>> \in Seq(C)
    OBVIOUS
  <2>4. << >> \in Seq(C)
    OBVIOUS
  <2>5. Kept(1) \in Seq(C) /\ Kept(2) \in Seq(C)
    BY <2>2, <2>3, <2>4
  <2> HIDE DEF Kept
  <2>. QED
    BY <2>5
<1>4. \/ Fail("unreachable") \/ Fail("verification_failed")
      \/ /\ passed # << >>
         /\ result' = passed /\ pc' = "solved"
         /\ verified' = {Seen(passed[i], PlanarError(passed[i], inPlane)) : i \in DOMAIN passed}
         /\ UNCHANGED <<solver, loops, error>>
  BY <1>2
<1> HIDE DEF passed
<1>5. CASE Fail("unreachable") \/ Fail("verification_failed")
  BY <1>1, <1>5, FailExact
<1>6. CASE /\ passed # << >>
           /\ result' = passed /\ pc' = "solved"
           /\ verified' = {Seen(passed[i], PlanarError(passed[i], inPlane)) : i \in DOMAIN passed}
           /\ UNCHANGED <<solver, loops, error>>
  <2>1. \A i \in DOMAIN passed : passed[i] \in C
    BY <1>3
  <2>2. \A q : PlanarError(q, inPlane) \in Err
    BY DEF PlanarError, Err, Far
  <2>3. \A i \in DOMAIN passed :
          LET s == Seen(passed[i], PlanarError(passed[i], inPlane)) IN
          /\ s \in [q : C, err : Err] /\ s.q = WrapConfig(passed[i])
          /\ Coincide(s.q, WrapConfig(passed[i]))
    <3> SUFFICES ASSUME NEW i \in DOMAIN passed
                 PROVE  LET s == Seen(passed[i], PlanarError(passed[i], inPlane)) IN
                        /\ s \in [q : C, err : Err] /\ s.q = WrapConfig(passed[i])
                        /\ Coincide(s.q, WrapConfig(passed[i]))
      OBVIOUS
    <3>1. WrapConfig(passed[i]) \in C
      BY <2>1, WrapConfigIs
    <3>2. Coincide(WrapConfig(passed[i]), WrapConfig(passed[i]))
      BY <3>1, CoincideReflexive
    <3> HIDE DEF C
    <3>. QED
      BY <2>2, <3>1, <3>2 DEF Seen
  <2> HIDE DEF C
  <2>4. verified' \subseteq [q : C, err : Err]
    BY <1>6, <2>3
  <2>5. \A v \in verified' : \E i \in DOMAIN passed : Coincide(v.q, WrapConfig(passed[i]))
    BY <1>6, <2>3
  <2>6. \A i \in DOMAIN passed : \E v \in verified' : v.q = WrapConfig(passed[i])
    BY <1>6, <2>3
  <2>7. Matches(passed, verified', "2r")
    BY <1>3, <2>4, <2>5, <2>6 DEF Matches, C
  <2>8. Kind' = "2r" /\ solver' \in SolverType
    BY <1>1, <1>6 DEF Kind
  <2>9. LoopsType'
    BY <1>1, <1>6 DEF LoopsType, loops
  <2>. QED
    BY <1>6, <2>7, <2>8, <2>9 DEF Exact, Stage, Ending
<1>. QED
  BY <1>4, <1>5, <1>6

\* A step inside the loops: nothing is tried and nothing ends.
LEMMA LoopStepExact ==
  ASSUME Exact, pc # "none", UNCHANGED <<solver, result, verified>>,
         pc' \in {"theta3", "pair", "wrist", "branch"}, LoopsType', Stage'
  PROVE  Exact'
<1>1. solver' \in SolverType /\ Matches(result', verified', Kind')
  BY KeepsMatch
<1>. QED
  BY <1>1 DEF Exact, Ending

\* A candidate is tried inside the loops.
LEMMA TryExact ==
  ASSUME Exact, pc # "none", NEW q \in Config(Kind), NEW err \in Err,
         NEW next \in {"pair", "wrist", "branch"}, Try(q, err, next), LoopsType',
         Kind' = Kind /\ pc' = next => Stage'
  PROVE  Exact'
<1>1. solver \in SolverType /\ Matches(result, verified, Kind)
  BY DEF Exact
<1>2. /\ solver' \in SolverType /\ Matches(result', verified', Kind') /\ Kind' = Kind
      /\ pc' = next \/ (pc' = "solved" /\ result' # << >>)
  BY <1>1, TryEnds
<1>3. pc' = "solved" => Stage'
  BY DEF Stage
<1>. QED
  BY <1>2, <1>3 DEF Exact, Ending

\* A list without its head.
LEMMA TailIs ==
  ASSUME NEW S, NEW s \in Seq(S), s # << >>
  PROVE  Head(s) \in S /\ Tail(s) \in Seq(S)
OBVIOUS

\* A pair is a sequence.
LEMMA PairIs ==
  ASSUME NEW S, NEW b \in S \X S
  PROVE  b \in [1..2 -> S] /\ b \in Seq(S) /\ Len(b) = 2
<1>1. PICK x \in S, y \in S : b = <<x, y>>
  OBVIOUS
<1>2. <<x, y>> \in [1..2 -> S]
  OBVIOUS
<1>. QED
  BY <1>1, <1>2, TupleIs

\* Subproblem 3 fails or leaves its answers.
LEMMA SolveArmExact == Exact /\ SolveArm => Exact'
<1> SUFFICES ASSUME Exact, SolveArm PROVE Exact'
  OBVIOUS
<1>1. pc = "ready" /\ Kind \in {"3r", "6r"} /\ result = << >>
  BY DEF SolveArm, Ready, Exact, Ending
<1>2. CASE Kind = "6r" /\ Fail("singular_configuration")
  BY <1>1, <1>2, FailExact
<1>3. CASE \E reason \in {"unreachable", "degenerate_geometry"} : Fail(reason)
  BY <1>1, <1>3, FailExact
<1>4. CASE \E ts \in Subproblem3 :
             /\ thetas' = ts /\ pc' = "theta3"
             /\ UNCHANGED <<solver, pairs, wrists, arm, key, domain, result, verified, error>>
  <2>1. thetas' \in Seq(Int)
    <3>1. \A t \in Theta3s : <<t>> \in Seq(Int)
      BY AnalyticalAssumption
    <3>2. \A ts \in Theta3s \X Theta3s : ts \in Seq(Int)
      <4>1. \A ts \in Theta3s \X Theta3s : ts \in Int \X Int
        BY AnalyticalAssumption
      <4>. QED
        BY <4>1, PairIs
    <3>. QED
      BY <1>4, <3>1, <3>2 DEF Subproblem3
  <2>2. Kind' = Kind
    BY <1>4 DEF Kind
  <2>3. LoopsType' /\ Stage'
    BY <1>1, <1>4, <2>1, <2>2 DEF Exact, LoopsType, Stage
  <2>. QED
    BY <1>1, <1>4, <2>3, LoopStepExact
<1>. QED
  BY <1>2, <1>3, <1>4 DEF SolveArm

\* Subproblem 2 leaves its answers for the current joint 3, or there are none.
LEMMA NextTheta3Exact == Exact /\ NextTheta3 => Exact'
<1> SUFFICES ASSUME Exact, NextTheta3 PROVE Exact'
  OBVIOUS
<1>1. /\ pc = "theta3" /\ thetas # << >> /\ Kind \in {"3r", "6r"} /\ LoopsType
      /\ UNCHANGED <<solver, wrists, key, result, verified>>
  BY DEF NextTheta3, Exact, Stage
<1>2. Kind' = Kind
  BY <1>1 DEF Kind
<1>3. \/ pc' = "theta3" /\ thetas' = Tail(thetas) /\ pairs' = pairs
      \/ pc' = "pair" /\ thetas' = thetas /\ pairs' \in Subproblem2
  BY <1>1 DEF NextTheta3
<1>4. thetas' \in Seq(Int)
  <2>1. thetas \in Seq(Int)
    BY <1>1 DEF LoopsType
  <2>. QED
    BY <1>1, <1>3, <2>1, TailIs
<1>5. pairs' \in Seq(Int)
  <2>1. \A ps \in Subproblem2 : ps \in Seq(Int)
    <3>1. \A p \in Pairs : <<p>> \in Seq(Int)
      BY AnalyticalAssumption
    <3>2. \A ps \in Pairs \X Pairs : ps \in Seq(Int)
      <4>1. \A ps \in Pairs \X Pairs : ps \in Int \X Int
        BY AnalyticalAssumption
      <4>. QED
        BY <4>1, PairIs
    <3>. QED
      BY <3>1, <3>2 DEF Subproblem2
  <2>. QED
    BY <1>1, <1>3, <2>1 DEF LoopsType
<1>6. LoopsType' /\ Stage'
  BY <1>1, <1>2, <1>3, <1>4, <1>5 DEF LoopsType, Stage
<1>. QED
  BY <1>1, <1>3, <1>6, LoopStepExact

\* The 3R arm tries what the loops are at.
LEMMA Try3rExact == Exact /\ Try3r => Exact'
<1> SUFFICES ASSUME Exact, Try3r PROVE Exact'
  OBVIOUS
<1>1. /\ pc = "pair" /\ Kind = "3r" /\ pairs # << >> /\ pairs' = Tail(pairs)
      /\ thetas # << >> /\ LoopsType /\ UNCHANGED <<thetas, wrists, key>>
  BY DEF Try3r, Exact, Stage
<1>2. PICK err \in {0, Far} : Try(<<Head(pairs), Head(thetas)>>, err, "pair")
  BY DEF Try3r
<1>3. Head(pairs) \in Int /\ Tail(pairs) \in Seq(Int) /\ Head(thetas) \in Int
  BY <1>1, TailIs DEF LoopsType
<1>4. <<Head(pairs), Head(thetas)>> \in Config(Kind)
  <2>1. \A x, y \in Angle : <<x, y>> \in [1..2 -> Angle]
    OBVIOUS
  <2>2. Head(pairs) \in Angle /\ Head(thetas) \in Angle
    BY <1>3 DEF Angle
  <2>. QED
    BY <1>1, <2>1, <2>2 DEF Config
<1>5. err \in Err
  BY DEF Err, Far
<1>6. LoopsType'
  BY <1>1, <1>3 DEF LoopsType
<1>7. Kind' = Kind /\ pc' = "pair" => Stage'
  BY <1>1 DEF Stage
<1>. QED
  BY <1>1, <1>2, <1>4, <1>5, <1>6, <1>7, TryExact

\* An arm branch of the 6R arm, and the wrists for it.
LEMMA NextPairExact == Exact /\ NextPair => Exact'
<1> SUFFICES ASSUME Exact, NextPair PROVE Exact'
  OBVIOUS
<1>1. /\ pc = "pair" /\ Kind = "6r" /\ pairs # << >> /\ thetas # << >> /\ LoopsType
      /\ pairs' = Tail(pairs) /\ pc' = "wrist" /\ UNCHANGED <<solver, thetas, key, result, verified>>
  BY DEF NextPair, Exact, Stage
<1>2. PICK err \in Errors, ws \in EulerAngles :
        wrists' = ws /\ arm' = [q |-> <<Head(pairs), Head(thetas)>>, err |-> err]
  BY DEF NextPair
<1>3. Head(pairs) \in Int /\ Tail(pairs) \in Seq(Int) /\ Head(thetas) \in Int
  BY <1>1, TailIs DEF LoopsType
<1>4. arm' \in ArmType
  <2>1. \A x, y \in Int : <<x, y>> \in [1..2 -> Int]
    OBVIOUS
  <2>2. err \in Nat
    BY DEF Errors, Far
  <2>. QED
    BY <1>2, <1>3, <2>1, <2>2 DEF ArmType
<1>5. wrists' \in Seq(Int \X Int)
  <2>1. Wrists \subseteq Int \X Int
    BY AnalyticalAssumption
  <2>2. \A w \in Wrists : Flipped(w) \in Int \X Int
    BY <2>1, HalfIs DEF Flipped
  <2>3. \A S : \A u, w \in S : <<u>> \in Seq(S) /\ <<u, w>> \in Seq(S) /\ << >> \in Seq(S)
    OBVIOUS
  <2> DEFINE P == Int \X Int
  <2>4. Wrists \subseteq P /\ \A w \in Wrists : Flipped(w) \in P
    BY <2>1, <2>2
  <2>5. << >> \in Seq(P)
    OBVIOUS
  <2> HIDE DEF P
  <2>6. \A w \in Wrists : <<w>> \in Seq(P) /\ <<w, Flipped(w)>> \in Seq(P)
    BY <2>3, <2>4
  <2>7. ws \in Seq(P)
    BY <2>5, <2>6 DEF EulerAngles
  <2>. QED
    BY <1>2, <2>7 DEF P
<1>6. Kind' = Kind
  BY <1>1 DEF Kind
<1>7. LoopsType' /\ Stage'
  BY <1>1, <1>3, <1>4, <1>5, <1>6 DEF LoopsType, Stage
<1>. QED
  BY <1>1, <1>7, LoopStepExact

\* Two joints behind two.
LEMMA ConcatIs ==
  ASSUME NEW S, NEW a \in Seq(S), NEW b \in Seq(S), Len(a) = 2, Len(b) = 2
  PROVE  a \o b \in [1..4 -> S]
<1>1. a \o b \in Seq(S) /\ Len(a \o b) = Len(a) + Len(b)
  BY ConcatProperties
<1>2. Len(a \o b) = 4
  BY <1>1
<1>3. a \o b \in [1..Len(a \o b) -> S]
  BY <1>1, LenProperties
<1>. QED
  BY <1>2, <1>3

\* Two joints and two more.
LEMMA FourIs ==
  ASSUME NEW S, NEW a \in [1..2 -> S], NEW b \in S \X S
  PROVE  a \o b \in [1..4 -> S]
<1>1. a \in Seq(S) /\ Len(a) = 2
  <2>1. 2 \in Nat
    OBVIOUS
  <2>. QED
    BY <2>1, TupleIs
<1>2. b \in Seq(S) /\ Len(b) = 2
  BY PairIs
<1>. QED
  BY <1>1, <1>2, ConcatIs, Zenon

\* The 6R arm tries an arm branch with a wrist.
LEMMA Try6rExact == Exact /\ Try6r => Exact'
<1> SUFFICES ASSUME Exact, Try6r PROVE Exact'
  OBVIOUS
<1>1. /\ pc = "wrist" /\ Kind = "6r" /\ wrists # << >> /\ wrists' = Tail(wrists)
      /\ thetas # << >> /\ arm \in ArmType /\ LoopsType /\ UNCHANGED <<thetas, pairs, arm, key>>
      /\ Try(arm.q \o Head(wrists), arm.err, "wrist")
  BY DEF Try6r, Exact, Stage
<1>2. Head(wrists) \in Int \X Int /\ Tail(wrists) \in Seq(Int \X Int)
  <2> DEFINE P == Int \X Int
  <2>1. wrists \in Seq(P)
    BY <1>1 DEF LoopsType
  <2> HIDE DEF P
  <2>2. Head(wrists) \in P /\ Tail(wrists) \in Seq(P)
    BY <1>1, <2>1, TailIs
  <2>. QED
    BY <2>2 DEF P
<1>3. arm.q \o Head(wrists) \in Config(Kind) /\ arm.err \in Err
  <2>1. arm.q \in [1..2 -> Int] /\ arm.err \in Nat
    BY <1>1 DEF ArmType
  <2>2. arm.q \o Head(wrists) \in [1..4 -> Int]
    BY <1>2, <2>1, FourIs
  <2>. QED
    BY <1>1, <2>1, <2>2 DEF Config, Err
<1>4. LoopsType'
  BY <1>1, <1>2 DEF LoopsType
<1>5. Kind' = Kind /\ pc' = "wrist" => Stage'
  BY <1>1 DEF Stage
<1>. QED
  BY <1>1, <1>3, <1>4, <1>5, TryExact

\* The end of the innermost loop.
LEMMA WristsDoneExact == Exact /\ WristsDone => Exact'
<1> SUFFICES ASSUME Exact, WristsDone PROVE Exact'
  OBVIOUS
<1>1. /\ pc = "wrist" /\ Kind = "6r" /\ thetas # << >> /\ LoopsType
      /\ pc' = "pair" /\ UNCHANGED <<solver, thetas, pairs, wrists, key, result, verified>>
  BY DEF WristsDone, Exact, Stage
<1>2. LoopsType' /\ Stage'
  BY <1>1 DEF LoopsType, Stage, Kind
<1>. QED
  BY <1>1, <1>2, LoopStepExact

\* The end of the loop over joints 1 and 2.
LEMMA PairsDoneExact == Exact /\ PairsDone => Exact'
<1> SUFFICES ASSUME Exact, PairsDone PROVE Exact'
  OBVIOUS
<1>1. /\ pc = "pair" /\ Kind \in {"3r", "6r"} /\ thetas # << >> /\ LoopsType
      /\ pc' = "theta3" /\ thetas' = Tail(thetas)
      /\ UNCHANGED <<solver, pairs, wrists, key, result, verified>>
  BY DEF PairsDone, Exact, Stage
<1>2. Tail(thetas) \in Seq(Int)
  BY <1>1, TailIs DEF LoopsType
<1>3. LoopsType' /\ Stage'
  BY <1>1, <1>2 DEF LoopsType, Stage, Kind
<1>. QED
  BY <1>1, <1>3, LoopStepExact

\* The end of the loop over joint 3.
LEMMA ArmDoneExact == Exact /\ ArmDone => Exact'
<1> SUFFICES ASSUME Exact, ArmDone PROVE Exact'
  OBVIOUS
<1>1. /\ pc = "theta3" /\ Kind \in {"3r", "6r"}
      /\ \/ Conclude("verification_failed") \/ Conclude("unreachable")
  BY DEF ArmDone, Exact, Stage
<1>. QED
  BY <1>1, ConcludeExact

\* The OPW loop starts at its first branch.
LEMMA SolveOpwExact == Exact /\ SolveOpw => Exact'
<1> SUFFICES ASSUME Exact, SolveOpw PROVE Exact'
  OBVIOUS
<1>1. /\ pc = "ready" /\ Kind \in {"opw", "opw_raw"} /\ LoopsType
      /\ pc' = "branch" /\ key' = 0 /\ UNCHANGED <<solver, thetas, pairs, wrists, result, verified>>
  BY DEF SolveOpw, Ready, Exact
<1>2. LoopsType' /\ Stage'
  BY <1>1 DEF LoopsType, Stage, Kind
<1>. QED
  BY <1>1, <1>2, LoopStepExact

\* An OPW branch is tried, or skipped when it is not finite.
LEMMA TryBranchExact == Exact /\ TryBranch => Exact'
<1> SUFFICES ASSUME Exact, TryBranch PROVE Exact'
  OBVIOUS
<1>1. /\ pc = "branch" /\ Kind \in {"opw", "opw_raw"} /\ LoopsType
      /\ key = 0 \/ arm \in OpwArmType
      /\ key' = key + 1 /\ UNCHANGED <<thetas, pairs, wrists>> /\ solver \in SolverType
  BY DEF TryBranch, Exact, Stage
<1>2. PICK a \in IF key % 2 = 0 THEN ArmBranches(key) ELSE {arm} :
        /\ arm' = a
        /\ IF Chain.finite
           THEN Try(ToUser(a.q \o IF key % 2 = 0 THEN a.wrist ELSE Flipped(a.wrist)), a.err, pc)
           ELSE UNCHANGED <<solver, pc, result, verified, error>>
  BY Zenon DEF TryBranch
<1>3. a \in OpwArmType
  <2>1. CASE key % 2 = 0
    <3> DEFINE shoulder == IF key < 4 THEN "front" ELSE "back"
    <3>1. PICK elbow \in Pairs, w \in {v \in Wrists : v[2] >= 0 /\ (Straight(v) => v[1] = 0)},
               err \in IF shoulder \in domain THEN Errors ELSE {Far} :
            a = [q |-> <<IF shoulder = "front" THEN 0 ELSE -Half, elbow>>, wrist |-> w, err |-> err]
      BY <1>2, <2>1 DEF ArmBranches
    <3> HIDE DEF shoulder
    <3>2. elbow \in Int /\ w \in Int \X Int /\ err \in Nat /\ -Half \in Int
      BY AnalyticalAssumption, HalfIs DEF Errors, Far
    <3>3. \A x, y \in Int : <<x, y>> \in [1..2 -> Int]
      OBVIOUS
    <3>4. <<IF shoulder = "front" THEN 0 ELSE -Half, elbow>> \in [1..2 -> Int]
      BY <3>2, <3>3
    <3>. QED
      BY <3>1, <3>2, <3>4 DEF OpwArmType
  <2>2. CASE key % 2 # 0
    BY <1>1, <1>2, <2>2
  <2>. QED
    BY <2>1, <2>2
<1>4. a.q \in [1..2 -> Int] /\ a.wrist \in Int \X Int /\ a.err \in Nat
  BY <1>3 DEF OpwArmType
<1> DEFINE w == IF key % 2 = 0 THEN a.wrist ELSE Flipped(a.wrist)
<1>5. w \in Int \X Int
  BY <1>4, HalfIs DEF Flipped
<1>6. \A q \in [1..4 -> Int] : ToUser(q) \in Config(Kind)
  <2>1. Chain.offsets \in [1..4 -> Int] /\ Chain.signs \in [1..4 -> {1, -1}]
    <3>1. solver.chain \in ChainType
      BY <1>1, AnalyticalAssumption DEF SolverType
    <3>. QED
      BY <3>1 DEF Chain, ChainType
  <2>2. \A q \in [1..4 -> Int] : \A j \in 1..4 : (q[j] + Chain.offsets[j]) * Chain.signs[j] \in Int
    <3>1. \A x, o \in Int : \A s \in {1, -1} : (x + o) * s \in Int
      OBVIOUS
    <3>. QED
      BY <2>1, <3>1
  <2>3. \A q \in [1..4 -> Int] : ToUser(q) \in [1..4 -> Int]
    BY <2>2 DEF ToUser
  <2>. QED
    BY <1>1, <2>3 DEF Config
<1>7. ToUser(a.q \o w) \in Config(Kind) /\ a.err \in Err
  <2>1. a.q \o w \in [1..4 -> Int]
    BY <1>4, <1>5, FourIs
  <2>. QED
    BY <1>4, <1>6, <2>1 DEF Err
<1>8. LoopsType'
  BY <1>1 DEF LoopsType
<1>9. Kind' = Kind /\ pc' = "branch" => Stage'
  BY <1>1, <1>2, <1>3 DEF Stage
<1>10. CASE Chain.finite
  <2>1. Try(ToUser(a.q \o w), a.err, "branch")
    BY <1>1, <1>2, <1>10
  <2> HIDE DEF w
  <2>. QED
    BY <1>1, <1>7, <1>8, <1>9, <2>1, TryExact
<1>11. CASE ~Chain.finite
  <2>1. UNCHANGED <<solver, pc, result, verified>>
    BY <1>2, <1>11
  <2>2. Stage'
    BY <1>1, <1>9, <2>1 DEF Kind
  <2>. QED
    BY <1>1, <1>8, <2>1, <2>2, LoopStepExact
<1>. QED
  BY <1>10, <1>11

\* The end of the OPW loop.
LEMMA OpwDoneExact == Exact /\ OpwDone => Exact'
<1> SUFFICES ASSUME Exact, OpwDone PROVE Exact'
  OBVIOUS
<1>1. /\ pc = "branch"
      /\ \/ Conclude("unreachable")
         \/ domain = Shoulders /\ Conclude("singular_configuration")
  BY DEF OpwDone
<1>. QED
  BY <1>1, ConcludeExact

\* Every step of a solve.
LEMMA SolveExact == Exact /\ Solve => Exact'
BY InvalidExact, Solve2rExact, SolveArmExact, NextTheta3Exact, Try3rExact, NextPairExact,
   Try6rExact, WristsDoneExact, PairsDoneExact, ArmDoneExact, SolveOpwExact, TryBranchExact,
   OpwDoneExact
   DEF Solve

\* The choices leave the solve as it is.
LEMMA ChooseExact == Exact /\ (Unwrap \/ SelectInRange \/ SelectNearest) => Exact'
<1> SUFFICES ASSUME Exact, Unwrap \/ SelectInRange \/ SelectNearest PROVE Exact'
  OBVIOUS
<1>1. /\ pc # "none" /\ pc' \in {"unwrapped", "picked"} /\ UNCHANGED <<solver, loops, result, verified>>
      /\ pc' = "unwrapped" => pc = "solved"
  BY DEF Unwrap, SelectInRange, SelectNearest
<1>2. solver' \in SolverType /\ Matches(result', verified', Kind')
  BY <1>1, KeepsMatch
<1>3. LoopsType' /\ Stage' /\ Ending'
  BY <1>1 DEF Exact, LoopsType, Stage, Ending, loops
<1>. QED
  BY <1>1, <1>2, <1>3 DEF Exact

\* The next call starts from nothing.
LEMMA AgainExact == Exact /\ Again => Exact'
<1> SUFFICES ASSUME Exact, Again PROVE Exact'
  OBVIOUS
<1>1. /\ pc # "none" /\ pc' = "ready" /\ solver' = solver /\ result' = << >> /\ verified' = {}
      /\ thetas' = << >> /\ pairs' = << >> /\ wrists' = << >> /\ key' = 0
  BY DEF Again, Idle
<1>2. solver' \in SolverType /\ Matches(result', verified', Kind')
  BY <1>1, NothingMatches DEF Exact
<1>3. LoopsType' /\ Stage' /\ Ending'
  BY <1>1 DEF LoopsType, Stage, Ending
<1>. QED
  BY <1>1, <1>2, <1>3 DEF Exact

\* Every step keeps solutions and candidates together.
LEMMA ExactStep == Exact /\ [Next]_vars => Exact'
<1> SUFFICES ASSUME Exact, [Next]_vars PROVE Exact'
  OBVIOUS
<1>1. CASE Solving
  BY <1>1, ConstructExact, MakeExact, SolveExact DEF Solving
<1>2. CASE Unwrap \/ SelectInRange \/ SelectNearest
  BY <1>2, ChooseExact
<1>3. CASE Again
  BY <1>3, AgainExact
<1>4. CASE UNCHANGED vars
  <2>1. UNCHANGED <<solver, pc, thetas, pairs, wrists, arm, key, domain, result, verified, error>>
    BY <1>4 DEF vars, solving, loops
  <2>2. LoopsType'
    BY <2>1 DEF Exact, LoopsType
  <2>3. CASE pc = "none"
    BY <2>1, <2>2, <2>3 DEF Exact
  <2>4. CASE pc # "none"
    <3>1. solver' \in SolverType /\ Matches(result', verified', Kind') /\ Kind' = Kind
      BY <2>1, <2>4, KeepsMatch
    <3>2. Stage' /\ Ending'
      BY <2>1, <2>4, <3>1 DEF Exact, Stage, Ending
    <3>. QED
      BY <2>1, <2>2, <2>4, <3>1, <3>2 DEF Exact
  <2>. QED
    BY <2>3, <2>4
<1>. QED
  BY <1>1, <1>2, <1>3, <1>4 DEF Next

\* So it is throughout.
LEMMA AlwaysExact == Spec => []Exact
<1>. QED
  BY ExactInit, ExactStep, PTL DEF Spec

\* Whatever candidates the loops of the 6R and of the verified OPW solver come to, in
\* whatever order and from whichever branches, the solutions handed out are wrapped
\* into (-pi, pi] and no two of them agree modulo full turns: is_duplicate_config is
\* asked before every push.
THEOREM SolutionsAlwaysDistinct == Spec => []SolutionsDistinct
<1>1. Exact => SolutionsDistinct
  <2> SUFFICES ASSUME Exact, Returned, Kind \in {"6r", "opw"}
               PROVE  /\ \A i \in DOMAIN result : \A j \in DOMAIN result[i] :
                           result[i][j] \in (1 - Half)..Half
                      /\ \A i, k \in DOMAIN result : i # k => ~Coincide(result[i], result[k])
    BY DEF SolutionsDistinct
  <2>. QED
    BY DEF Exact, Returned, Matches, Principal
<1>. QED
  BY <1>1, AlwaysExact, PTL

\* A candidate dropped as a duplicate agrees with a solution that was kept, what is kept
\* has passed the check (unless the policy is the raw one), and a solve that fails has
\* seen no candidate pass and names a reason that is true.
THEOREM SolvesAlwaysExact == Spec => []SolveIsExact
<1>1. Exact => SolveIsExact
  <2> SUFFICES ASSUME Exact PROVE SolveIsExact
    OBVIOUS
  <2>1. Returned => Matches(result, verified, Kind)
    BY DEF Exact, Returned
  <2>2. pc = "failed" => Ending
    BY DEF Exact
  <2>. QED
    BY <2>1, <2>2 DEF SolveIsExact, Matches, Ending
<1>. QED
  BY <1>1, AlwaysExact, PTL

------------------------------------------------------------------------------
(* Distances and choices *)

\* A nonempty set of natural numbers has a least element.
LEMMA LeastNatural ==
  ASSUME NEW T, T \subseteq Nat, T # {}
  PROVE  \E x \in T : \A y \in T : x <= y
<1> DEFINE U == {0..x : x \in T}
<1> DEFINE R == StrictSubsetOrdering(Nat)
<1>1. IsWellFoundedOn(R, FiniteSubsetsOf(Nat))
  BY FS_StrictSubsetOrderingWellFounded
<1>2. U \subseteq FiniteSubsetsOf(Nat) /\ U # {}
  <2>1. \A x \in T : x \in Nat /\ IsFiniteSet(0..x) /\ 0..x \in SUBSET Nat
    BY FS_Interval
  <2>. QED
    BY <2>1 DEF FiniteSubsetsOf
<1>3. PICK m \in U : \A w \in U : <<w, m>> \notin R
  <2> HIDE DEF U, R
  <2>. QED
    BY <1>1, <1>2, WFMin
<1>4. PICK x \in T : m = 0..x
  BY <1>3
<1>5. ASSUME NEW y \in T, y < x PROVE FALSE
  <2>1. 0..y \in SUBSET Nat /\ 0..x \in SUBSET Nat /\ 0..y \subseteq 0..x
    BY <1>5
  <2>2. x \in 0..x /\ x \notin 0..y
    BY <1>5
  <2>3. <<0..y, 0..x>> \in R
    BY <2>1, <2>2 DEF StrictSubsetOrdering
  <2>. QED
    BY <1>3, <1>4, <2>3
<1>. QED
  BY <1>5

\* A configuration without a NaN is a sequence of two or of four numbers.
LEMMA NumberIs ==
  ASSUME NEW kind, NEW q \in Config(kind), ~IsNaN(q)
  PROVE  /\ (DOMAIN q = 1..2 /\ Len(q) = 2) \/ (DOMAIN q = 1..4 /\ Len(q) = 4)
         /\ \A j \in DOMAIN q : q[j] \in Int
<1>1. \A j \in DOMAIN q : q[j] \in Angle /\ q[j] # NaN
  BY ConfigIs DEF IsNaN
<1>2. \A j \in DOMAIN q : q[j] \in Int
  BY <1>1 DEF Angle
<1>3. (DOMAIN q = 1..2 /\ Len(q) = 2) \/ (DOMAIN q = 1..4 /\ Len(q) = 4)
  BY ConfigIs
<1>. QED
  BY <1>2, <1>3

\* Nearer in every joint is nearer.
LEMMA DistanceIs ==
  ASSUME NEW p, NEW q, NEW s \in [1..4 -> Int],
         DOMAIN p = 1..2 \/ DOMAIN p = 1..4, DOMAIN q = DOMAIN p,
         \A j \in DOMAIN p : p[j] \in Int /\ q[j] \in Int,
         \A j \in DOMAIN p : (p[j] - s[j]) * (p[j] - s[j]) <= (q[j] - s[j]) * (q[j] - s[j])
  PROVE  Distance(p, s) \in Nat /\ Distance(q, s) \in Nat /\ Distance(p, s) <= Distance(q, s)
<1> DEFINE P(j) == IF j \in DOMAIN p THEN (p[j] - s[j]) * (p[j] - s[j]) ELSE 0
<1> DEFINE Q(j) == IF j \in DOMAIN q THEN (q[j] - s[j]) * (q[j] - s[j]) ELSE 0
<1>1. \A x \in Int : x * x \in Nat
  <2>1. \A x \in Int : x >= 0 => x * x \in Nat
    OBVIOUS
  <2>2. \A x \in Int : x < 0 => (-x) * (-x) \in Nat /\ x * x = (-x) * (-x)
    OBVIOUS
  <2>. QED
    BY <2>1, <2>2
<1>2. \A j \in 1..4 : P(j) \in Nat /\ Q(j) \in Nat /\ P(j) <= Q(j)
  <2> SUFFICES ASSUME NEW j \in 1..4 PROVE P(j) \in Nat /\ Q(j) \in Nat /\ P(j) <= Q(j)
    OBVIOUS
  <2>1. CASE j \in DOMAIN p
    <3>1. p[j] - s[j] \in Int /\ q[j] - s[j] \in Int
      BY <2>1
    <3>2. (p[j] - s[j]) * (p[j] - s[j]) \in Nat /\ (q[j] - s[j]) * (q[j] - s[j]) \in Nat
      BY <1>1, <3>1
    <3>. QED
      BY <2>1, <3>2
  <2>2. CASE j \notin DOMAIN p
    BY <2>2
  <2>. QED
    BY <2>1, <2>2
<1>3. Distance(p, s) = P(1) + P(2) + P(3) + P(4) /\ Distance(q, s) = Q(1) + Q(2) + Q(3) + Q(4)
  BY DEF Distance
<1> HIDE DEF P, Q
<1>. QED
  BY <1>2, <1>3

\* The first of the nearest is one of them, and none is nearer.
LEMMA NearestIs ==
  ASSUME NEW branches, NEW indices, indices \subseteq Nat, indices # {}, NEW s,
         \A i \in indices : Distance(branches[i], s) \in Nat
  PROVE  \E i \in indices :
           /\ Nearest(branches, indices, s) = branches[i]
           /\ \A k \in indices : Distance(branches[i], s) <= Distance(branches[k], s)
<1> DEFINE cost == [i \in indices |-> Distance(branches[i], s)]
<1> DEFINE First(i) == \A k \in indices : cost[i] < cost[k] \/ (cost[i] = cost[k] /\ i <= k)
<1>1. \A i \in indices : cost[i] = Distance(branches[i], s) /\ cost[i] \in Nat
  OBVIOUS
<1>2. Nearest(branches, indices, s) = branches[CHOOSE i \in indices : First(i)]
  BY Zenon DEF Nearest
<1> HIDE DEF cost
<1>3. \E i \in indices : First(i)
  <2> DEFINE costs == {cost[i] : i \in indices}
  <2>1. costs \subseteq Nat /\ costs # {}
    BY <1>1
  <2>2. PICK c \in costs : \A m \in costs : c <= m
    BY <2>1, LeastNatural
  <2> DEFINE cheapest == {i \in indices : cost[i] = c}
  <2>3. cheapest \subseteq Nat /\ cheapest # {}
    BY <2>2
  <2>4. PICK i \in cheapest : \A m \in cheapest : i <= m
    BY <2>3, LeastNatural
  <2>5. ASSUME NEW k \in indices PROVE cost[i] < cost[k] \/ (cost[i] = cost[k] /\ i <= k)
    <3>1. cost[i] = c /\ i \in indices /\ c <= cost[k] /\ cost[k] \in Nat /\ c \in Nat
      BY <1>1, <2>2, <2>4
    <3>2. cost[k] = c => k \in cheapest
      OBVIOUS
    <3>. QED
      BY <2>4, <3>1, <3>2
  <2>. QED
    BY <2>4, <2>5
<1>4. PICK i \in indices : i = (CHOOSE h \in indices : First(h)) /\ First(i)
  <2> HIDE DEF First
  <2>. QED
    BY <1>3
<1>5. ASSUME NEW k \in indices PROVE cost[i] <= cost[k]
  <2>1. cost[i] \in Nat /\ cost[k] \in Nat
    BY <1>1
  <2>2. cost[i] < cost[k] \/ (cost[i] = cost[k] /\ i <= k)
    BY <1>4
  <2>. QED
    BY <2>1, <2>2
<1>. QED
  BY <1>1, <1>2, <1>4, <1>5

\* A whole number of turns leaves no remainder.
LEMMA WholeTurns ==
  ASSUME NEW k \in Int
  PROVE  (Turn * k) % Turn = 0
<1> DEFINE x == Turn * k
<1> DEFINE n == x \div Turn
<1>1. Turn \in Nat /\ Turn > 0 /\ x \in Int
  BY AngleAssumption
<1> HIDE DEF x
<1>2. n \in Int /\ x = Turn * n + (x % Turn) /\ x % Turn \in 0..(Turn - 1)
  BY <1>1
<1> HIDE DEF n
<1>3. ~(n < k) /\ ~(k < n)
  <2>1. Turn * n \in Int /\ (n < k => Turn * n + Turn <= Turn * k) /\ (k < n => Turn * k + Turn <= Turn * n)
    BY <1>2, TurnsApart
  <2>. QED
    BY <1>1, <1>2, <2>1 DEF x
<1>4. n = k
  BY <1>2, <1>3
<1>5. x = Turn * n
  BY <1>4 DEF x
<1>. QED
  BY <1>1, <1>2, <1>5 DEF x

------------------------------------------------------------------------------
(* The best that a solution stands for *)

\* The limits of a solver's chain, and its kind.
LEMMA ChainIs ==
  ASSUME solver \in SolverType
  PROVE  /\ Chain.limits \in [1..4 -> Limits] /\ Chain.zeroPitch \in [1..4 -> BOOLEAN]
         /\ Kind \in KindNames
<1>1. solver.chain \in ChainType
  BY AnalyticalAssumption DEF SolverType
<1>. QED
  BY <1>1 DEF Chain, ChainType, Kind, SolverType

\* What unwrapping makes of one joint.
LEMMA JointIs ==
  ASSUME solver \in SolverType, NEW j \in 1..4, NEW q, q[j] \in Int, NEW r \in Int
  PROVE  LET y == IF Chain.zeroPitch[j] THEN UnwrapToRangeNearest(q[j], Chain.limits[j], r) ELSE q[j]
         IN /\ y \in Int
            /\ IF Moved(j) THEN (y - q[j]) % Turn = 0 ELSE y = q[j]
            /\ \A x \in Representatives(q, j) :
                 /\ x \in Int /\ WithinLimit(y, Chain.limits[j])
                 /\ (y - r) * (y - r) <= (x - r) * (x - r)
<1> DEFINE limit == Chain.limits[j]
<1> DEFINE y == IF Chain.zeroPitch[j] THEN UnwrapToRangeNearest(q[j], limit, r) ELSE q[j]
<1>1. limit \in Limits
  BY ChainIs
<1>2. CASE Moved(j)
  <2> DEFINE u == UnwrapToRangeNearest(q[j], limit, r)
  <2>1. y = u /\ (limit.lo # NegInf \/ limit.hi # PosInf)
    BY <1>2 DEF Moved
  <2> HIDE DEF limit
  <2>2. /\ u \in Int /\ \E k \in Int : u = q[j] + Turn * k
        /\ \A m \in Int : WithinLimit(q[j] + Turn * m, limit) =>
              /\ WithinLimit(u, limit)
              /\ (u - r) * (u - r) <= (q[j] + Turn * m - r) * (q[j] + Turn * m - r)
    BY <1>1, <2>1, UnwrapIs
  <2> HIDE DEF u
  <2>3. (u - q[j]) % Turn = 0
    <3>1. PICK k \in Int : u = q[j] + Turn * k
      BY <2>2
    <3>2. Turn * k \in Int /\ (Turn * k) % Turn = 0
      BY TurnsApart, WholeTurns
    <3>3. u - q[j] = Turn * k
      BY <3>1, <3>2
    <3>. QED
      BY <3>2, <3>3
  <2>4. ASSUME NEW x \in Representatives(q, j)
        PROVE  /\ x \in Int /\ WithinLimit(u, limit)
               /\ (u - r) * (u - r) <= (x - r) * (x - r)
    <3>1. PICK m \in Turns : x = q[j] + Turn * m
      BY <1>2, <2>4 DEF Representatives
    <3>2. m \in Int /\ Turn * m \in Int
      BY SeedAssumption, TurnsApart
    <3>3. WithinLimit(x, limit)
      BY <2>4 DEF Representatives, limit
    <3>4. x \in Int
      BY <3>1, <3>2
    <3>5. /\ WithinLimit(u, limit)
          /\ (u - r) * (u - r) <= (q[j] + Turn * m - r) * (q[j] + Turn * m - r)
      BY <2>2, <3>1, <3>2, <3>3
    <3> DEFINE Nearer(d) == (u - r) * (u - r) <= d * d
    <3>6. Nearer(x - r)
      <4>1. Nearer(q[j] + Turn * m - r)
        BY <3>5
      <4>2. q[j] + Turn * m - r = x - r
        BY <3>1, <3>2
      <4> HIDE DEF Nearer
      <4>. QED
        BY <4>1, <4>2
    <3>. QED
      BY <3>4, <3>5, <3>6
  <2> HIDE DEF y
  <2>. QED
    BY <1>2, <2>1, <2>2, <2>3, <2>4 DEF y, limit
<1>3. CASE ~Moved(j)
  <2>1. y = q[j]
    <3>1. q[j] # NaN
      BY AngleAssumption
    <3>. QED
      BY <1>3 DEF Moved, UnwrapToRangeNearest
  <2>2. \A x \in Representatives(q, j) : x = q[j] /\ WithinLimit(x, limit)
    BY <1>3 DEF Representatives
  <2>3. q[j] - r \in Int /\ (q[j] - r) * (q[j] - r) \in Int
    <3>1. q[j] - r \in Int
      OBVIOUS
    <3>2. \A z \in Int : z * z \in Int
      OBVIOUS
    <3>. QED
      BY <3>1, <3>2
  <2> HIDE DEF y, limit
  <2>4. (y - r) * (y - r) <= (q[j] - r) * (q[j] - r)
    BY <2>1, <2>3
  <2>. QED
    BY <1>3, <2>1, <2>2, <2>4 DEF y, limit
<1>. QED
  BY <1>2, <1>3

\* A placement takes a representative in every joint.
LEMMA PlacementIs ==
  ASSUME NEW kind, NEW q \in Config(kind), ~IsNaN(q), NEW p \in Placements(q)
  PROVE  DOMAIN p = DOMAIN q /\ \A j \in DOMAIN q : p[j] \in Representatives(q, j)
<1> DEFINE R(j) == Representatives(q, j)
<1>1. p \in IF Len(q) = 2 THEN R(1) \X R(2) ELSE R(1) \X R(2) \X R(3) \X R(4)
  BY DEF Placements
<1> HIDE DEF R
<1>2. CASE DOMAIN q = 1..2 /\ Len(q) = 2
  <2>1. PICK x1 \in R(1), x2 \in R(2) : p = <<x1, x2>>
    BY <1>1, <1>2
  <2>2. DOMAIN p = 1..2 /\ p[1] \in R(1) /\ p[2] \in R(2)
    BY <2>1
  <2>. QED
    BY <1>2, <2>2 DEF R
<1>3. CASE DOMAIN q = 1..4 /\ Len(q) = 4
  <2>1. PICK x1 \in R(1), x2 \in R(2), x3 \in R(3), x4 \in R(4) : p = <<x1, x2, x3, x4>>
    BY <1>1, <1>3
  <2>2. DOMAIN p = 1..4 /\ p[1] \in R(1) /\ p[2] \in R(2) /\ p[3] \in R(3) /\ p[4] \in R(4)
    BY <2>1
  <2>3. \A j \in 1..4 : j = 1 \/ j = 2 \/ j = 3 \/ j = 4
    OBVIOUS
  <2>. QED
    BY <1>3, <2>2, <2>3 DEF R
<1>. QED
  BY <1>2, <1>3, NumberIs

\* Unwrapping a solution gives the best configuration that stands for it.
LEMMA BranchIs ==
  ASSUME solver \in SolverType, NEW kind, NEW q \in Config(kind), NEW s \in [1..4 -> Int]
  PROVE  LET u == UnwrapBranch(q, s) IN
         /\ IsNaN(u) <=> IsNaN(q)
         /\ ~IsNaN(q) =>
              /\ Distance(u, s) \in Nat /\ StandsFor(u, q)
              /\ \A p \in Placements(q) :
                   WithinLimits(u) /\ Distance(p, s) \in Nat /\ Distance(u, s) <= Distance(p, s)
<1> DEFINE u == UnwrapBranch(q, s)
<1> DEFINE Joint(j) == IF Chain.zeroPitch[j] THEN UnwrapToRangeNearest(q[j], Chain.limits[j], s[j]) ELSE q[j]
<1>1. DOMAIN u = DOMAIN q /\ \A j \in DOMAIN q : u[j] = Joint(j)
  BY DEF UnwrapBranch
<1>2. IsNaN(q) => IsNaN(u)
  BY <1>1 DEF IsNaN, UnwrapToRangeNearest
<1>3. ASSUME ~IsNaN(q)
      PROVE  /\ ~IsNaN(u) /\ Distance(u, s) \in Nat /\ StandsFor(u, q)
             /\ \A p \in Placements(q) :
                  WithinLimits(u) /\ Distance(p, s) \in Nat /\ Distance(u, s) <= Distance(p, s)
  <2>1. /\ DOMAIN q = 1..2 \/ DOMAIN q = 1..4
        /\ \A j \in DOMAIN q : q[j] \in Int /\ j \in 1..4 /\ s[j] \in Int
    BY <1>3, NumberIs
  <2>2. \A j \in DOMAIN q :
          /\ Joint(j) \in Int
          /\ IF Moved(j) THEN (Joint(j) - q[j]) % Turn = 0 ELSE Joint(j) = q[j]
          /\ \A x \in Representatives(q, j) :
               /\ x \in Int /\ WithinLimit(Joint(j), Chain.limits[j])
               /\ (Joint(j) - s[j]) * (Joint(j) - s[j]) <= (x - s[j]) * (x - s[j])
    BY <2>1, JointIs
  <2> HIDE DEF u, Joint
  <2>3. ~IsNaN(u) /\ StandsFor(u, q)
    BY <1>1, <2>2, AngleAssumption DEF IsNaN, StandsFor
  <2>4. Distance(u, s) \in Nat
    <3>1. \A j \in DOMAIN u : (u[j] - s[j]) * (u[j] - s[j]) <= (u[j] - s[j]) * (u[j] - s[j])
      <4>1. \A x, y \in Int : (x - y) * (x - y) <= (x - y) * (x - y)
        <5>1. \A x, y \in Int : x - y \in Int
          OBVIOUS
        <5>2. \A z \in Int : z * z \in Int /\ z * z <= z * z
          OBVIOUS
        <5>. QED
          BY <5>1, <5>2
      <4>. QED
        BY <1>1, <2>1, <2>2, <4>1
    <3>. QED
      BY <1>1, <2>1, <2>2, <3>1, DistanceIs
  <2>5. ASSUME NEW p \in Placements(q)
        PROVE  WithinLimits(u) /\ Distance(p, s) \in Nat /\ Distance(u, s) <= Distance(p, s)
    <3>1. DOMAIN p = DOMAIN q /\ \A j \in DOMAIN q : p[j] \in Representatives(q, j)
      BY <1>3, PlacementIs
    <3>2. \A j \in DOMAIN q : /\ p[j] \in Int /\ WithinLimit(u[j], Chain.limits[j])
                              /\ (u[j] - s[j]) * (u[j] - s[j]) <= (p[j] - s[j]) * (p[j] - s[j])
      BY <1>1, <2>2, <3>1
    <3>3. WithinLimits(u)
      BY <1>1, <3>2 DEF WithinLimits
    <3>4. Distance(p, s) \in Nat /\ Distance(u, s) <= Distance(p, s)
      BY <1>1, <2>1, <2>2, <3>1, <3>2, DistanceIs
    <3>. QED
      BY <3>3, <3>4
  <2>. QED
    BY <2>3, <2>4, <2>5
<1>. QED
  BY <1>2, <1>3

\* What the choices keep: the branches on offer are the solutions unwrapped, and the
\* pick made is the best.
Chosen ==
  /\ pc = "unwrapped" =>
       /\ seed \in [1..4 -> Int]
       /\ unwrapped = [i \in DOMAIN result |-> Tagged(UnwrapBranch(result[i], seed))]
  /\ pc = "picked" =>
       pick.status \in {"unranged", "unreachable", "joint_limits_violated", "in_range"}
  /\ PickIsNearest

\* No step of a solve offers or picks anything.
LEMMA SolvingChoosesNothing ==
  ASSUME Exact, Solving
  PROVE  pc' \notin {"unwrapped", "picked"}
<1>1. CASE Construct
  BY <1>1 DEF Construct, NewSolver
<1>2. CASE Make
  BY <1>2 DEF Make, NewSolver
<1>3. ASSUME NEW q, NEW err, NEW next \in {"pair", "wrist", "branch"}, Try(q, err, next)
      PROVE  pc' \notin {"unwrapped", "picked"}
  BY <1>3 DEF Try
<1>4. CASE Invalid \/ SolveArm \/ NextTheta3 \/ NextPair \/ WristsDone \/ PairsDone \/ SolveOpw
  BY <1>4 DEF Invalid, SolveArm, NextTheta3, NextPair, WristsDone, PairsDone, SolveOpw, Fail
<1>8. CASE Solve2r
  <2>1. pc' = "solved" \/ \E reason : Fail(reason)
    BY <1>8 DEF Solve2r
  <2>. QED
    BY <2>1 DEF Fail
<1>5. CASE Try3r \/ Try6r
  BY <1>3, <1>5 DEF Try3r, Try6r
<1>6. CASE TryBranch
  <2>1. pc = "branch" /\ \/ \E q, err : Try(q, err, pc)
                         \/ pc' = pc
    BY <1>6 DEF TryBranch
  <2>. QED
    BY <1>3, <2>1
<1>7. CASE ArmDone \/ OpwDone
  BY <1>7 DEF ArmDone, OpwDone, Conclude, Fail
<1>. QED
  BY <1>1, <1>2, <1>4, <1>5, <1>6, <1>7, <1>8 DEF Solving, Solve

\* Unwrapping offers every solution in its best place.
LEMMA UnwrapChosen == Exact /\ Chosen /\ Unwrap => Chosen'
<1> SUFFICES ASSUME Exact, Chosen, Unwrap PROVE Chosen'
  OBVIOUS
<1>1. /\ pc' = "unwrapped" /\ seed' \in Seeds /\ solver' = solver /\ result' = result
      /\ unwrapped' = [i \in DOMAIN result |-> Tagged(UnwrapBranch(result[i], seed'))]
  BY DEF Unwrap
<1>2. seed' \in [1..4 -> Int]
  BY <1>1, SeedAssumption
<1>3. (unwrapped = [i \in DOMAIN result |-> Tagged(UnwrapBranch(result[i], seed))])'
  BY <1>1 DEF Tagged, UnwrapBranch, WithinLimits, Chain
<1>. QED
  BY <1>1, <1>2, <1>3 DEF Chosen, PickIsNearest

\* The solutions that are numbers, and the distance from each.
LEMMA SolutionsAre ==
  ASSUME Exact, pc # "none"
  PROVE  /\ solver \in SolverType /\ DOMAIN result \subseteq Nat
         /\ \A i \in DOMAIN result : result[i] \in Config(Kind)
<1>1. solver \in SolverType /\ result \in Seq(Config(Kind))
  BY DEF Exact, Matches
<1> DEFINE C == Config(Kind)
<1>2. result \in Seq(C)
  BY <1>1
<1> HIDE DEF C
<1>3. DOMAIN result = 1..Len(result) /\ \A i \in DOMAIN result : result[i] \in C
  BY <1>2
<1>. QED
  BY <1>1, <1>3 DEF C

\* The nearest solution is found from the first on, past any NaN but a leading one.
LEMMA SelectNearestChosen == Exact /\ Chosen /\ SelectNearest => Chosen'
<1> SUFFICES ASSUME Exact, Chosen, SelectNearest PROVE Chosen'
  OBVIOUS
<1>1. /\ pc = "solved" /\ pc' = "picked" /\ seed' \in Seeds /\ result' = result
      /\ pick' = [q |-> FirstNearest(seed'), status |-> "unranged"] /\ result # << >>
  BY DEF SelectNearest, Exact, Ending
<1>2. /\ DOMAIN result \subseteq Nat /\ \A i \in DOMAIN result : result[i] \in Config(Kind)
  BY <1>1, SolutionsAre
<1> DEFINE s == seed'
<1>3. s \in [1..4 -> Int]
  BY <1>1, SeedAssumption
<1>4. 1 \in DOMAIN result /\ Head(result) = result[1]
  <2> DEFINE C == Config(Kind)
  <2>1. result \in Seq(C)
    BY <1>1 DEF Exact, Matches
  <2> HIDE DEF C
  <2>. QED
    BY <1>1, <2>1
<1> HIDE DEF s
<1>5. \E i \in DOMAIN result :
        /\ FirstNearest(s) = result[i]
        /\ \/ IsNaN(result[i])
           \/ \A k \in Numbers(result) : Distance(result[i], s) <= Distance(result[k], s)
  <2>1. CASE IsNaN(Head(result))
    BY <1>4, <2>1 DEF FirstNearest
  <2>2. CASE ~IsNaN(Head(result))
    <3>1. FirstNearest(s) = Nearest(result, Numbers(result), s)
      BY <2>2 DEF FirstNearest
    <3>2. Numbers(result) \subseteq Nat /\ Numbers(result) # {} /\ Numbers(result) \subseteq DOMAIN result
      BY <1>2, <1>4, <2>2 DEF Numbers
    <3>3. \A i \in Numbers(result) : Distance(result[i], s) \in Nat
      <4> SUFFICES ASSUME NEW i \in Numbers(result) PROVE Distance(result[i], s) \in Nat
        OBVIOUS
      <4>1. result[i] \in Config(Kind) /\ ~IsNaN(result[i])
        BY <1>2 DEF Numbers
      <4> DEFINE q == result[i]
      <4>2. (DOMAIN q = 1..2 \/ DOMAIN q = 1..4) /\ \A j \in DOMAIN q : q[j] \in Int /\ s[j] \in Int
        BY <1>3, <4>1, NumberIs
      <4> HIDE DEF q
      <4>3. \A j \in DOMAIN q : (q[j] - s[j]) * (q[j] - s[j]) <= (q[j] - s[j]) * (q[j] - s[j])
        <5>1. \A x, y \in Int : x - y \in Int
          OBVIOUS
        <5>2. \A z \in Int : z * z \in Int /\ z * z <= z * z
          OBVIOUS
        <5>. QED
          BY <4>2, <5>1, <5>2
      <4>4. Distance(q, s) \in Nat
        BY <1>3, <4>2, <4>3, DistanceIs
      <4>. QED
        BY <4>4 DEF q
    <3>4. PICK i \in Numbers(result) :
            /\ Nearest(result, Numbers(result), s) = result[i]
            /\ \A k \in Numbers(result) : Distance(result[i], s) <= Distance(result[k], s)
      BY <3>2, <3>3, NearestIs
    <3>. QED
      BY <3>1, <3>2, <3>4
  <2>. QED
    BY <2>1, <2>2
<1>6. pick'.status = "unranged" /\ pick'.q = FirstNearest(s)
  BY <1>1 DEF s
<1>7. /\ \E i \in DOMAIN result' : pick'.q = result'[i]
      /\ IsNaN(pick'.q) \/ \A k \in Numbers(result') : Distance(pick'.q, seed') <= Distance(result'[k], seed')
  BY <1>1, <1>5, <1>6 DEF s
<1>8. PickIsNearest'
  BY <1>6, <1>7 DEF PickIsNearest, NoneNearer
<1>. QED
  BY <1>1, <1>6, <1>8 DEF Chosen

\* What is on offer: the best that each solution stands for.
LEMMA OffersAre ==
  ASSUME Exact, Chosen, pc = "unwrapped"
  PROVE  /\ seed \in [1..4 -> Int] /\ DOMAIN result \subseteq Nat
         /\ DOMAIN Positions = DOMAIN result /\ Numbers(Positions) = Numbers(result)
         /\ Numbers(result) \subseteq DOMAIN result
         /\ \A i \in Numbers(result) :
              /\ Distance(Positions[i], seed) \in Nat /\ StandsFor(Positions[i], result[i])
              /\ i \in InRange <=> WithinLimits(Positions[i])
              /\ \A p \in Placements(result[i]) :
                   /\ WithinLimits(Positions[i]) /\ Distance(p, seed) \in Nat
                   /\ Distance(Positions[i], seed) <= Distance(p, seed)
<1> DEFINE u(i) == UnwrapBranch(result[i], seed)
<1>1. seed \in [1..4 -> Int] /\ unwrapped = [i \in DOMAIN result |-> Tagged(u(i))]
  BY DEF Chosen
<1>2. /\ solver \in SolverType /\ DOMAIN result \subseteq Nat
      /\ \A i \in DOMAIN result : result[i] \in Config(Kind)
  BY SolutionsAre
<1>3. \A i \in DOMAIN result :
        /\ IsNaN(u(i)) <=> IsNaN(result[i])
        /\ ~IsNaN(result[i]) =>
             /\ Distance(u(i), seed) \in Nat /\ StandsFor(u(i), result[i])
             /\ \A p \in Placements(result[i]) :
                  /\ WithinLimits(u(i)) /\ Distance(p, seed) \in Nat
                  /\ Distance(u(i), seed) <= Distance(p, seed)
  BY <1>1, <1>2, BranchIs
<1> HIDE DEF u
<1>4. \A q : Tagged(q).q = q /\ (Tagged(q).tag = "in_range" <=> WithinLimits(q))
  BY DEF Tagged
<1>5. DOMAIN unwrapped = DOMAIN result /\ \A i \in DOMAIN result : unwrapped[i] = Tagged(u(i))
  BY <1>1
<1>6. /\ DOMAIN Positions = DOMAIN result /\ \A i \in DOMAIN result : Positions[i] = u(i)
      /\ \A i \in DOMAIN result : i \in InRange <=> WithinLimits(u(i))
  BY <1>4, <1>5 DEF Positions, InRange
<1>7. Numbers(Positions) = Numbers(result) /\ Numbers(result) \subseteq DOMAIN result
  BY <1>3, <1>6 DEF Numbers
<1>8. \A i \in Numbers(result) : i \in DOMAIN result /\ ~IsNaN(result[i])
  BY DEF Numbers
<1>. QED
  BY <1>1, <1>2, <1>3, <1>6, <1>7, <1>8

\* The nearest offer in range is the nearest placement; without one there is none.
LEMMA SelectInRangeChosen == Exact /\ Chosen /\ SelectInRange => Chosen'
<1> SUFFICES ASSUME Exact, Chosen, SelectInRange PROVE Chosen'
  OBVIOUS
<1> DEFINE overall == Numbers(Positions)
<1> DEFINE inRange == overall \cap InRange
<1>1. /\ pc = "unwrapped" /\ pc' = "picked"
      /\ UNCHANGED <<solver, result, unwrapped, seed>>
      /\ \/ /\ inRange # {}
            /\ pick' = [q |-> Nearest(Positions, inRange, seed), status |-> "in_range"]
         \/ /\ inRange = {} /\ overall # {}
            /\ pick' = [q |-> Nearest(Positions, overall, seed), status |-> "joint_limits_violated"]
         \/ /\ overall = {}
            /\ pick' = [q |-> << >>, status |-> "unreachable"]
  BY DEF SelectInRange
<1>2. /\ seed \in [1..4 -> Int] /\ overall = Numbers(result) /\ overall \subseteq Nat
      /\ \A i \in overall :
           /\ Distance(Positions[i], seed) \in Nat /\ StandsFor(Positions[i], result[i])
           /\ i \in InRange <=> WithinLimits(Positions[i])
           /\ \A p \in Placements(result[i]) :
                /\ WithinLimits(Positions[i]) /\ Distance(p, seed) \in Nat
                /\ Distance(Positions[i], seed) <= Distance(p, seed)
  BY <1>1, OffersAre
<1>3. /\ Positions' = Positions /\ Numbers(result)' = Numbers(result) /\ seed' = seed
      /\ Numbers(Positions)' = Numbers(Positions)
  BY <1>1 DEF Positions, Numbers, IsNaN
<1>4. \A i : Placements(result[i])' = Placements(result[i])
  BY <1>1 DEF Placements, Representatives, Moved, Chain
<1> HIDE DEF overall
<1>5. CASE inRange # {} /\ pick' = [q |-> Nearest(Positions, inRange, seed), status |-> "in_range"]
  <2>1. inRange \subseteq Nat /\ \A i \in inRange : i \in overall /\ i \in InRange
    BY <1>2
  <2>2. PICK i \in inRange :
          /\ Nearest(Positions, inRange, seed) = Positions[i]
          /\ \A k \in inRange : Distance(Positions[i], seed) <= Distance(Positions[k], seed)
    <3> HIDE DEF inRange
    <3>1. \A i \in inRange : Distance(Positions[i], seed) \in Nat
      BY <1>2, <2>1
    <3>. QED
      BY <1>5, <2>1, <3>1, NearestIs
  <2> DEFINE best == Positions[i]
  <2>3. pick'.q = best /\ pick'.status = "in_range"
    BY <1>5, <2>2
  <2>4. WithinLimits(best) /\ StandsFor(best, result[i]) /\ i \in Numbers(result)
    BY <1>2, <2>1
  <2>5. \A k \in Numbers(result) : \A p \in Placements(result[k]) :
          Distance(best, seed) <= Distance(p, seed)
    <3> SUFFICES ASSUME NEW k \in Numbers(result), NEW p \in Placements(result[k])
                 PROVE  Distance(best, seed) <= Distance(p, seed)
      OBVIOUS
    <3>1. /\ k \in inRange /\ Distance(p, seed) \in Nat
          /\ Distance(Positions[k], seed) <= Distance(p, seed)
      BY <1>2
    <3>2. Distance(best, seed) <= Distance(Positions[k], seed) /\ Distance(best, seed) \in Nat
          /\ Distance(Positions[k], seed) \in Nat
      BY <1>2, <2>1, <2>2, <3>1
    <3>. QED
      BY <3>1, <3>2
  <2>6. (WithinLimits(pick.q))'
    <3> HIDE DEF best
    <3>. QED
      BY <1>1, <2>3, <2>4 DEF WithinLimits, Chain
  <2>7. (\E k \in Numbers(result) : StandsFor(pick.q, result[k]))'
    <3> HIDE DEF best
    <3>1. i \in Numbers(result)'
      BY <1>3, <2>4
    <3>2. StandsFor(pick.q, result[i])'
      BY <1>1, <2>3, <2>4 DEF StandsFor, Moved, Chain
    <3>. QED
      BY <3>1, <3>2
  <2>8. (\A k \in Numbers(result) : \A p \in Placements(result[k]) :
           Distance(pick.q, seed) <= Distance(p, seed))'
    <3> HIDE DEF best
    <3>. QED
      BY <1>3, <1>4, <2>3, <2>5
  <2>9. PickIsNearest'
    BY <2>3, <2>6, <2>7, <2>8 DEF PickIsNearest
  <2>. QED
    BY <1>1, <2>3, <2>9 DEF Chosen
<1>6. CASE /\ inRange = {} /\ overall # {}
           /\ pick' = [q |-> Nearest(Positions, overall, seed), status |-> "joint_limits_violated"]
  <2>1. PICK i \in overall :
          /\ Nearest(Positions, overall, seed) = Positions[i]
          /\ \A k \in overall : Distance(Positions[i], seed) <= Distance(Positions[k], seed)
    BY <1>2, <1>6, NearestIs
  <2>2. pick'.q = Positions[i] /\ pick'.status = "joint_limits_violated"
    BY <1>6, <2>1
  <2>3. \A k \in Numbers(result) : Placements(result[k]) = {}
    BY <1>2, <1>6
  <2>4. (\A k \in Numbers(result) : Placements(result[k]) = {})'
    BY <1>3, <1>4, <2>3
  <2>5. NoneNearer(Positions)'
    BY <1>3, <2>1, <2>2 DEF NoneNearer, overall
  <2>6. PickIsNearest'
    BY <2>2, <2>4, <2>5 DEF PickIsNearest
  <2>. QED
    BY <1>1, <2>2, <2>6 DEF Chosen
<1>7. CASE overall = {} /\ pick' = [q |-> << >>, status |-> "unreachable"]
  <2>1. Numbers(result)' = {} /\ pick'.status = "unreachable"
    BY <1>2, <1>3, <1>7
  <2>2. PickIsNearest'
    BY <2>1 DEF PickIsNearest
  <2>. QED
    BY <1>1, <2>1, <2>2 DEF Chosen
<1>. QED
  BY <1>1, <1>5, <1>6, <1>7

\* Nothing is offered or picked.
LEMMA ChosenInit == Init => Chosen
BY DEF Init, SolverInit, Chosen, PickIsNearest

\* Every step keeps the offers and the pick.
LEMMA ChosenStep == Exact /\ Chosen /\ [Next]_vars => Chosen'
<1> SUFFICES ASSUME Exact, Chosen, [Next]_vars PROVE Chosen'
  OBVIOUS
<1>1. CASE Solving
  BY <1>1, SolvingChoosesNothing DEF Chosen, PickIsNearest
<1>2. CASE Unwrap
  BY <1>2, UnwrapChosen
<1>3. CASE SelectInRange
  BY <1>3, SelectInRangeChosen
<1>4. CASE SelectNearest
  BY <1>4, SelectNearestChosen
<1>5. CASE Again
  BY <1>5 DEF Again, Chosen, PickIsNearest
<1>6. CASE UNCHANGED vars
  <2>1. UNCHANGED <<solver, pc, result, unwrapped, seed, pick>>
    BY <1>6 DEF vars, solving, choosing
  <2>2. (pc = "unwrapped" =>
           /\ seed \in [1..4 -> Int]
           /\ unwrapped = [i \in DOMAIN result |-> Tagged(UnwrapBranch(result[i], seed))])'
    BY <2>1 DEF Chosen, Tagged, UnwrapBranch, WithinLimits, Chain
  <2>3. CASE pc = "picked"
    <3> SUFFICES PickIsNearest'
      BY <2>1, <2>2, <2>3 DEF Chosen
    <3>1. /\ Positions' = Positions /\ Numbers(result)' = Numbers(result)
          /\ Numbers(Positions)' = Numbers(Positions)
          /\ \A i : Placements(result[i])' = Placements(result[i])
      BY <2>1 DEF Positions, Numbers, IsNaN, Placements, Representatives, Moved, Chain
    <3>2. CASE pick.status = "unranged"
      <4>1. (\E i \in DOMAIN result : pick.q = result[i]) /\ (IsNaN(pick.q) \/ NoneNearer(result))
        BY <2>3, <3>2 DEF Chosen, PickIsNearest
      <4>2. ((\E i \in DOMAIN result : pick.q = result[i]) /\ (IsNaN(pick.q) \/ NoneNearer(result)))'
        BY <2>1, <3>1, <4>1 DEF NoneNearer, IsNaN
      <4>. QED
        BY <2>1, <3>2, <4>2 DEF PickIsNearest
    <3>3. CASE pick.status = "unreachable"
      <4>1. Numbers(result) = {}
        BY <2>3, <3>3 DEF Chosen, PickIsNearest
      <4>. QED
        BY <2>1, <3>1, <3>3, <4>1 DEF PickIsNearest
    <3>4. CASE pick.status = "joint_limits_violated"
      <4>1. (\A i \in Numbers(result) : Placements(result[i]) = {}) /\ NoneNearer(Positions)
        BY <2>3, <3>4 DEF Chosen, PickIsNearest
      <4>2. (\A i \in Numbers(result) : Placements(result[i]) = {})'
        BY <3>1, <4>1
      <4>3. NoneNearer(Positions)'
        BY <2>1, <3>1, <4>1 DEF NoneNearer
      <4>. QED
        BY <2>1, <3>4, <4>2, <4>3 DEF PickIsNearest
    <3>5. CASE pick.status = "in_range"
      <4>1. /\ WithinLimits(pick.q) /\ \E i \in Numbers(result) : StandsFor(pick.q, result[i])
            /\ \A i \in Numbers(result) : \A p \in Placements(result[i]) :
                 Distance(pick.q, seed) <= Distance(p, seed)
        BY <2>3, <3>5 DEF Chosen, PickIsNearest
      <4>2. WithinLimits(pick.q)'
        BY <2>1, <4>1 DEF WithinLimits, Chain
      <4>3. (\E i \in Numbers(result) : StandsFor(pick.q, result[i]))'
        <5>1. PICK i \in Numbers(result) : StandsFor(pick.q, result[i])
          BY <4>1
        <5>2. StandsFor(pick.q, result[i])'
          BY <2>1, <5>1 DEF StandsFor, Moved, Chain
        <5>. QED
          BY <3>1, <5>2
      <4>4. (\A i \in Numbers(result) : \A p \in Placements(result[i]) :
               Distance(pick.q, seed) <= Distance(p, seed))'
        BY <2>1, <3>1, <4>1
      <4>. QED
        BY <2>1, <3>5, <4>2, <4>3, <4>4 DEF PickIsNearest
    <3>6. pick.status \in {"unranged", "unreachable", "joint_limits_violated", "in_range"}
      BY <2>3 DEF Chosen
    <3>. QED
      BY <3>2, <3>3, <3>4, <3>5, <3>6
  <2>4. CASE pc # "picked"
    BY <2>1, <2>2, <2>4 DEF Chosen, PickIsNearest
  <2>. QED
    BY <2>3, <2>4
<1>. QED
  BY <1>1, <1>2, <1>3, <1>4, <1>5, <1>6 DEF Next

\* Whatever the solutions, the limits and the seed, the pick is the best of everything
\* the solutions stand for: unwrap_to_range_nearest finds for every joint the nearest
\* angle within its limit whenever there is one, so that one branch per solution is
\* enough, and a pick out of range means that no whole turns would have helped.
THEOREM PickAlwaysNearest == Spec => []PickIsNearest
<1>1. Chosen => PickIsNearest
  BY DEF Chosen
<1>. QED
  BY <1>1, AlwaysExact, ChosenInit, ChosenStep, PTL DEF Spec
==============================================================================
