-------------------------------- MODULE Angles --------------------------------
(***************************************************************************)
(* Joint angles and joint limits, in integer units of which Turn make a    *)
(* full revolution.  Tol stands for the two tolerances of the code that    *)
(* are both the square root of the machine epsilon: the band of            *)
(* within_limits and the width of a duplicate.                             *)
(***************************************************************************)
EXTENDS Integers

CONSTANTS
  Turn,    \* 2*pi
  Tol,     \* sqrt(epsilon)
  NegInf,  \* the lower bound of a joint without one
  PosInf,  \* the upper bound of a joint without one
  NaN      \* the result of 0/0 and of anything computed from it: no angle

ASSUME AngleAssumption ==
  /\ Turn \in Nat /\ Turn > 0 /\ Turn % 2 = 0
  /\ Tol \in Nat /\ 2 * Tol < Turn
  /\ NegInf \in Int /\ PosInf \in Int /\ NaN \notin Int

Half == Turn \div 2

\* Division of a by b > 0, rounded up, and to the nearest with ties away from zero.
Ceil(a, b) == -((-a) \div b)
Round(a, b) == IF a >= 0 THEN (2 * a + b) \div (2 * b) ELSE -((b - 2 * a) \div (2 * b))

\* std::remainder by Turn: nearest to zero, a tie to the even quotient.
Remainder(x) ==
  LET r == x % Turn
      even == ((x - Half) \div Turn) % 2 = 0
  IN IF r < Half \/ (r = Half /\ even) THEN r ELSE r - Turn

\* Slip: the boundary is not nudged, so -pi and pi are both kept.
SlipClosed(x) == IF x = NaN THEN NaN ELSE Remainder(x)

\* wrap_angle: into (-pi, pi].
WrapAngle(x) ==
  IF x = NaN THEN NaN
  ELSE IF Remainder(x) <= -Half THEN Remainder(x) + Turn ELSE Remainder(x)

\* is_duplicate_config, for one joint: nothing is seen to differ from a NaN.
SameAngle(x, y) ==
  \/ NaN \in {x, y}
  \/ LET d == WrapAngle(x - y) IN d <= Tol /\ -d <= Tol

(***************************************************************************)
(* A limit is [lo, hi].  A NaN fails every comparison: within_limits,      *)
(* which looks for a reason to refuse, lets it pass.                       *)
(***************************************************************************)
AboveLo(x, limit) == limit.lo = NegInf \/ x >= limit.lo - Tol
BelowHi(x, limit) == limit.hi = PosInf \/ x <= limit.hi + Tol

\* within_limits, for one joint.
WithinLimit(x, limit) == x = NaN \/ (AboveLo(x, limit) /\ BelowHi(x, limit))

\* canonical_angle_in_limits: the whole turns that bring an angle into its arc.
CanonicalInLimit(x, limit) ==
  IF x = NaN \/ (AboveLo(x, limit) /\ BelowHi(x, limit)) THEN x
  ELSE IF limit.lo # NegInf THEN x + Turn * Ceil(limit.lo - x - Tol, Turn)
  ELSE x + Turn * ((limit.hi - x + Tol) \div Turn)

AtLeast(x, bound, finite) == IF finite /\ x < bound THEN bound ELSE x
AtMost(x, bound, finite) == IF finite /\ x > bound THEN bound ELSE x

\* Slip: the turns are counted from the raw angle and not from its representative.
SlipFromRaw(x, limit, reference) ==
  IF x = NaN \/ (limit.lo = NegInf /\ limit.hi = PosInf) THEN x
  ELSE LET base == CanonicalInLimit(x, limit)
           kLo == Ceil(limit.lo - base - Tol, Turn)
           kHi == (limit.hi - base + Tol) \div Turn
           k == Round(reference - x, Turn)
       IN IF limit.lo # NegInf /\ limit.hi # PosInf /\ kLo > kHi THEN base
          ELSE base + Turn * AtMost(AtLeast(k, kLo, limit.lo # NegInf), kHi, limit.hi # PosInf)

\* unwrap_to_range_nearest: the representative in range that is nearest to the reference.
UnwrapToRangeNearest(x, limit, reference) ==
  IF x = NaN \/ (limit.lo = NegInf /\ limit.hi = PosInf) THEN x
  ELSE LET base == CanonicalInLimit(x, limit)
           kLo == Ceil(limit.lo - base - Tol, Turn)
           kHi == (limit.hi - base + Tol) \div Turn
           k == Round(reference - base, Turn)
       IN IF limit.lo # NegInf /\ limit.hi # PosInf /\ kLo > kHi THEN base
          ELSE base + Turn * AtMost(AtLeast(k, kLo, limit.lo # NegInf), kHi, limit.hi # PosInf)
===============================================================================
