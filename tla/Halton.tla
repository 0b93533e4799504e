-------------------------------- MODULE Halton --------------------------------
(***************************************************************************)
(* halton_seed_generator: where the k-th restart of a multi-start solve    *)
(* begins.  A coordinate is an exact fraction [num, den] of the angle unit *)
(* the joint limits are given in; Turn units make a revolution.            *)
(***************************************************************************)
EXTENDS Integers, Sequences

CONSTANTS
  Turn,    \* k_unbounded_angular_range
  NegInf,  \* the lower bound of a joint without one
  PosInf   \* the upper bound of a joint without one

ASSUME HaltonAssumption ==
  /\ Turn \in Nat /\ Turn > 0
  /\ NegInf \in Int /\ PosInf \in Int /\ NegInf < PosInf

bases == <<2, 3, 5, 7, 11, 13, 17, 19, 23, 29, 31, 37, 41, 43, 47, 53, 59, 61, 67,
           71, 73, 79, 83, 89, 97, 101, 103, 107, 109, 113, 127, 131>>
skip_count == 20

Base(joint) == bases[((joint - 1) % Len(bases)) + 1]

\* The digits of index mirrored behind the point.
HaltonElement(index, base) ==
  LET mirrored[i \in 0..index] ==
        IF i = 0 THEN [num |-> 0, den |-> 1]
        ELSE LET rest == mirrored[i \div base]
             IN [num |-> (i % base) * rest.den + rest.num, den |-> base * rest.den]
  IN mirrored[index]

\* isfinite(position_max - position_min)
FiniteRange(limit) == limit.lo # NegInf /\ limit.hi # PosInf

Scaled(h, limit) ==
  IF FiniteRange(limit)
  THEN [num |-> limit.lo * h.den + h.num * (limit.hi - limit.lo), den |-> h.den]
  ELSE [num |-> (2 * h.num - h.den) * Turn, den |-> 2 * h.den]

\* operator()(index)
SeedGen(limits, index) ==
  [j \in DOMAIN limits |-> Scaled(HaltonElement(index + skip_count + 1, Base(j)), limits[j])]
===============================================================================
