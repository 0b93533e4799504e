--------------------------- MODULE UnwrappedSolver ---------------------------
(***************************************************************************)
(* What a caller does with the solutions of a closed-form solver:          *)
(* unwrapped_solver moves every angle by whole turns into the joint's      *)
(* range and tags the branch, closest_to_seed picks one branch.  The       *)
(* solvers are const and these functions are pure, so that a second choice *)
(* from the same result is the same as a first.                            *)
(***************************************************************************)
EXTENDS Analytical

CONSTANTS
  Seeds,  \* the seeds the caller tries, zero among them
  Turns   \* the whole turns the properties look at

ASSUME SeedAssumption == Seeds \subseteq [1..4 -> Int] /\ Turns \subseteq Int

VARIABLES
  unwrapped,  \* unwrapped_result: a sequence of [q, tag]
  seed,       \* the reference the unwrapping was given
  pick        \* selected_solution [q, status], or the failure; "unranged" without a verdict

choosing == <<unwrapped, seed, pick>>
vars == <<solving, choosing>>

Init == SolverInit /\ unwrapped = << >> /\ seed = Nothing /\ pick = Nothing

Idle == pc \in {"solved", "failed", "picked"}

(***************************************************************************)
(* unwrapped_solver.                                                       *)
(***************************************************************************)
UnwrapBranch(q, ref) ==
  [j \in DOMAIN q |->
     IF Chain.zeroPitch[j] THEN UnwrapToRangeNearest(q[j], Chain.limits[j], ref[j]) ELSE q[j]]

WithinLimits(q) == \A j \in DOMAIN q : WithinLimit(q[j], Chain.limits[j])

Tagged(q) == [q |-> q, tag |-> IF WithinLimits(q) THEN "in_range" ELSE "joint_limits_violated"]

Unwrap ==
  /\ pc = "solved"
  /\ seed' \in Seeds
  /\ unwrapped' = [i \in DOMAIN result |-> Tagged(UnwrapBranch(result[i], seed'))]
  /\ pc' = "unwrapped" /\ pick' = Nothing
  /\ UNCHANGED <<solver, loops, result, verified, error>>

(***************************************************************************)
(* closest_to_seed.  A distance from a NaN is below no other.              *)
(***************************************************************************)
IsNaN(q) == \E j \in DOMAIN q : q[j] = NaN

Distance(q, s) ==
  LET Squared(j) == IF j \in DOMAIN q THEN (q[j] - s[j]) * (q[j] - s[j]) ELSE 0
  IN Squared(1) + Squared(2) + Squared(3) + Squared(4)

\* The branches that can be compared at all.
Numbers(branches) == {i \in DOMAIN branches : ~IsNaN(branches[i])}

\* The first of the nearest to s among some branches.
Nearest(branches, indices, s) ==
  LET cost == [i \in indices |-> Distance(branches[i], s)]
  IN branches[CHOOSE i \in indices : \A k \in indices :
                cost[i] < cost[k] \/ (cost[i] = cost[k] /\ i <= k)]

Positions == [i \in DOMAIN unwrapped |-> unwrapped[i].q]
InRange == {i \in DOMAIN unwrapped : unwrapped[i].tag = "in_range"}

\* The overload for an unwrapped_result: in range if it can, else the nearest overall.
SelectInRange ==
  /\ pc = "unwrapped"
  /\ LET overall == Numbers(Positions)
         inRange == overall \cap InRange
     IN \/ /\ inRange # {}
           /\ pick' = [q |-> Nearest(Positions, inRange, seed), status |-> "in_range"]
        \/ /\ inRange = {} /\ overall # {}
           /\ pick' = [q |-> Nearest(Positions, overall, seed), status |-> "joint_limits_violated"]
        \/ /\ overall = {}
           /\ pick' = [q |-> << >>, status |-> "unreachable"]
  /\ pc' = "picked"
  /\ UNCHANGED <<solver, loops, result, verified, error, unwrapped, seed>>

\* The overload for an analytical_result: std::min_element begins with the first, and
\* a comparison with a NaN never moves it.
FirstNearest(s) ==
  IF IsNaN(Head(result)) THEN Head(result) ELSE Nearest(result, Numbers(result), s)

SelectNearest ==
  /\ pc = "solved"
  /\ seed' \in Seeds
  /\ pick' = [q |-> FirstNearest(seed'), status |-> "unranged"]
  /\ pc' = "picked" /\ unwrapped' = << >>
  /\ UNCHANGED <<solver, loops, result, verified, error>>

\* The next call on the same solver starts from nothing.
Again ==
  /\ Idle
  /\ pc' = "ready" /\ thetas' = << >> /\ pairs' = << >> /\ wrists' = << >>
  /\ arm' = Nothing /\ key' = 0 /\ domain' = {}
  /\ result' = << >> /\ verified' = {} /\ error' = Nothing
  /\ unwrapped' = << >> /\ seed' = Nothing /\ pick' = Nothing
  /\ UNCHANGED solver

Solving == (Construct \/ Make \/ Solve) /\ UNCHANGED choosing

Next == Solving \/ Unwrap \/ SelectInRange \/ SelectNearest \/ Again

Spec == Init /\ [][Next]_vars

(***************************************************************************)
(* Properties.                                                             *)
(***************************************************************************)
Returned == pc = "solved"

\* The 6R solver and the verified OPW solver hand out one representative per
\* configuration, wrapped into (-pi, pi] and no two of them equal modulo full
\* turns, whichever loops, boundary aliases and singular branches they came from.
SolutionsDistinct ==
  Returned /\ Kind \in {"6r", "opw"} =>
    /\ \A i \in DOMAIN result : \A j \in DOMAIN result[i] : result[i][j] \in (1 - Half)..Half
    /\ \A i, k \in DOMAIN result : i # k => ~Coincide(result[i], result[k])

\* A solve loses no solution and reports no wrong reason: every candidate that
\* passed the check is among the solutions up to full turns, every solution is
\* such a candidate (the raw OPW policy aside), and a solve fails only when no
\* candidate passed, as singular_configuration from the OPW solver only when
\* both of its shoulders were in reach.
SolveIsExact ==
  /\ Returned =>
       /\ \A v \in verified : \E i \in DOMAIN result :
            Coincide(v.q, WrapConfig(result[i]))
       /\ Kind # "opw_raw" => \A i \in DOMAIN result : \E v \in verified :
            v.q = WrapConfig(result[i])
  /\ pc = "failed" =>
       /\ verified = {} /\ result = << >>
       /\ error = "degenerate_geometry" => ~solver.valid \/ Kind \in {"3r", "6r"}
       /\ Kind = "opw" /\ error = "singular_configuration" => domain = Shoulders

\* Only a joint that is periodic and bounded on some side is ever moved.
Moved(j) ==
  Chain.zeroPitch[j] /\ (Chain.limits[j].lo # NegInf \/ Chain.limits[j].hi # PosInf)

\* The positions within its limits that stand for an angle of a solution.
Representatives(q, j) ==
  {x \in IF Moved(j) THEN {q[j] + Turn * k : k \in Turns} ELSE {q[j]} :
     WithinLimit(x, Chain.limits[j])}

\* The configurations within the limits that stand for a solution.
Placements(q) ==
  LET R(j) == Representatives(q, j)
  IN IF Len(q) = 2 THEN R(1) \X R(2) ELSE R(1) \X R(2) \X R(3) \X R(4)

\* p is q up to the whole turns of the joints that are moved.
StandsFor(p, q) ==
  \A j \in DOMAIN q : IF Moved(j) THEN (p[j] - q[j]) % Turn = 0 ELSE p[j] = q[j]

NoneNearer(branches) ==
  \A i \in Numbers(branches) : Distance(pick.q, seed) <= Distance(branches[i], seed)

\* The pick is the best of everything the solutions stand for: it stands for one
\* of them within the limits, and over all whole turns of all solutions no
\* configuration within the limits is nearer to the seed.  A pick out of range means
\* that there is none within the limits, and is the nearest of the unwrapped
\* branches.  A pick among the solutions as they are is one of them, and the
\* nearest unless the first is NaN.
PickIsNearest ==
  pc = "picked" =>
    CASE pick.status = "unranged" ->
           /\ \E i \in DOMAIN result : pick.q = result[i]
           /\ IsNaN(pick.q) \/ NoneNearer(result)
      [] pick.status = "unreachable" -> Numbers(result) = {}
      [] pick.status = "joint_limits_violated" ->
           /\ \A i \in Numbers(result) : Placements(result[i]) = {}
           /\ NoneNearer(Positions)
      [] pick.status = "in_range" ->
           /\ WithinLimits(pick.q)
           /\ \E i \in Numbers(result) : StandsFor(pick.q, result[i])
           /\ \A i \in Numbers(result) : \A p \in Placements(result[i]) :
                Distance(pick.q, seed) <= Distance(p, seed)

\* "All candidates are FK-verified; only verified solutions are returned."
OnlyVerifiedReturned ==
  Returned /\ Kind # "opw_raw" => \A v \in verified : v.err # NaN /\ v.err < solver.tol
===============================================================================
