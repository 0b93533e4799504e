------------------------------ MODULE Analytical ------------------------------
(***************************************************************************)
(* The closed-form solvers: planar_2r_solver, spatial_3r_solver,           *)
(* pieper_6r_solver and opw_6r_solver with its two verification policies.  *)
(*                                                                         *)
(* The geometry is abstracted to the outcomes the code tells apart: which  *)
(* subproblem answers, with one angle or two, and how far a candidate's    *)
(* forward kinematics is from the target.  The loops over the candidates,  *)
(* the checks and what is stored are the code's.                           *)
(*                                                                         *)
(* A configuration is a sequence of angles.  Six-joint ones have four:     *)
(* joints 1 and 2 (or the shoulder), joint 3 (or the elbow), joint 4 and   *)
(* joint 5; joint 6 follows joint 4.                                       *)
(***************************************************************************)
EXTENDS Angles, Sequences

CONSTANTS
  Chains,  \* [revolutes, ortho, shoulder, wrist, links, bend, finite, offsets, signs, zeroPitch, limits]
  Tolerances, \* position_tolerance: 1 is the default
  Theta3s, Pairs, Wrists,  \* the angles the subproblems answer with
  Bearings, Distances      \* where the target of a planar arm is

Limits == [lo : Int, hi : Int]

ChainType ==
  [revolutes : BOOLEAN, ortho : BOOLEAN, shoulder : Nat, wrist : Nat, links : Nat \X Nat,
   bend : Int, finite : BOOLEAN, offsets : [1..4 -> Int], signs : [1..4 -> {1, -1}],
   zeroPitch : [1..4 -> BOOLEAN], limits : [1..4 -> Limits]]

ASSUME AnalyticalAssumption ==
  /\ Chains \subseteq ChainType /\ Tolerances \subseteq Nat
  /\ Theta3s \subseteq Int /\ Pairs \subseteq Int /\ Wrists \subseteq Int \X Int
  /\ Bearings \subseteq Int /\ Distances \subseteq Nat

\* How far forward kinematics may be off, and the gap of the widest wrist the constructor takes.
Far == 2
LooseGap == 2

DefaultTolerance == 1

VARIABLES
  solver,    \* the solver object
  pc,        \* where its solve is
  thetas, pairs, wrists,  \* what the loops have left; the head is the current one
  arm,       \* the current arm branch
  key,       \* the OPW branch counter
  domain,    \* the OPW shoulders whose reach checks passed
  result,    \* analytical_result: the solutions stored
  verified,  \* history: the candidates that passed the FK check, with their error
  error      \* the reason of the analytical_error

loops == <<thetas, pairs, wrists, arm, key, domain>>
solving == <<solver, pc, loops, result, verified, error>>

Nothing == "none"

NoLoops == thetas = << >> /\ pairs = << >> /\ wrists = << >> /\ arm = Nothing
           /\ key = 0 /\ domain = {}

SolverInit ==
  /\ solver = Nothing /\ pc = "none" /\ NoLoops
  /\ result = << >> /\ verified = {} /\ error = Nothing

Kind == solver.kind
Chain == solver.chain

(***************************************************************************)
(* Construction.  The wrist and shoulder gaps are in the unit of the       *)
(* tolerances: find_wrist_intersection refuses what exceeds its own.       *)
(***************************************************************************)
Valid(kind, c) == c.revolutes /\ (kind = "6r" => c.wrist <= LooseGap)

\* What planar_2r_solver::make() asks of the two links.
HasLinks(c) == c.links[1] > 0 /\ c.links[2] > 0

Admits(kind, c, tol) ==
  /\ c.revolutes
  /\ kind = "2r" => HasLinks(c)
  /\ kind = "6r" => c.shoulder <= tol
  /\ kind \in {"opw", "opw_raw"} => c.ortho
  /\ kind # "2r" => c.wrist <= tol

NewSolver(kind, c, tol, valid) ==
  /\ solver' = [kind |-> kind, chain |-> c, tol |-> tol, valid |-> valid]
  /\ pc' = "ready" /\ error' = Nothing
  /\ UNCHANGED <<loops, result, verified>>

\* The public constructors, which record an unusable chain instead of refusing it.
Construct ==
  /\ pc = "none"
  /\ \E kind \in {"2r", "3r", "6r"}, c \in Chains, tol \in Tolerances :
       NewSolver(kind, c, tol, Valid(kind, c))

\* The make() factories.
Make ==
  /\ pc = "none"
  /\ \E kind \in {"2r", "6r", "opw", "opw_raw"}, c \in Chains, tol \in Tolerances :
       IF Admits(kind, c, tol)
       THEN NewSolver(kind, c, tol, TRUE)
       ELSE error' = "degenerate_geometry" /\ UNCHANGED <<solver, pc, loops, result, verified>>

(***************************************************************************)
(* Candidates.                                                             *)
(***************************************************************************)
MaxSolutions == [k \in {"2r", "3r", "6r", "opw", "opw_raw"} |->
                   CASE k = "2r" -> 2 [] k = "3r" -> 4 [] OTHER -> 8]

\* verify_analytical_solution: it rejects an error that is not below; a NaN is not rejected.
Passes(err) ==
  LET tol == IF Kind = "opw" THEN solver.tol ELSE DefaultTolerance
  IN IF err = NaN THEN Kind \in {"2r", "3r"} ELSE err < tol

WrapConfig(q) == [j \in DOMAIN q |-> WrapAngle(q[j])]

Coincide(p, q) == \A j \in DOMAIN p : SameAngle(p[j], q[j])

\* Slip: one joint that agrees is taken for the whole configuration.
SlipOneJoint(q) == \E i \in DOMAIN result : \E j \in DOMAIN q : SameAngle(q[j], result[i][j])

\* is_duplicate_config
IsDuplicate(q) == \E i \in DOMAIN result : Coincide(q, result[i])

\* What the result is after a candidate.
Stored(q, err) ==
  CASE Kind = "opw_raw" -> Append(result, WrapConfig(q))
    [] Kind # "opw_raw" /\ ~Passes(err) -> result
    [] Kind \in {"2r", "3r"} /\ Passes(err) -> Append(result, q)
    [] Kind \in {"6r", "opw"} /\ Passes(err) ->
         IF IsDuplicate(WrapConfig(q)) THEN result ELSE Append(result, WrapConfig(q))

Seen(q, err) == [q |-> WrapConfig(q), err |-> err]

Full(solutions) == Len(solutions) >= MaxSolutions[Kind]

\* One candidate tried; the solve returns at once when the result is full.
Try(q, err, next) ==
  /\ result' = Stored(q, err)
  /\ verified' = IF Passes(err) THEN verified \cup {Seen(q, err)} ELSE verified
  /\ pc' = IF Full(result') THEN "solved" ELSE next
  /\ UNCHANGED <<solver, error>>

\* Leaving the loops, which are locals of solve.
Leave ==
  thetas' = << >> /\ pairs' = << >> /\ wrists' = << >> /\ arm' = Nothing /\ key' = 0

Fail(reason) ==
  /\ pc' = "failed" /\ error' = reason /\ Leave
  /\ UNCHANGED <<solver, domain, result, verified>>

\* The end of the loops.
Conclude(reason) ==
  IF result # << >> THEN pc' = "solved" /\ Leave /\ domain' = {} /\ UNCHANGED <<solver, result, verified, error>>
  ELSE Fail(reason)

Ready(kinds) == pc = "ready" /\ solver.valid /\ Kind \in kinds

Invalid == pc = "ready" /\ ~solver.valid /\ Fail("degenerate_geometry")

(***************************************************************************)
(* planar_2r_solver: the law of cosines over the two links.  An angle that *)
(* is neither 0 nor pi is a quarter turn.                                  *)
(***************************************************************************)
\* safe_acos(num / den): the ratio is clamped, 0/0 is not.
ArcCos(num, den) ==
  IF den = 0 /\ num = 0 THEN NaN
  ELSE IF num >= den THEN 0
  ELSE IF num <= -den THEN Half
  ELSE Half \div 2

\* The link lengths and the bend of the home position, which the constructor measures.
L1 == Chain.links[1]
L2 == Chain.links[2]
home_bend == Chain.bend

Sum(a, b) == IF NaN \in {a, b} THEN NaN ELSE a + b
Minus(a) == IF a = NaN THEN NaN ELSE -a

\* The one or two candidates for a target at distance d and bearing gamma.
PlanarCandidates(gamma, d) ==
  LET alpha == ArcCos(d * d + L1 * L1 - L2 * L2, 2 * L1 * d)
      beta == ArcCos(L1 * L1 + L2 * L2 - d * d, 2 * L1 * L2)
      up == <<Sum(gamma, Minus(alpha)), Sum(Half - home_bend, Minus(beta))>>
      down == <<Sum(gamma, alpha), Sum(beta, -Half - home_bend)>>
  IN IF alpha = 0 THEN <<up>> ELSE <<up, down>>

\* A target off the plane of the arm is projected on it, so its candidates miss.
PlanarError(q, inPlane) ==
  IF NaN \in {q[j] : j \in DOMAIN q} THEN NaN ELSE IF inPlane THEN 0 ELSE Far

Reach(d) == d <= L1 + L2 /\ d >= L1 - L2 /\ d >= L2 - L1

Solve2r ==
  /\ Ready({"2r"})
  /\ \E gamma \in Bearings, seen \in Distances, inPlane \in BOOLEAN :
       \* Without a first link the in-plane basis is zero, and so is the distance it measures.
       LET d == IF L1 = 0 THEN 0 ELSE seen
           tried == PlanarCandidates(gamma, d)
           Kept(i) == IF i \in DOMAIN tried /\ Passes(PlanarError(tried[i], inPlane))
                      THEN <<tried[i]>> ELSE << >>
           passed == Kept(1) \o Kept(2)
       IN IF ~Reach(d) THEN Fail("unreachable")
          ELSE IF passed = << >> THEN Fail("verification_failed")
          ELSE /\ result' = passed /\ pc' = "solved"
               /\ verified' = {Seen(passed[i], PlanarError(passed[i], inPlane)) :
                                 i \in DOMAIN passed}
               /\ UNCHANGED <<solver, loops, error>>

(***************************************************************************)
(* spatial_3r_solver and pieper_6r_solver: subproblem 3 for joint 3, then  *)
(* subproblem 2 for joints 1 and 2, then the wrist's Euler angles.         *)
(***************************************************************************)
\* One or two answers; paden_kahan_3's two are more than the tolerance apart.
Subproblem3 ==
  {<<t>> : t \in Theta3s} \cup {ts \in Theta3s \X Theta3s : ~SameAngle(ts[1], ts[2])}

\* paden_kahan_2's two may agree: atan2 gives pi or -pi for the same angle.
Subproblem2 == {<<t>> : t \in Pairs} \cup (Pairs \X Pairs)

\* A wrist <<joint 4, joint 5>> and the same orientation with joint 5 the other way.
Flipped(w) == <<w[1] + Half, -w[2]>>

Straight(w) == w[2] \in {0, Half}

\* extract_symmetric_euler: one answer in gimbal lock, else two.
\* extract_asymmetric_euler: none, one or two.
EulerAngles ==
  {<<w>> : w \in {v \in Wrists : Straight(v)}}
  \cup {<<w, Flipped(w)>> : w \in {v \in Wrists : ~Straight(v)}}
  \cup {<< >>} \cup {<<w>> : w \in Wrists}

\* How far off the candidates of an arm branch may be.
Errors == {Far} \cup {e \in 0..Far : e = Chain.wrist}

\* The shoulder singularity of the 6R arm, and what subproblem 3 answers.
SolveArm ==
  /\ Ready({"3r", "6r"})
  /\ \/ Kind = "6r" /\ Fail("singular_configuration")
     \/ \E reason \in {"unreachable", "degenerate_geometry"} : Fail(reason)
     \/ \E ts \in Subproblem3 :
          /\ thetas' = ts /\ pc' = "theta3"
          /\ UNCHANGED <<solver, pairs, wrists, arm, key, domain, result, verified, error>>

NextTheta3 ==
  /\ pc = "theta3" /\ thetas # << >>
  /\ \/ thetas' = Tail(thetas) /\ UNCHANGED <<pc, pairs>>
     \/ \E ps \in Subproblem2 : pairs' = ps /\ pc' = "pair" /\ UNCHANGED thetas
  /\ UNCHANGED <<solver, wrists, arm, key, domain, result, verified, error>>

Try3r ==
  /\ pc = "pair" /\ Kind = "3r" /\ pairs # << >>
  /\ \E err \in {0, Far} : Try(<<Head(pairs), Head(thetas)>>, err, "pair")
  /\ pairs' = Tail(pairs)
  /\ UNCHANGED <<thetas, wrists, arm, key, domain>>

NextPair ==
  /\ pc = "pair" /\ Kind = "6r" /\ pairs # << >>
  /\ \E err \in Errors, ws \in EulerAngles :
       wrists' = ws /\ arm' = [q |-> <<Head(pairs), Head(thetas)>>, err |-> err]
  /\ pairs' = Tail(pairs) /\ pc' = "wrist"
  /\ UNCHANGED <<solver, thetas, key, domain, result, verified, error>>

Try6r ==
  /\ pc = "wrist" /\ wrists # << >>
  /\ Try(arm.q \o Head(wrists), arm.err, "wrist")
  /\ wrists' = Tail(wrists)
  /\ UNCHANGED <<thetas, pairs, arm, key, domain>>

WristsDone ==
  /\ pc = "wrist" /\ wrists = << >>
  /\ pc' = "pair" /\ arm' = Nothing
  /\ UNCHANGED <<solver, thetas, pairs, wrists, key, domain, result, verified, error>>

PairsDone ==
  /\ pc = "pair" /\ pairs = << >>
  /\ pc' = "theta3" /\ thetas' = Tail(thetas)
  /\ UNCHANGED <<solver, pairs, wrists, arm, key, domain, result, verified, error>>

ArmDone ==
  /\ pc = "theta3" /\ thetas = << >>
  /\ Conclude(IF Kind = "3r" THEN "verification_failed" ELSE "unreachable")

(***************************************************************************)
(* opw_6r_solver: two shoulders, two elbows each, two wrists each, in the  *)
(* order of their branch key (see opw_branch).                             *)
(***************************************************************************)
Shoulders == {"front", "back"}

SolveOpw ==
  /\ Ready({"opw", "opw_raw"})
  /\ domain' \in SUBSET Shoulders
  /\ pc' = "branch" /\ key' = 0
  /\ UNCHANGED <<solver, thetas, pairs, wrists, arm, result, verified, error>>

\* The solution of one arm branch; a shoulder out of its reach is clamped, and misses.
ArmBranches(k) ==
  LET shoulder == IF k < 4 THEN "front" ELSE "back"
  IN {[q |-> <<IF shoulder = "front" THEN 0 ELSE -Half, elbow>>, wrist |-> w, err |-> err] :
        elbow \in Pairs,
        w \in {v \in Wrists : v[2] >= 0 /\ (Straight(v) => v[1] = 0)},
        err \in IF shoulder \in domain THEN Errors ELSE {Far}}

\* The solver's angles to the user's: (theta + offset) * sign.
ToUser(q) == [j \in DOMAIN q |-> (q[j] + Chain.offsets[j]) * Chain.signs[j]]

TryBranch ==
  /\ pc = "branch" /\ key < 8
  /\ key' = key + 1
  /\ \E a \in IF key % 2 = 0 THEN ArmBranches(key) ELSE {arm} :
       /\ arm' = a
       /\ IF Chain.finite
          THEN Try(ToUser(a.q \o IF key % 2 = 0 THEN a.wrist ELSE Flipped(a.wrist)), a.err, pc)
          ELSE UNCHANGED <<solver, pc, result, verified, error>>
  /\ UNCHANGED <<thetas, pairs, wrists, domain>>

OpwDone ==
  /\ pc = "branch" /\ key = 8
  /\ Conclude(IF domain # Shoulders THEN "unreachable" ELSE "singular_configuration")

Solve ==
  \/ Invalid \/ Solve2r \/ SolveArm \/ NextTheta3 \/ Try3r \/ NextPair \/ Try6r
  \/ WristsDone \/ PairsDone \/ ArmDone \/ SolveOpw \/ TryBranch \/ OpwDone
===============================================================================
