----------------------------- MODULE SolvePolicy -----------------------------
(***************************************************************************)
(* What a solve policy shows its driver: the contract of the solve_policy  *)
(* concept, as the runners rely on it.  A policy is its solution(), the    *)
(* configuration its error_norm() was computed at, and the status its last *)
(* step() returned.  The concrete policies have modules of their own; this *)
(* one lets a runner be checked against all of them at once.               *)
(***************************************************************************)
EXTENDS IkSpace

CONSTANT NoConfig  \* no configuration: an error norm still at its initial max()

ASSUME NoConfigAssumption == NoConfig \notin Configs

Policy == [q : Configs, errAt : Configs \cup {NoConfig}, status : IkStatus]

\* error_norm()
PolicyError(p) == IF p.errAt = NoConfig THEN ScalarMax ELSE ErrorNorm(p.errAt)

\* setup(chain, target, q0, criteria) of a policy.  The native policies stand on
\* q0, or on q0 clamped if they work inside the box, and evaluate the error there.
\* The adapters leave the error at max(), and most of them leave the configuration
\* wherever the last problem left it until their first step.
PolicySetups(q0) ==
  {[q |-> q, errAt |-> q, status |-> "running"] : q \in {q0, Clamp[q0]}}
    \cup {[q |-> q, errAt |-> NoConfig, status |-> "running"] : q \in Configs}

\* A policy that calls itself converged stands on a configuration that meets
\* the pose test, and its error was computed there.
HonestConvergence(p) == p.status = "converged" => PoseMet(p.q) /\ p.errAt = p.q

HonestPolicies == {p \in Policy : HonestConvergence(p)}

(***************************************************************************)
(* step(chain, n): the policies run their own loop while units < n and     *)
(* their status is running.  A running policy may move anywhere and bill   *)
(* up to n units (zero included: convergence at entry and inner restarts   *)
(* bill nothing).  A policy that already ended keeps its state: most bill  *)
(* nothing, projected_lm bills one unit for the empty iteration.           *)
(***************************************************************************)
PolicySteps(p) == IF p.status = "running" THEN HonestPolicies ELSE {p}
UnitsBilled(p, n) == IF p.status = "running" THEN 0..n ELSE {0, 1}

\* abort(): a no-op in the native policies; the others report stalled from then on,
\* and one that keeps the best of its attempts may hand out another of them.
AbortOutcomes(p) == {p} \cup {r \in Policy : r.status = "stalled"}
=============================================================================
