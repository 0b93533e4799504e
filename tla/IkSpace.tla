------------------------------- MODULE IkSpace -------------------------------
(***************************************************************************)
(* The vocabulary every inverse-kinematics module shares.                  *)
(*                                                                         *)
(* A joint configuration is an element of the finite set Configs.  What    *)
(* the numerics compute from it (forward kinematics, the body-frame error  *)
(* twist) is a constant of the instance: Ang[q] and Lin[q] are the norms   *)
(* of the angular and the linear part of the error twist at q, as small    *)
(* naturals.  Which configuration a numerical step lands on is therefore a *)
(* nondeterministic choice from Configs, and every decision the code takes *)
(* about a configuration is a comparison of these naturals.                *)
(*                                                                         *)
(* Joint limits are the set InLimits and two maps: Canonical wraps the     *)
(* full turns of the zero-pitch revolute joints back into the limits,      *)
(* which leaves the pose alone; Clamp cuts every joint to its bounds.      *)
(***************************************************************************)
EXTENDS Integers

CONSTANTS
  Configs,   \* joint configurations
  Ang,       \* norm of the angular part of the error twist at a configuration
  Lin,       \* norm of its linear part
  AngTol,    \* convergence_criteria::orientation_tol
  LinTol,    \* convergence_criteria::position_tol
  InLimits,  \* the configurations within_limits() accepts
  Canonical, \* canonicalize_into_limits()
  Clamp,     \* clamp_limits::enforce(), cwiseMax(lower).cwiseMin(upper)
  ScalarMax  \* numeric_limits<scalar_type>::max(), above every error norm

\* The norm of the whole twist, squared: it is only ever compared.
ErrorNorm(q) == Ang[q] * Ang[q] + Lin[q] * Lin[q]

ASSUME SpaceAssumption ==
  /\ Configs # {}
  /\ Ang \in [Configs -> Nat]
  /\ Lin \in [Configs -> Nat]
  /\ AngTol \in Nat
  /\ LinTol \in Nat
  /\ ScalarMax \in Nat
  /\ \A q \in Configs : ErrorNorm(q) < ScalarMax
  /\ InLimits \subseteq Configs
  /\ Canonical \in [Configs -> Configs]
  /\ Clamp \in [Configs -> InLimits]
  /\ \A q \in InLimits : Canonical[q] = q /\ Clamp[q] = q
  /\ \A q \in Configs : /\ Ang[Canonical[q]] = Ang[q]
                         /\ Lin[Canonical[q]] = Lin[q]

\* The pose test: both parts strictly below their tolerance.
PoseMet(q) == Ang[q] < AngTol /\ Lin[q] < LinTol

IkStatus ==
  {"running", "converged", "diverged", "stalled", "joint_limit_hit", "iteration_limit"}

IkObjective == {"speed", "min_distance", "max_manipulability", "max_isotropy"}

IkFailure ==
  {"unreachable", "diverged", "stalled", "iteration_limit",
   "joint_limit_violation", "aborted", "not_initialized"}
=============================================================================
