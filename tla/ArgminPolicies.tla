---------------------------- MODULE ArgminPolicies ----------------------------
(***************************************************************************)
(* The adapters of the argmin optimizers that keep one attempt.  Each owns *)
(* an optimizer it advances by one iteration per unit with step_n(1),      *)
(* copies the optimizer's iterate into m_q, and judges it by the kinematic *)
(* error of its own.  What enforce_limits does to m_q is lost at the next  *)
(* copy, the optimizer keeps its own iterate.                              *)
(*                                                                         *)
(* The optimizers are outside this repository: an iteration may land       *)
(* anywhere, report any status, or do no work.                             *)
(***************************************************************************)
EXTENDS PolicyFrame

Adapters == {"argmin_bobyqa", "argmin_lbfgsb", "mma", "gcmma", "nw_sqp",
             "augmented_lagrangian", "cmaes"}

\* The optimizer's statuses: the ones an adapter ends an attempt for, and the rest.
ArgminTerminal == {"converged", "ftol_reached", "stalled", "xtol_reached",
                   "roundoff_limited", "objective_stalled", "aborted"}
ArgminStatus ==
  ArgminTerminal \cup {"running", "max_iterations", "budget_exhausted", "diverged"}

\* setup() hands q0 to a new optimizer.  m_q stays what it was and the error is
\* max() until the first iteration.
AdapterSetup == solver \in Adapters \cup {"argmin_lm"} /\ SetupTo(m_q, NoConfig)

\* step_n(1) did no work: nothing is copied and the attempt is stalled.
NoWork ==
  /\ BillsNothing
  /\ m_status' = "stalled"
  /\ UNCHANGED <<frame, pc, m_q, m_error_at, restarting>>

\* What the attempt's counters and the optimizer's status say of an iterate that
\* does not meet the pose: the cap first, then the stall check, then the optimizer.
Verdict(check, argmin) ==
  CASE CapReached -> "iteration_limit"
    [] ~CapReached /\ check # "running" -> check
    [] ~CapReached /\ check = "running" /\ argmin \in ArgminTerminal -> "stalled"
    [] OTHER -> "running"

(***************************************************************************)
(* The body of the loop in the box-constrained adapters.  The error is     *)
(* that of the optimizer's iterate x; an iteration that decides nothing    *)
(* enforces the limits on the copy.                                        *)
(***************************************************************************)
AdapterTurn ==
  \/ NoWork
  \/ /\ Bills
     /\ UNCHANGED <<frame, pc, restarting>>
     /\ \E x \in Configs, check \in StallChecks, argmin \in ArgminStatus :
          /\ m_error_at' = x
          /\ m_status' = IF PoseMet(x) THEN "converged" ELSE Verdict(check, argmin)
          /\ IF m_status' = "running" THEN m_q' \in Enforced(x) ELSE m_q' = x

Bobyqa == solver = "argmin_bobyqa" /\ Looping /\ AdapterTurn
ArgminLbfgsb == solver = "argmin_lbfgsb" /\ Looping /\ AdapterTurn
Mma == solver = "mma" /\ Looping /\ AdapterTurn
Gcmma == solver = "gcmma" /\ Looping /\ AdapterTurn
NwSqp == solver = "nw_sqp" /\ Looping /\ AdapterTurn
AugmentedLagrangian == solver = "augmented_lagrangian" /\ Looping /\ AdapterTurn
Cmaes == solver = "cmaes" /\ Looping /\ AdapterTurn

(***************************************************************************)
(* argmin_lm::step.  The limits are enforced on the copy before it is      *)
(* judged, and a converged pose has to pass the gate of the native LM.     *)
(***************************************************************************)
ArgminLm ==
  /\ solver = "argmin_lm" /\ Looping
  /\ \/ NoWork
     \/ /\ Bills
        /\ UNCHANGED <<frame, pc, restarting>>
        /\ \E x \in Configs, check \in StallChecks, argmin \in ArgminStatus :
             \E y \in Enforced(x) :
               LET q == IF PoseMet(y) THEN Canonical[y] ELSE y
               IN  /\ m_q' = q /\ m_error_at' = q
                   /\ m_status' = IF ~PoseMet(y) THEN Verdict(check, argmin)
                                  ELSE IF q \in InLimits THEN "converged"
                                  ELSE "joint_limit_hit"

AdapterIterate == \/ Bobyqa \/ ArgminLbfgsb \/ Mma \/ Gcmma \/ NwSqp
                  \/ AugmentedLagrangian \/ Cmaes \/ ArgminLm
===============================================================================
