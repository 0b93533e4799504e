-------------------------- MODULE RestartingPolicies --------------------------
(***************************************************************************)
(* The argmin adapters that restart by themselves: when the optimizer ends *)
(* without the pose they reseed it from a perturbed configuration.         *)
(* argmin_slsqp, argmin_projected_gn and argmin_projected_gradient_gn give *)
(* every attempt its own cap and restart on the cap and on a stall too;    *)
(* filter_slsqp and filter_nw_sqp restart only when the optimizer ends.    *)
(* All but argmin_projected_gradient_gn keep the best iterate they judged, *)
(* feasible ones first, and hand out that one.                             *)
(***************************************************************************)
EXTENDS PolicyFrame

AttemptSolvers == {"argmin_slsqp", "argmin_projected_gn", "argmin_projected_gradient_gn"}
FilterSolvers == {"filter_slsqp", "filter_nw_sqp"}

KeepsBest == solver # "argmin_projected_gradient_gn"

\* setup(): only the projected policies take q0 over into m_q.
RestartingSetup ==
  /\ solver \in AttemptSolvers \cup FilterSolvers
  /\ \E q0 \in Configs :
       SetupTo(IF solver \in {"argmin_projected_gn", "argmin_projected_gradient_gn"}
               THEN q0 ELSE m_q, NoConfig)

\* The start of every iteration: one unit, whatever the optimizer did, and its
\* iterate x is judged.
Judge(x) ==
  /\ Looping /\ Bills
  /\ m_error_at' = x
  /\ IF KeepsBest THEN UpdateBest(x) /\ tried' = tried \cup {x} ELSE UNCHANGED best
  /\ UNCHANGED <<frame, pc, m_aborted>>

\* The iteration ends the attempt for good.
End(x, status) ==
  /\ m_q' = x /\ m_status' = status
  /\ m_attempt_iterations' = m_attempt_iterations + 1
  /\ UNCHANGED <<m_restart_count, restarted>>

\* It goes on, with the limits enforced on the copy.
Continue(x) ==
  /\ m_q' \in Enforced(x) /\ m_status' = "running"
  /\ m_attempt_iterations' = m_attempt_iterations + 1
  /\ UNCHANGED <<m_restart_count, restarted>>

\* It restarts from perturb_solution(m_q), which clamps; the limits policy is skipped.
Restart ==
  /\ m_restart_count < MaxRestarts
  /\ m_q' \in InLimits /\ m_status' = "running"
  /\ m_attempt_iterations' = 0
  /\ m_restart_count' = m_restart_count + 1 /\ restarted' = restarted + 1

OutOfRestarts == m_restart_count >= MaxRestarts

(***************************************************************************)
(* filter_slsqp::step and filter_nw_sqp::step.  check is the stall check,  *)
(* terminal says that the optimizer ended.                                 *)
(***************************************************************************)
FilterTurn ==
  \E x \in Configs, check \in StallChecks, terminal \in BOOLEAN :
    /\ Judge(x)
    /\ \/ PoseMet(x) /\ End(x, "converged")
       \/ ~PoseMet(x) /\ CapReached /\ End(x, "iteration_limit")
       \/ ~PoseMet(x) /\ ~CapReached /\ check # "running" /\ End(x, check)
       \/ /\ ~PoseMet(x) /\ ~CapReached /\ check = "running"
          /\ \/ terminal /\ Restart
             \/ terminal /\ OutOfRestarts /\ End(x, "stalled")
             \/ ~terminal /\ Continue(x)

FilterSlsqp == solver = "filter_slsqp" /\ FilterTurn
FilterNwSqp == solver = "filter_nw_sqp" /\ FilterTurn

(***************************************************************************)
(* argmin_slsqp::step and the two projected Gauss-Newton policies: the cap *)
(* is the attempt's, and all three ways an attempt can end come to a       *)
(* restart while there are any left.                                       *)
(***************************************************************************)
AttemptTurn ==
  \E x \in Configs, check \in StallChecks, terminal \in BOOLEAN :
    LET capped == m_attempt_iterations + 1 >= MaxIterations
        over   == terminal \/ capped \/ check # "running"
        reason == IF check # "running" THEN check
                  ELSE IF terminal THEN "stalled" ELSE "iteration_limit"
    IN  /\ Judge(x)
        /\ \/ PoseMet(x) /\ End(x, "converged")
           \/ ~PoseMet(x) /\ over /\ Restart
           \/ ~PoseMet(x) /\ over /\ OutOfRestarts /\ End(x, reason)
           \/ ~PoseMet(x) /\ ~over /\ Continue(x)

ArgminSlsqp == solver = "argmin_slsqp" /\ AttemptTurn
ProjectedGn == solver = "argmin_projected_gn" /\ AttemptTurn
ProjectedGradientGn == solver = "argmin_projected_gradient_gn" /\ AttemptTurn

RestartingIterate == \/ FilterSlsqp \/ FilterNwSqp
                     \/ ArgminSlsqp \/ ProjectedGn \/ ProjectedGradientGn
===============================================================================
