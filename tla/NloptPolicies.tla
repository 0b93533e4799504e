---------------------------- MODULE NloptPolicies ----------------------------
(***************************************************************************)
(* nlopt_slsqp and nlopt_bobyqa: a unit is one optimize() call of NLopt    *)
(* within the joint bounds.  When the optimizer settles without the pose,  *)
(* the policy perturbs the configuration for the next call.                *)
(*                                                                         *)
(* NLopt is outside this repository: a call may return any result code,    *)
(* leave any configuration within the bounds, or throw.                    *)
(***************************************************************************)
EXTENDS PolicyFrame

NloptSolvers == {"nlopt_slsqp", "nlopt_bobyqa"}

\* The result codes that are not turned into an exception: settled stands for
\* SUCCESS, FTOL_REACHED and XTOL_REACHED, budget for MAXEVAL_REACHED and
\* MAXTIME_REACHED, other for the rest.
Results == {"settled", "budget", "other"}

\* m_q is m_q_vec here, which takes q0 as it is; m_error_norm is max().
NloptSetup ==
  /\ solver \in NloptSolvers
  /\ \E q0 \in Configs : SetupTo(q0, NoConfig)

\* Slip: a settled optimizer is taken for a solved problem.
SlipTrustSettled(result, conv, still, can) ==
  CASE conv \/ result = "settled" -> "converged"
    [] ~conv /\ result = "other" -> "diverged"
    [] OTHER -> "running"

\* map_nlopt_result(): conv is the pose test, still that the error no longer moves,
\* can that a restart is left.
MapResult(result, conv, still, can) ==
  CASE conv -> "converged"
    [] ~conv /\ result = "other" -> "diverged"
    [] ~conv /\ result = "budget" /\ ~still -> "running"
    [] OTHER -> IF can THEN "running" ELSE "stalled"

\* needs_restart()
NeedsRestart(result, conv, still) ==
  ~conv /\ (result = "settled" \/ (result = "budget" /\ still))

\* optimize() threw: the attempt is over, the error is not evaluated again and the
\* iteration not counted.
Failure ==
  /\ m_q' \in InLimits \cup {m_q} /\ m_status' = "diverged"
  /\ UNCHANGED <<m_error_at, m_iterations, m_restart_count, restarted>>

\* It stopped at roundoff: the last iterate is judged, the iteration not counted.
Roundoff ==
  /\ \E x \in InLimits :
       /\ m_q' = x /\ m_error_at' = x
       /\ m_status' = IF PoseMet(x) THEN "converged" ELSE "stalled"
  /\ UNCHANGED <<m_iterations, m_restart_count, restarted>>

\* A restart is counted when it is needed, before it is known whether it is made.
CountRestart(needs) == IF needs THEN m_restart_count + 1 ELSE m_restart_count

\* It returned with x.  The cap overrides every other verdict; short of the cap the
\* limits are enforced, on a converged configuration too.
Returned(x, result) ==
  LET conv  == PoseMet(x)
      still == m_error_at # NoConfig /\ ErrorNorm(x) = ErrorNorm(m_error_at)
      needs == NeedsRestart(result, conv, still)
      count == CountRestart(needs)
      status == MapResult(result, conv, still, count < MaxRestarts)
      perturbs == needs /\ status = "running"
  IN  /\ m_iterations' = m_iterations + 1
      /\ m_error_at' = x
      /\ m_restart_count' = count
      /\ restarted' = IF perturbs THEN restarted + 1 ELSE restarted
      /\ \E q \in IF perturbs THEN InLimits ELSE {x} :
           IF CapReached THEN m_q' = q /\ m_status' = "iteration_limit"
           ELSE m_q' \in Enforced(q) /\ m_status' = status

NloptTurn ==
  /\ Looping
  /\ units' = units + 1
  /\ \/ Failure
     \/ Roundoff
     \/ \E x \in InLimits, result \in Results : Returned(x, result)
  /\ UNCHANGED <<frame, pc, m_attempt_iterations, m_aborted, best>>

NloptSlsqp == solver = "nlopt_slsqp" /\ NloptTurn
NloptBobyqa == solver = "nlopt_bobyqa" /\ NloptTurn

NloptIterate == NloptSlsqp \/ NloptBobyqa
===============================================================================
