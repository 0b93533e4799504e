----------------------------- MODULE ProjectedLm -----------------------------
(***************************************************************************)
(* projected_lm: a Levenberg-Marquardt policy that stays inside the joint  *)
(* box, restarts from Halton seeds, and keeps the best final iterate of    *)
(* its attempts, feasible ones first.  m_iterations is m_total_iterations  *)
(* here, what iterations() returns; the attempt's own counter is           *)
(* m_attempt_iterations.                                                   *)
(***************************************************************************)
EXTENDS PolicyFrame

CONSTANT MaxSpent  \* bound: the units after which an ended policy is not stepped again

\* setup(): the first attempt starts from q0 clamped to the box.
ProjectedSetup ==
  /\ solver = "projected_lm"
  /\ \E q0 \in Configs : SetupTo(Clamp[q0], Clamp[q0])

\* abort(): only a flag; from now on every step reports stalled.
ProjectedAbort ==
  /\ solver = "projected_lm" /\ pc = "idle"
  /\ m_aborted' = TRUE
  /\ UNCHANGED <<frame, members, pc, units, counters, best>>

\* step() of an aborted policy: nothing is done or billed.
AbortedStep ==
  /\ pc = "idle" /\ m_aborted
  /\ asked' \in 1..MaxUnits /\ billed' = 0
  /\ shown' = [shown EXCEPT !.status = "stalled"]
  /\ UNCHANGED <<build, pc, units, members, spent, restarting>>

\* step() of a policy that ended without converging: the loop is entered all the
\* same, and the iteration that finds the status terminal is billed and counted.
EndedStep ==
  /\ solver = "projected_lm" /\ pc = "idle" /\ ~m_aborted
  /\ m_status \notin {"running", "converged"}
  /\ spent < MaxSpent
  /\ asked' \in 1..MaxUnits
  /\ billed' = 1 /\ spent' = spent + 1 /\ m_iterations' = m_iterations + 1
  /\ UNCHANGED <<build, pc, units, shown, m_q, m_error_at, m_status, restarting>>

ProjectedEnter ==
  /\ solver = "projected_lm" /\ ~m_aborted
  /\ m_status \in {"running", "converged"}
  /\ Enter

\* Every call of perform_lm_iteration bills a unit, converging included.
InIteration ==
  solver = "projected_lm" /\ Looping /\ Bills /\ UNCHANGED <<frame, pc, m_aborted>>

\* The final iterate of an attempt is folded into the best.
Keep(q) == UpdateBest(q) /\ tried' = tried \cup {q}

\* The attempt ended with status at q, after n counted iterations: its result is
\* kept, and unless the restarts are used up the next attempt starts from a Halton
\* seed, which is in the box.
AttemptOver(q, status, n) ==
  /\ Keep(q)
  /\ IF m_restart_count >= MaxRestarts
     THEN /\ m_status' = status /\ m_q' = q /\ m_error_at' = q
          /\ m_attempt_iterations' = n
          /\ UNCHANGED <<m_restart_count, restarted>>
     ELSE /\ m_status' = "running"
          /\ m_attempt_iterations' = 0
          /\ m_restart_count' = m_restart_count + 1 /\ restarted' = restarted + 1
          /\ \E seed \in InLimits : m_q' = seed /\ m_error_at' = seed

\* check_convergence_and_limits(): the gate is the one of the unconstrained
\* policies, though here it should have nothing to refuse (StaysInBox).
PoseReached ==
  LET q == Canonical[m_q]
  IN  /\ InIteration /\ PoseMet(m_q)
      /\ IF q \in InLimits
         THEN /\ m_q' = q /\ m_error_at' = q /\ m_status' = "converged"
              /\ Keep(q)
              /\ UNCHANGED counters
         ELSE AttemptOver(q, "joint_limit_hit", m_attempt_iterations)

LastOfAttempt == m_attempt_iterations + 1 >= MaxIterations

AttemptAtCap ==
  /\ InIteration /\ ~PoseMet(m_q) /\ LastOfAttempt
  /\ AttemptOver(m_q, "iteration_limit", m_attempt_iterations + 1)

\* Slip: the trial is not cut to the box.
SlipUncutTrials == {m_q} \cup {q \in Configs : ErrorNorm(q) < ErrorNorm(m_q)}

\* The trial, cut to the box, is taken when it lowers the error; the stall check is
\* made either way.
Trials == {m_q} \cup {q \in InLimits : ErrorNorm(q) < ErrorNorm(m_q)}

AttemptMoved ==
  /\ InIteration /\ ~PoseMet(m_q) /\ ~LastOfAttempt
  /\ \E q \in Trials :
       /\ m_error_at' = q
       /\ m_q' \in Enforced(q)
  /\ m_status' = "running"
  /\ m_attempt_iterations' = m_attempt_iterations + 1
  /\ UNCHANGED <<m_restart_count, restarted, best>>

AttemptStalled ==
  /\ InIteration /\ ~PoseMet(m_q) /\ ~LastOfAttempt
  /\ \E q \in Trials, check \in StallChecks \ {"running"} :
       AttemptOver(q, check, m_attempt_iterations + 1)

ProjectedIterate == PoseReached \/ AttemptAtCap \/ AttemptMoved \/ AttemptStalled
===============================================================================
