----------------------------- MODULE SingleRunner -----------------------------
(***************************************************************************)
(* basic_ik_runner with one policy: the cooperative driver every solve of  *)
(* the library goes through.                                               *)
(*                                                                         *)
(* setup() binds a problem; step(), step_n() and solve() drive the policy; *)
(* abort() may come between two calls.  solve() is a loop, modelled one    *)
(* policy call at a time ("loop" calls the policy, "account" is the code   *)
(* after the call, "build" is build_result()), because what the loop adds  *)
(* up across calls is where it can go wrong.                               *)
(*                                                                         *)
(* Members keep their names.  m_best_manipulability and m_best_isotropy    *)
(* are one variable, the objective says which of the two it is.            *)
(***************************************************************************)
EXTENDS SolvePolicy

CONSTANTS
  Metric,      \* what max_manipulability / max_isotropy measure at a configuration
  Objectives,  \* the objectives setup() is called with
  MaxWork,     \* convergence_criteria::max_total_work_units
  MaxRounds    \* the largest n step_n(n) is called with

ASSUME RunnerAssumption ==
  /\ Metric \in [Configs -> Nat]
  /\ Objectives \subseteq IkObjective
  /\ MaxWork \in Nat
  /\ MaxRounds \in Nat

VARIABLES
  policy,               \* the policy, as SolvePolicy describes it
  m_chain,              \* does the runner hold a chain?
  m_objective,
  m_status,
  m_best_q,
  m_best_error,
  m_best_metric,        \* m_best_manipulability or m_best_isotropy
  m_total_iterations,
  m_found_convergence,
  pc,                   \* "idle", or where inside step_n() / solve() the caller is
  remaining,            \* step_n(): rounds left;  solve(): unused
  total_units,          \* local of solve()
  inner,                \* what step_single_metrics() returned
  result,               \* what solve() returned, until the policy is driven again
  converged_at,         \* history: where the policy reported convergence since setup()
  billed                \* history: units billed since setup() or since solve() was
                        \* entered, whichever is later; stops at MaxWork + 1

members == <<m_chain, m_objective, m_status, m_best_q, m_best_error, m_best_metric,
             m_total_iterations, m_found_convergence>>
locals  == <<pc, remaining, total_units, inner, result>>
history == <<converged_at, billed>>
vars    == <<policy, members, locals, history>>

NoResult    == [kind |-> "none"]
NoInner     == [status |-> "running", units |-> 0]
Failures    == {"diverged", "stalled", "iteration_limit"}

Bill(units) == IF billed + units > MaxWork THEN MaxWork + 1 ELSE billed + units

Init ==
  /\ policy \in [q : Configs, errAt : {NoConfig}, status : {"running"}]
  /\ m_chain = FALSE
  /\ m_objective = "speed"
  /\ m_status = "running"
  /\ m_best_q = policy.q
  /\ m_best_error = 0
  /\ m_best_metric = 0
  /\ m_total_iterations = 0
  /\ m_found_convergence = FALSE
  /\ pc = "idle" /\ remaining = 0 /\ total_units = 0
  /\ inner = NoInner /\ result = NoResult
  /\ converged_at = {} /\ billed = 0

Setup(q0, objective) ==
  /\ pc = "idle"
  /\ policy' \in PolicySetups(q0)
  /\ m_chain' = TRUE
  /\ m_objective' = objective
  /\ m_status' = "running"
  /\ m_best_q' = q0
  /\ m_best_error' = ScalarMax
  /\ m_best_metric' = 0
  /\ m_total_iterations' = 0
  /\ m_found_convergence' = FALSE
  /\ inner' = NoInner /\ result' = NoResult
  /\ converged_at' = {} /\ billed' = 0
  /\ UNCHANGED <<pc, remaining, total_units>>

------------------------------------------------------------------------------
(* step_single_metrics(n), by what the policy answered *)

\* Slip: the last solution replaces the best one.
SlipKeepLast(p) ==
  /\ m_best_q' = p.q
  /\ m_best_error' = PolicyError(p)
  /\ m_best_metric' = Metric[p.q]

\* update_best(q): keep the better of the best so far and q, by the objective.
UpdateBest(p) ==
  IF m_objective = "min_distance"
  THEN /\ m_best_error' = IF PolicyError(p) < m_best_error THEN PolicyError(p) ELSE m_best_error
       /\ m_best_q' = IF PolicyError(p) < m_best_error THEN p.q ELSE m_best_q
       /\ UNCHANGED m_best_metric
  ELSE /\ m_best_metric' = IF Metric[p.q] > m_best_metric THEN Metric[p.q] ELSE m_best_metric
       /\ m_best_q' = IF Metric[p.q] > m_best_metric THEN p.q ELSE m_best_q
       /\ UNCHANGED m_best_error

\* Slip: the solution is not stored when the first convergence ends the solve.
SlipSpeedKeepsSeed(p, units) ==
  /\ p.status = "converged" /\ m_objective = "speed"
  /\ m_found_convergence' = TRUE
  /\ m_status' = "converged"
  /\ policy' = p
  /\ inner' = [status |-> "converged", units |-> units]
  /\ UNCHANGED <<m_best_q, m_best_error, m_best_metric>>

ConvergedForSpeed(p, units) ==
  /\ p.status = "converged" /\ m_objective = "speed"
  /\ m_found_convergence' = TRUE
  /\ m_status' = "converged"
  /\ m_best_q' = p.q
  /\ policy' = p
  /\ inner' = [status |-> "converged", units |-> units]
  /\ UNCHANGED <<m_best_error, m_best_metric>>

\* Any other objective: remember the solution, then end or search on from it.
ConvergedForBest(p, units) ==
  /\ p.status = "converged" /\ m_objective # "speed"
  /\ m_found_convergence' = TRUE
  /\ UpdateBest(p)
  /\ IF m_total_iterations + units >= MaxWork
     THEN /\ m_status' = "converged"
          /\ policy' = p
          /\ inner' = [status |-> "converged", units |-> units]
     ELSE /\ policy' \in PolicySetups(p.q)
          /\ inner' = [status |-> "running", units |-> units]
          /\ UNCHANGED m_status

\* Slip: a failing attempt overrides an earlier convergence.
SlipForgetConvergence(p, units) ==
  /\ p.status \in Failures
  /\ m_status' = p.status
  /\ inner' = [status |-> p.status, units |-> units]
  /\ policy' = p
  /\ UNCHANGED <<m_found_convergence, m_best_q, m_best_error, m_best_metric>>

\* Slip: every failing status is taken for a stall.
SlipAllStalled(p, units) ==
  /\ p.status \in Failures
  /\ m_status' = IF m_found_convergence THEN "converged" ELSE "stalled"
  /\ inner' = [status |-> m_status', units |-> units]
  /\ policy' = p
  /\ UNCHANGED <<m_found_convergence, m_best_q, m_best_error, m_best_metric>>

PolicyFailed(p, units) ==
  /\ p.status \in Failures
  /\ m_status' = IF m_found_convergence THEN "converged" ELSE p.status
  /\ inner' = [status |-> m_status', units |-> units]
  /\ policy' = p
  /\ UNCHANGED <<m_found_convergence, m_best_q, m_best_error, m_best_metric>>

\* running, and joint_limit_hit, which no branch of the code names.
PolicyOther(p, units) ==
  /\ p.status \in {"running", "joint_limit_hit"}
  /\ inner' = [status |-> p.status, units |-> units]
  /\ policy' = p
  /\ UNCHANGED <<m_status, m_found_convergence, m_best_q, m_best_error, m_best_metric>>

StepSingleMetrics(n) ==
  \E p \in PolicySteps(policy), units \in UnitsBilled(policy, n) :
    /\ \/ ConvergedForSpeed(p, units)
       \/ ConvergedForBest(p, units)
       \/ PolicyFailed(p, units)
       \/ PolicyOther(p, units)
    /\ converged_at' = IF p.status = "converged"
                       THEN converged_at \cup {p.q} ELSE converged_at
    /\ billed' = Bill(units)
    /\ result' = NoResult
    /\ UNCHANGED <<m_chain, m_objective>>

------------------------------------------------------------------------------
(* step() and step_n(n) *)

\* step() on an unbound or a finished runner returns without driving anything.
StepReturnsEarly ==
  /\ pc = "idle"
  /\ ~m_chain \/ m_status # "running"
  /\ inner' = [status |-> IF m_chain THEN m_status ELSE "iteration_limit", units |-> 0]
  /\ UNCHANGED <<policy, members, pc, remaining, total_units, result, history>>

Step ==
  /\ pc = "idle"
  /\ m_chain /\ m_status = "running"
  /\ StepSingleMetrics(1)
  /\ UNCHANGED <<m_total_iterations, pc, remaining, total_units>>

StepN(n) ==
  /\ pc = "idle"
  /\ pc' = "rounds"
  /\ remaining' = n
  /\ UNCHANGED <<policy, members, total_units, inner, result, history>>

\* One turn of step_n's loop: step(), and out on a status other than running.
StepNRound ==
  /\ pc = "rounds" /\ remaining > 0
  /\ m_chain /\ m_status = "running"
  /\ StepSingleMetrics(1)
  /\ IF inner'.status = "running"
     THEN remaining' = remaining - 1 /\ UNCHANGED pc
     ELSE remaining' = 0 /\ pc' = "idle"
  /\ UNCHANGED <<m_total_iterations, total_units>>

StepNEnds ==
  /\ pc = "rounds"
  /\ remaining = 0 \/ ~m_chain \/ m_status # "running"
  /\ pc' = "idle" /\ remaining' = 0
  /\ UNCHANGED <<policy, members, total_units, inner, result, history>>

------------------------------------------------------------------------------
(* solve() *)

SolveNotInitialized ==
  /\ pc = "idle" /\ ~m_chain
  /\ result' = [kind |-> "error", reason |-> "not_initialized",
                q |-> NoConfig, errAt |-> NoConfig]
  /\ UNCHANGED <<policy, members, pc, remaining, total_units, inner, history>>

SolveEnter ==
  /\ pc = "idle" /\ m_chain
  /\ pc' = "loop"
  /\ total_units' = 0
  /\ inner' = NoInner
  /\ billed' = 0
  /\ UNCHANGED <<policy, members, remaining, result, converged_at>>

\* Slip: every call is granted the whole budget instead of what is left.
SlipWholeBudget ==
  /\ pc = "loop"
  /\ total_units < MaxWork /\ m_status = "running"
  /\ StepSingleMetrics(MaxWork)
  /\ pc' = "account"
  /\ UNCHANGED <<m_total_iterations, remaining, total_units>>

\* Slip: the loop looks at the budget only, not at the runner's status.
SlipIgnoreStatus ==
  /\ pc = "loop"
  /\ total_units < MaxWork
  /\ StepSingleMetrics(MaxWork - total_units)
  /\ pc' = "account"
  /\ UNCHANGED <<m_total_iterations, remaining, total_units>>

SolveCall ==
  /\ pc = "loop"
  /\ total_units < MaxWork /\ m_status = "running"
  /\ StepSingleMetrics(MaxWork - total_units)
  /\ pc' = "account"
  /\ UNCHANGED <<m_total_iterations, remaining, total_units>>

\* Slip: iterations() holds the units of the last call only.
SlipCountLastCall ==
  /\ pc = "account"
  /\ total_units' = total_units + inner.units
  /\ m_total_iterations' = inner.units
  /\ \/ inner.status # "running" /\ pc' = "build" /\ UNCHANGED m_status
     \/ /\ inner.status = "running" /\ inner.units = 0
        /\ pc' = "build"
        /\ m_status' = IF m_found_convergence THEN "converged" ELSE "iteration_limit"
     \/ inner.status = "running" /\ inner.units > 0 /\ pc' = "loop" /\ UNCHANGED m_status
  /\ UNCHANGED <<policy, m_chain, m_objective, m_best_q, m_best_error, m_best_metric,
                 m_found_convergence, remaining, inner, result, history>>

\* Slip: no guard against a policy that answers running and bills nothing.
SlipNoProgressGuard ==
  /\ pc = "account"
  /\ total_units' = total_units + inner.units
  /\ m_total_iterations' = total_units'
  /\ IF inner.status = "running" THEN pc' = "loop" ELSE pc' = "build"
  /\ UNCHANGED <<policy, m_chain, m_objective, m_status, m_best_q, m_best_error,
                 m_best_metric, m_found_convergence, remaining, inner, result, history>>

\* After the call: bill it, leave on an end status, and leave on the guard
\* against a policy that says running and bills nothing.
SolveAccount ==
  /\ pc = "account"
  /\ total_units' = total_units + inner.units
  /\ m_total_iterations' = total_units'
  /\ \/ inner.status # "running" /\ pc' = "build" /\ UNCHANGED m_status
     \/ /\ inner.status = "running" /\ inner.units = 0
        /\ pc' = "build"
        /\ m_status' = IF m_found_convergence THEN "converged" ELSE "iteration_limit"
     \/ inner.status = "running" /\ inner.units > 0 /\ pc' = "loop" /\ UNCHANGED m_status
  /\ UNCHANGED <<policy, m_chain, m_objective, m_best_q, m_best_error, m_best_metric,
                 m_found_convergence, remaining, inner, result, history>>

SolveLoopEnds ==
  /\ pc = "loop"
  /\ total_units >= MaxWork \/ m_status # "running"
  /\ pc' = "build"
  /\ UNCHANGED <<policy, members, remaining, total_units, inner, result, history>>

\* The reason build_error() derives from m_status.
FailureReason ==
  IF m_status \in Failures THEN m_status
  ELSE IF m_status = "joint_limit_hit" THEN "joint_limit_violation"
  ELSE "iteration_limit"

BuildResult ==
  IF m_status = "converged"
  THEN [kind |-> "ok", q |-> m_best_q, errAt |-> policy.errAt,
        iterations |-> m_total_iterations]
  ELSE [kind |-> "error", reason |-> FailureReason,
        q |-> policy.q, errAt |-> policy.errAt]

SolveReturn ==
  /\ pc = "build"
  /\ result' = BuildResult
  /\ pc' = "idle" /\ total_units' = 0 /\ inner' = NoInner
  /\ UNCHANGED <<policy, members, remaining, history>>

Abort ==
  /\ pc = "idle"
  /\ policy' \in AbortOutcomes(policy)
  /\ m_status' = "running"
  /\ result' = NoResult
  /\ UNCHANGED <<m_chain, m_objective, m_best_q, m_best_error, m_best_metric,
                 m_total_iterations, m_found_convergence,
                 pc, remaining, total_units, inner, history>>

------------------------------------------------------------------------------
Driving ==
  \/ StepNRound \/ StepNEnds
  \/ SolveCall \/ SolveAccount \/ SolveLoopEnds \/ SolveReturn

Next ==
  \/ \E q0 \in Configs, objective \in Objectives : Setup(q0, objective)
  \/ StepReturnsEarly
  \/ Step
  \/ \E n \in 0..MaxRounds : StepN(n)
  \/ SolveNotInitialized
  \/ SolveEnter
  \/ Abort
  \/ Driving

\* A call that was entered runs on in the calling thread: each policy step
\* returns, and the loop around it takes its next turn.
Spec == Init /\ [][Next]_vars /\ WF_vars(Driving)

------------------------------------------------------------------------------
(* Type invariant *)

Outcomes == [status : IkStatus, units : Nat]

Results ==
  [kind : {"none"}]
    \cup [kind : {"ok"}, q : Configs, errAt : Configs \cup {NoConfig}, iterations : Nat]
    \cup [kind : {"error"}, reason : IkFailure, q : Configs \cup {NoConfig},
          errAt : Configs \cup {NoConfig}]

TypeOK ==
  /\ policy \in Policy
  /\ m_chain \in BOOLEAN
  /\ m_objective \in IkObjective
  /\ m_status \in IkStatus \ {"joint_limit_hit"}
  /\ m_best_q \in Configs
  /\ m_best_error \in Nat
  /\ m_best_metric \in Nat
  /\ m_total_iterations \in Nat
  /\ m_found_convergence \in BOOLEAN
  /\ pc \in {"idle", "rounds", "loop", "account", "build"}
  /\ remaining \in Nat
  /\ total_units \in Nat
  /\ inner \in Outcomes
  /\ result \in Results
  /\ converged_at \subseteq Configs
  /\ billed \in Nat

------------------------------------------------------------------------------
(* Safety *)

\* max_total_work_units is literal: whatever the policy answers, one solve()
\* never lets it bill more units than that, over all the calls of its loop
\* and across the fresh attempts of a secondary objective.
BudgetLiteral == pc \in {"loop", "account", "build"} => billed <= MaxWork

\* iterations() after a solve that drove the policy is exactly what the policy
\* billed in it, also when the loop was left by the zero-unit guard.
IterationsExact == pc = "build" /\ billed > 0 => m_total_iterations = billed

\* A solve reports success only with a configuration the policy itself ended
\* an attempt on with converged, in this problem.  Under the speed objective
\* the error norm reported with it was computed there, unless an abort in
\* between withdrew the convergence.  (For the two metric objectives this
\* needs a positive metric at the solutions.)
SuccessHonest ==
  result.kind = "ok" /\ (\A c \in converged_at : Metric[c] > 0) =>
    /\ result.q \in converged_at
    /\ m_objective = "speed" /\ policy.status = "converged" => result.errAt = result.q

\* A secondary objective returns the best of all the solutions met on the way,
\* not the first and not the last.
BestOfConverged ==
  result.kind = "ok" =>
    \A c \in converged_at :
      /\ m_objective = "min_distance" => ErrorNorm(result.q) <= ErrorNorm(c)
      /\ m_objective \in {"max_manipulability", "max_isotropy"} /\ Metric[c] > 0
           => Metric[result.q] >= Metric[c]

\* A reported failure is the policy's own: stalled and diverged name how its
\* last attempt ended, and iteration_limit is the policy's limit, the exhausted
\* budget or a policy that makes no progress.  (joint_limit_hit is left out
\* here: the runner does not pass it on.  And a budget of zero units never asks
\* the policy: an aborted one is then reported as iteration_limit too.)
FailureFaithful ==
  pc = "build" /\ m_status # "converged" /\ policy.status # "joint_limit_hit" =>
    \/ FailureReason = policy.status
    \/ FailureReason = "iteration_limit"
         /\ \/ MaxWork = 0
            \/ policy.status = "running" /\ (billed >= MaxWork \/ inner.units = 0)

\* Once a solution was met, a solve that ends on a failing attempt still
\* returns it: only a budget that runs out in the middle of an attempt, or an
\* attempt that ends on a joint limit, loses it.
ConvergenceKept ==
  pc = "idle" /\ result.kind = "error" /\ converged_at # {} =>
    billed >= MaxWork \/ policy.status = "joint_limit_hit"

\* Asking a finished runner again returns the same answer: solve() after a
\* solve() that ended the problem neither drives the policy nor changes what
\* it reports.
RepeatedSolveStable ==
  [][m_status # "running" /\ m_status' = m_status /\ result # NoResult
       => result' = result /\ policy' = policy]_vars

\* Every solve() and every step_n() returns, even over a policy that answers
\* running without doing any work.
CallsReturn == pc # "idle" ~> pc = "idle"
=============================================================================
