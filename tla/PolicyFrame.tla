----------------------------- MODULE PolicyFrame -----------------------------
(***************************************************************************)
(* What the concrete solve policies share: the members every one of them   *)
(* has, the calls a driver makes, and the limits policies.  A policy is a  *)
(* loop                                                                    *)
(*      while (units < N && m_status == running) { one iteration }         *)
(* inside step(chain, N): Enter is the call, the iterations are actions of *)
(* the module of the policy, Return is the end of the call.  Policies      *)
(* composes the modules.                                                   *)
(*                                                                         *)
(* shown and billed are what the last call returned to the driver, and     *)
(* spent the units billed since setup; the code has no such variables, the *)
(* properties compare the policy with them, and with tried and restarted.  *)
(***************************************************************************)
EXTENDS SolvePolicy

CONSTANTS
  MaxIterations,  \* convergence_criteria::max_iterations_per_attempt
  MaxRestarts,    \* options::max_restarts of the policies that restart
  MaxUnits,       \* bound: the largest N a step is asked for
  Builds          \* the instantiations checked: <<solver, limits policy>>

LimitsPolicies == {"no_limits", "clamp_limits", "null_space_limits"}

ASSUME FrameAssumption ==
  /\ MaxIterations \in Int /\ MaxRestarts \in Nat
  /\ MaxUnits \in Nat \ {0}
  /\ \A b \in Builds : b[2] \in LimitsPolicies

VARIABLES
  build,         \* <<solver, limits policy>>, fixed when the code is compiled
  pc,            \* "new" before the first setup, "idle" between calls, "loop" inside step()
  asked,         \* N of the last step since setup, 0 before the first
  units,         \* units, local to step()
  m_q,           \* the working configuration
  m_error_at,    \* the configuration m_error_norm was computed at
  m_iterations,
  m_status,
  shown, billed, spent

\* Members of the policies that restart; in the others they keep their initial values.
VARIABLES
  m_attempt_iterations,  \* iterations of this attempt, where the cap is the attempt's
  m_restart_count,
  m_aborted,             \* projected_lm only, the others set m_status
  m_best_q,              \* the best configuration, NoConfig while m_best_valid is false
  tried,                 \* history: what m_best_q was chosen from since setup
  restarted              \* history: the restarts made since setup

frame == <<build, asked, shown, spent, billed>>
members == <<m_q, m_error_at, m_iterations, m_status>>
counters == <<m_attempt_iterations, m_restart_count, restarted>>
best == <<m_best_q, tried>>
restarting == <<counters, m_aborted, best>>
vars == <<frame, members, pc, units, restarting>>

solver == build[1]

\* A default-constructed policy: no problem yet, whatever configuration the
\* storage holds.
Init ==
  /\ build \in Builds
  /\ pc = "new" /\ asked = 0 /\ units = 0
  /\ m_q \in Configs /\ m_error_at = NoConfig
  /\ m_iterations = 0 /\ m_status = "running"
  /\ shown = [q |-> m_q, errAt |-> NoConfig, status |-> "running"]
  /\ billed = 0 /\ spent = 0
  /\ m_attempt_iterations = 0 /\ m_restart_count = 0 /\ restarted = 0
  /\ m_aborted = FALSE
  /\ m_best_q = NoConfig /\ tried = {}

\* What setup() does in every policy; q and at are where it leaves the working
\* configuration and the error.
SetupTo(q, at) ==
  /\ pc \in {"new", "idle"}
  /\ m_q' = q /\ m_error_at' = at
  /\ m_iterations' = 0 /\ m_status' = "running"
  /\ shown' = [q |-> q, errAt |-> at, status |-> "running"]
  /\ pc' = "idle" /\ asked' = 0 /\ billed' = 0 /\ spent' = 0
  /\ m_attempt_iterations' = 0 /\ m_restart_count' = 0 /\ restarted' = 0
  /\ m_aborted' = FALSE
  /\ m_best_q' = NoConfig /\ tried' = {}
  /\ UNCHANGED <<build, units>>

\* step(chain, N): the call.
Enter ==
  /\ pc = "idle"
  /\ asked' \in 1..MaxUnits
  /\ units' = 0 /\ pc' = "loop"
  /\ UNCHANGED <<build, members, shown, billed, spent, restarting>>

\* Slip: one iteration too few.
SlipOneFewer == pc = "loop" /\ units + 1 < asked /\ m_status = "running"

\* The loop condition of step().
Looping == pc = "loop" /\ units < asked /\ m_status = "running"

\* return {m_status, {units, error}} once the loop condition fails.  solution() and
\* error_norm() are those of the best configuration once a policy keeps one.
Return ==
  /\ pc = "loop" /\ ~Looping
  /\ shown' = IF m_best_q = NoConfig
              THEN [q |-> m_q, errAt |-> m_error_at, status |-> m_status]
              ELSE [q |-> m_best_q, errAt |-> m_best_q, status |-> m_status]
  /\ billed' = units /\ spent' = spent + units
  /\ pc' = "idle" /\ units' = 0
  /\ UNCHANGED <<build, asked, members, restarting>>

\* abort() of the adapters: the next step finds the attempt stalled.
StallOnAbort ==
  /\ pc = "idle"
  /\ m_status' = "stalled" /\ shown' = [shown EXCEPT !.status = "stalled"]
  /\ UNCHANGED <<build, pc, asked, units, m_q, m_error_at, m_iterations, billed, spent,
                 restarting>>

\* An iteration that bills nothing, or a unit.
BillsNothing == UNCHANGED <<units, m_iterations>>
Bills == units' = units + 1 /\ m_iterations' = m_iterations + 1

\* Slip: the cap is tested before the iteration is counted.
SlipCapBeforeCount == m_iterations >= MaxIterations

\* The iteration just counted is the attempt's last.
CapReached == m_iterations + 1 >= MaxIterations

\* enforce_limits<LimitsPolicy>(q, chain): the null-space policy moves q along the
\* kernel of the Jacobian as far as its gradient says and then clamps.
Enforced(q) == CASE build[2] = "no_limits" -> {q}
                 [] build[2] = "clamp_limits" -> {Clamp[q]}
                 [] build[2] = "null_space_limits" -> {Clamp[r] : r \in Configs}

\* check_stall_divergence() as an iteration sees it; ErrorRing models the window.
StallChecks == {"running", "stalled", "diverged"}

\* Slip: the best is the one with the smallest error, feasible or not.
SlipErrorOnly(x) ==
  LET q == Canonical[x]
      better == m_best_q = NoConfig \/ ErrorNorm(q) < ErrorNorm(m_best_q)
  IN  m_best_q' = IF better THEN q ELSE m_best_q

\* update_best(): the representative of x inside the limits, if it has one, replaces
\* the best when it is the first feasible one or has a smaller error among equals.
\* m_best_feasible is whether m_best_q is in the limits.
UpdateBest(x) ==
  LET q == Canonical[x]
      better == \/ m_best_q = NoConfig
                \/ q \in InLimits /\ m_best_q \notin InLimits
                \/ /\ (q \in InLimits) = (m_best_q \in InLimits)
                   /\ ErrorNorm(q) < ErrorNorm(m_best_q)
  IN  m_best_q' = IF better THEN q ELSE m_best_q
=============================================================================
