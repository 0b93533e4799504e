---------------------------- MODULE RestartWrapper ----------------------------
(***************************************************************************)
(* restart_wrapper<Inner>: a solve policy around another one.  When the    *)
(* inner policy ends without the pose the wrapper sets it up again at the  *)
(* next Halton seed, and it keeps the best end of the failed attempts,     *)
(* feasible ones first.  The inner policy is any that behaves like         *)
(* SolvePolicy, with the accounts the modules of the concrete policies     *)
(* establish: a running step uses all its units, and an attempt is over    *)
(* when it has used MaxIterations of them.  The damping parameter carried  *)
(* from attempt to attempt only moves the inner iterates, which are        *)
(* arbitrary here.                                                         *)
(***************************************************************************)
EXTENDS SolvePolicy

CONSTANTS
  MaxRestarts,    \* options::max_restarts
  MaxIterations,  \* convergence_criteria::max_iterations_per_attempt
  MaxUnits,       \* bound: the largest N a step is asked for
  MaxSpent        \* bound: the units after which an exhausted wrapper is not stepped again

ASSUME WrapperAssumption ==
  /\ MaxRestarts \in Nat /\ MaxSpent \in Nat
  /\ MaxIterations \in Nat \ {0} /\ MaxUnits \in Nat \ {0}

VARIABLES
  m_inner,
  m_chain,             \* has setup() been called?
  m_restart_count,
  m_total_iterations,
  m_best,              \* m_best_q and the configuration behind m_best_q_error, or NoBest
  m_aborted,
  reported, billed,    \* what the last step() returned
  attempt,             \* history: the units billed since m_inner was last set up
  ended                \* history: how the failed attempts since setup() ended

vars == <<m_inner, m_chain, m_restart_count, m_total_iterations, m_best, m_aborted,
          reported, billed, attempt, ended>>

NoBest == [q |-> NoConfig, errAt |-> NoConfig]

Init ==
  /\ m_inner \in {p \in Policy : p.status = "running" /\ p.errAt = NoConfig}
  /\ m_chain = FALSE
  /\ m_restart_count = 0 /\ m_total_iterations = 0
  /\ m_best = NoBest /\ m_aborted = FALSE
  /\ reported = "running" /\ billed = 0
  /\ attempt = 0 /\ ended = {}

Setup ==
  /\ \E q0 \in Configs : m_inner' \in PolicySetups(q0)
  /\ m_chain' = TRUE
  /\ m_restart_count' = 0 /\ m_total_iterations' = 0
  /\ m_best' = NoBest /\ m_aborted' = FALSE
  /\ reported' = "running" /\ billed' = 0
  /\ attempt' = 0 /\ ended' = {}

\* m_inner.step(chain, n) leaves the inner policy at r and bills u units.
InnerStep(n, r, u) ==
  /\ m_chain /\ ~m_aborted
  /\ m_inner.status = "running" \/ m_total_iterations < MaxSpent
  /\ u \in UnitsBilled(m_inner, n)
  /\ r.status = "running" => u = n /\ attempt + u < MaxIterations
  /\ m_inner.status = "running" => attempt + u <= MaxIterations
  /\ billed' = u
  /\ m_total_iterations' = m_total_iterations + u
  /\ UNCHANGED <<m_chain, m_aborted>>

\* Slip: the end of the latest attempt replaces the best.
SlipKeepLatest(p) ==
  LET q == Canonical[p.q]
  IN  /\ m_best' = [q |-> q, errAt |-> p.errAt]
      /\ ended' = ended \cup {[q |-> q, errAt |-> p.errAt]}

ErrorAt(at) == IF at = NoConfig THEN ScalarMax ELSE ErrorNorm(at)

\* track_best_lambda() and update_best_q(), of an inner policy that ended as p.
TrackBest(p) ==
  LET q == Canonical[p.q]
      better == \/ m_best = NoBest
                \/ q \in InLimits /\ m_best.q \notin InLimits
                \/ /\ (q \in InLimits) = (m_best.q \in InLimits)
                   /\ PolicyError(p) < ErrorAt(m_best.errAt)
  IN  /\ m_best' = IF better THEN [q |-> q, errAt |-> p.errAt] ELSE m_best
      /\ ended' = ended \cup {[q |-> q, errAt |-> p.errAt]}

\* The inner result is handed on while the attempt runs and when it converged.
PassedOn ==
  \E n \in 1..MaxUnits, r \in PolicySteps(m_inner), u \in 0..MaxUnits :
    /\ InnerStep(n, r, u)
    /\ r.status \in {"running", "converged"}
    /\ m_inner' = r /\ reported' = r.status
    /\ attempt' = attempt + u
    /\ UNCHANGED <<m_restart_count, m_best, ended>>

\* Slip: the check of the restart budget is off by one.
SlipOneRestartLess == m_restart_count + 1 < MaxRestarts

RestartsLeft == m_restart_count < MaxRestarts

\* m_inner.setup() at the Halton seed: any configuration, since a joint with one limit or
\* none is seeded within a turn about zero.
Reseed(seed) == m_inner' \in PolicySetups(seed) /\ m_restart_count' = m_restart_count + 1

\* The attempt failed: its end is kept and a new one started, at no extra charge.
Restarted ==
  \E n \in 1..MaxUnits, r \in PolicySteps(m_inner), u \in 0..MaxUnits,
     seed \in Configs :
    /\ InnerStep(n, r, u)
    /\ r.status \notin {"running", "converged"}
    /\ RestartsLeft
    /\ TrackBest(r)
    /\ Reseed(seed)
    /\ reported' = "running"
    /\ attempt' = 0

\* No restart is left: the failure is the inner one.
Exhausted ==
  \E n \in 1..MaxUnits, r \in PolicySteps(m_inner), u \in 0..MaxUnits :
    /\ InnerStep(n, r, u)
    /\ r.status \notin {"running", "converged"}
    /\ ~RestartsLeft
    /\ TrackBest(r)
    /\ m_inner' = r /\ reported' = r.status
    /\ attempt' = attempt + u
    /\ UNCHANGED m_restart_count

\* abort(): the flag, and the inner policy's own abort().
Abort ==
  /\ m_chain
  /\ m_aborted' = TRUE
  /\ m_inner' \in AbortOutcomes(m_inner)
  /\ UNCHANGED <<m_chain, m_restart_count, m_total_iterations, m_best,
                 reported, billed, attempt, ended>>

AbortedStep ==
  /\ m_chain /\ m_aborted
  /\ reported' = "stalled" /\ billed' = 0
  /\ UNCHANGED <<m_inner, m_chain, m_restart_count, m_total_iterations, m_best, m_aborted,
                 attempt, ended>>

Next == Setup \/ PassedOn \/ Restarted \/ Exhausted \/ Abort \/ AbortedStep

Spec == Init /\ [][Next]_vars

\* Slip: the best of the failed attempts is handed out whenever there is one.
SlipAlwaysBest == m_best = NoBest

\* converged() || !m_best_valid: which of the two solution() and error_norm() return.
ShowsInner == m_inner.status = "converged" \/ m_best = NoBest

Solution == IF ShowsInner THEN m_inner.q ELSE m_best.q
SolutionErrAt == IF ShowsInner THEN m_inner.errAt ELSE m_best.errAt

(***************************************************************************)
(* Properties.                                                             *)
(***************************************************************************)

TypeOK ==
  /\ m_inner \in HonestPolicies
  /\ m_chain \in BOOLEAN
  /\ m_restart_count \in 0..MaxRestarts
  /\ m_total_iterations \in Nat
  /\ m_best = NoBest \/ m_best \in [q : Configs, errAt : Configs \cup {NoConfig}]
  /\ m_aborted \in BOOLEAN
  /\ reported \in IkStatus
  /\ billed \in 0..MaxUnits
  /\ attempt \in Nat
  /\ ended \subseteq [q : Configs, errAt : Configs \cup {NoConfig}]

\* The wrapper composes transparently: a driver cannot tell it from a policy of its
\* own.  Setup starts from a fresh running policy, converged is said of the
\* configuration and the error handed out, an ended wrapper stays as it is, and
\* an abort shows as stalled from the next step on.
Contract == INSTANCE PolicyContract WITH
  shown <- [q |-> Solution, errAt |-> SolutionErrAt,
            status |-> IF m_aborted THEN "stalled" ELSE reported]
RefinesContract == Contract!Spec

\* What a wrapper that has failed attempts behind it hands out, unless the inner
\* policy has converged since, is the best of their ends, not the latest: inside the
\* limits if one of them was, and with the smallest error among those of its kind.
BestOfAttempts ==
  ended # {} /\ m_inner.status # "converged" =>
    \A p \in ended :
      /\ p.q \in InLimits => Solution \in InLimits
      /\ (p.q \in InLimits) = (Solution \in InLimits)
           => ErrorAt(SolutionErrAt) <= ErrorAt(p.errAt)

\* A wrapper gives up only when it has used all its restarts, unless it was aborted,
\* and restarting is no way around the caps: the units billed while it runs stay
\* within those of the attempts it may start.
GivesUpLast ==
  /\ reported \notin {"running", "converged"} /\ ~m_aborted => m_restart_count = MaxRestarts
  /\ reported = "running" => m_total_iterations <= (MaxRestarts + 1) * MaxIterations
===============================================================================
