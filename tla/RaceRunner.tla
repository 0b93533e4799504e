------------------------------ MODULE RaceRunner ------------------------------
(***************************************************************************)
(* basic_ik_runner with several policies: cooperative racing in one        *)
(* thread.  A step() is a round: every policy that is not parked is ticked *)
(* once, in order.  A policy that ends is parked with its result; under    *)
(* the speed objective the first to converge parks all the others.         *)
(*                                                                         *)
(* A round is modelled one tick at a time, since the ticks communicate     *)
(* through m_early_stop, m_parked and any_running.                         *)
(***************************************************************************)
EXTENDS SolvePolicy, FiniteSetsExt

CONSTANTS
  N,           \* sizeof...(Policies)
  Seed,        \* the Halton seed each policy but the first is set up at
  Objectives,  \* the objectives setup() is called with
  MaxTotal,    \* solver_options::max_total_iterations
  MaxRounds,   \* bound: no abort() once this many rounds have run
  Ends         \* bound: the statuses policies end with; tick_policy() and all that
               \* follows tell only converged from the others

Policies == 0..(N - 1)

ASSUME RaceAssumption ==
  /\ N \in Nat \ {0, 1}
  /\ Seed \in [Policies -> Configs]
  /\ Objectives \subseteq IkObjective
  /\ MaxTotal \in Nat
  /\ MaxRounds \in Nat
  /\ Ends \subseteq IkStatus \ {"running"}

VARIABLES
  policies,
  m_objective,
  m_status,
  m_best_q,
  m_total_iterations,
  m_found_convergence,
  m_parked,
  m_results,            \* parked_result per policy, or Nothing
  m_best_solver_index,
  m_early_stop,
  pc,                   \* "unbound", "idle", "round", "tick" or "build"
  solving,              \* is the round part of solve()?
  next,                 \* the policy the round ticks next
  any_running,          \* local of step_multi()
  result,               \* what solve() returned, until the runner is driven again
  first,                \* history: the first policy to converge since setup(), or -1
  ticks                 \* history: how often each policy was ticked since setup()

race    == <<m_best_q, m_found_convergence, m_parked, m_results,
             m_best_solver_index, m_early_stop>>
history == <<first, ticks>>
vars    == <<policies, m_objective, m_status, m_total_iterations, race,
             pc, solving, next, any_running, result, history>>

Nothing  == [parked |-> FALSE]
NoResult == [kind |-> "none"]
NotInitialized == [kind |-> "error", q |-> NoConfig, errAt |-> NoConfig]

\* What tick_policy() parks: solution() and error_norm() of the ended policy.
ParkedResult(p) ==
  [parked |-> TRUE, q |-> p.q, errAt |-> p.errAt, converged |-> p.status = "converged"]

Init ==
  /\ policies \in [Policies -> [q : Configs, errAt : {NoConfig}, status : {"running"}]]
  /\ m_objective = "speed"
  /\ m_status = "running"
  /\ m_best_q = policies[0].q
  /\ m_total_iterations = 0
  /\ m_found_convergence = FALSE
  /\ m_parked = [i \in Policies |-> FALSE]
  /\ m_results = [i \in Policies |-> Nothing]
  /\ m_best_solver_index = -1
  /\ m_early_stop = FALSE
  /\ pc = "unbound" /\ solving = FALSE /\ next = 0 /\ any_running = FALSE
  /\ result = NoResult
  /\ first = -1 /\ ticks = [i \in Policies |-> 0]

\* The first policy starts from the caller's seed, the others from theirs.
StartOf(i, q0) == IF i = 0 THEN q0 ELSE Seed[i]

Setup(q0, objective) ==
  /\ pc \in {"unbound", "idle"}
  /\ policies' \in [Policies -> UNION {PolicySetups(StartOf(i, q0)) : i \in Policies}]
  /\ \A i \in Policies : policies'[i] \in PolicySetups(StartOf(i, q0))
  /\ m_objective' = objective
  /\ m_status' = "running"
  /\ m_best_q' = q0
  /\ m_total_iterations' = 0
  /\ m_found_convergence' = FALSE
  /\ m_parked' = [i \in Policies |-> FALSE]
  /\ m_results' = [i \in Policies |-> Nothing]
  /\ m_best_solver_index' = -1
  /\ m_early_stop' = FALSE
  /\ pc' = "idle"
  /\ result' = NoResult
  /\ first' = -1 /\ ticks' = [i \in Policies |-> 0]
  /\ UNCHANGED <<solving, next, any_running>>

------------------------------------------------------------------------------
(* step() and solve() *)

StepBegin ==
  /\ pc = "idle" /\ m_status = "running"
  /\ pc' = "tick" /\ solving' = FALSE /\ next' = 0 /\ any_running' = FALSE
  /\ result' = NoResult
  /\ UNCHANGED <<policies, m_objective, m_status, m_total_iterations, race, history>>

SolveNotInitialized ==
  /\ pc = "unbound"
  /\ result' = NotInitialized
  /\ UNCHANGED <<policies, m_objective, m_status, m_total_iterations, race,
                 pc, solving, next, any_running, history>>

SolveBegin ==
  /\ pc = "idle"
  /\ pc' = "round" /\ solving' = TRUE
  /\ UNCHANGED <<policies, m_objective, m_status, m_total_iterations, race,
                 next, any_running, result, history>>

\* while (step() == running): step() again, or out to build_result().
RoundBegin ==
  /\ pc = "round"
  /\ IF m_status = "running"
     THEN pc' = "tick" /\ next' = 0 /\ any_running' = FALSE /\ result' = NoResult
     ELSE pc' = "build" /\ UNCHANGED <<next, any_running, result>>
  /\ UNCHANGED <<policies, m_objective, m_status, m_total_iterations, race,
                 solving, history>>

\* Slip: any convergence holds the later policies back.
SlipAnyConvergence(i) == ~m_found_convergence /\ ~m_parked[i]

\* tick_policy<next>: one unit of work, then by the status it came back with.
Ticked(i) == ~m_early_stop /\ ~m_parked[i]

\* Slip: the winner does not stop the others.
SlipKeepRacing(p) ==
  /\ p.status = "converged"
  /\ m_found_convergence' = TRUE
  /\ m_results' = [m_results EXCEPT ![next] = ParkedResult(p)]
  /\ m_parked' = [m_parked EXCEPT ![next] = TRUE]
  /\ m_best_solver_index' = IF m_objective = "speed" THEN next ELSE m_best_solver_index
  /\ first' = IF first = -1 THEN next ELSE first
  /\ UNCHANGED <<any_running, m_best_q, m_early_stop>>

TickConverged(p) ==
  /\ p.status = "converged"
  /\ m_found_convergence' = TRUE
  /\ m_results' = [m_results EXCEPT ![next] = ParkedResult(p)]
  /\ IF m_objective = "speed"
     THEN /\ m_early_stop' = TRUE
          /\ m_best_solver_index' = next
          /\ m_best_q' = p.q
          /\ m_parked' = [i \in Policies |-> TRUE]
     ELSE /\ m_parked' = [m_parked EXCEPT ![next] = TRUE]
          /\ UNCHANGED <<m_early_stop, m_best_solver_index, m_best_q>>
  /\ first' = IF first = -1 THEN next ELSE first
  /\ UNCHANGED any_running

TickFailed(p) ==
  /\ p.status \in {"diverged", "stalled", "iteration_limit", "joint_limit_hit"}
  /\ m_parked' = [m_parked EXCEPT ![next] = TRUE]
  /\ m_results' = [m_results EXCEPT ![next] = ParkedResult(p)]
  /\ UNCHANGED <<m_best_q, m_found_convergence, m_best_solver_index, m_early_stop,
                 any_running, first>>

TickRunning(p) ==
  /\ p.status = "running"
  /\ any_running' = TRUE
  /\ UNCHANGED <<race, first>>

Tick ==
  /\ pc = "tick" /\ next < N /\ Ticked(next)
  /\ \E p \in PolicySteps(policies[next]) :
       /\ p.status \in Ends \cup {policies[next].status}
       /\ policies' = [policies EXCEPT ![next] = p]
       /\ TickConverged(p) \/ TickFailed(p) \/ TickRunning(p)
  /\ ticks' = [ticks EXCEPT ![next] = @ + 1]
  /\ next' = next + 1
  /\ UNCHANGED <<m_objective, m_status, m_total_iterations, pc, solving, result>>

TickSkipped ==
  /\ pc = "tick" /\ next < N /\ ~Ticked(next)
  /\ next' = next + 1
  /\ UNCHANGED <<policies, m_objective, m_status, m_total_iterations, race,
                 pc, solving, any_running, result, history>>

\* Slip: the first convergence ends the race under every objective.
SlipStopOnConvergence ==
  /\ pc = "tick" /\ next = N
  /\ m_total_iterations' = m_total_iterations + 1
  /\ m_status' = IF m_found_convergence THEN "converged"
                 ELSE IF m_total_iterations' >= MaxTotal \/ ~any_running
                 THEN "iteration_limit" ELSE m_status
  /\ pc' = IF solving THEN IF m_status' = "running" THEN "round" ELSE "build" ELSE "idle"
  /\ UNCHANGED <<policies, m_objective, race, solving, next, any_running, result, history>>

\* Slip: only the limit ends the race, and an idle round does not count.
SlipIdleRoundsFree ==
  /\ pc = "tick" /\ next = N
  /\ m_total_iterations' = m_total_iterations + IF any_running THEN 1 ELSE 0
  /\ m_status' = IF m_total_iterations' < MaxTotal THEN m_status
                 ELSE IF m_found_convergence THEN "converged" ELSE "iteration_limit"
  /\ pc' = IF solving THEN IF m_status' = "running" THEN "round" ELSE "build" ELSE "idle"
  /\ UNCHANGED <<policies, m_objective, race, solving, next, any_running, result, history>>

\* The rest of step_multi(): count the round, decide whether it was the last.
RoundEnd ==
  /\ pc = "tick" /\ next = N
  /\ m_total_iterations' = m_total_iterations + 1
  /\ m_status' =
       IF m_total_iterations' >= MaxTotal \/ ~any_running
       THEN IF m_found_convergence THEN "converged" ELSE "iteration_limit"
       ELSE m_status
  /\ pc' = IF solving THEN IF m_status' = "running" THEN "round" ELSE "build" ELSE "idle"
  /\ UNCHANGED <<policies, m_objective, race, solving, next, any_running, result, history>>

------------------------------------------------------------------------------
(* build_result() *)

Finished  == {i \in Policies : m_results[i].parked}
Converged == {i \in Finished : m_results[i].converged}

ErrorAt(q) == IF q = NoConfig THEN ScalarMax ELSE ErrorNorm(q)
ParkedError(i) == ErrorAt(m_results[i].errAt)

\* The first of the parked results in S with the lowest error norm.
LowestError(S) ==
  Min({i \in S : \A j \in S : ParkedError(i) <= ParkedError(j)})

\* Slip: the lowest error among all parked results, failures included.
SlipLowestOfAll == LowestError(Finished)

\* select_best_result(): by error norm whatever the objective, ties to the first.
SelectBest ==
  IF m_objective = "speed" /\ m_best_solver_index >= 0
  THEN m_best_solver_index
  ELSE LowestError(Converged)

MakeResult(i) ==
  [kind |-> "ok", q |-> m_results[i].q, errAt |-> m_results[i].errAt, index |-> i]

BuildError ==
  LET better == {i \in Finished : ParkedError(i) < ScalarMax}
      best   == IF better = {} THEN 0 ELSE LowestError(better)
  IN  IF best \in Finished
      THEN [kind |-> "error", q |-> m_results[best].q, errAt |-> m_results[best].errAt]
      ELSE [kind |-> "error", q |-> m_best_q, errAt |-> NoConfig]

SolveReturn ==
  /\ pc = "build"
  /\ result' = IF m_status = "converged" /\ Converged # {}
               THEN MakeResult(SelectBest) ELSE BuildError
  /\ pc' = "idle" /\ solving' = FALSE /\ next' = 0 /\ any_running' = FALSE
  /\ UNCHANGED <<policies, m_objective, m_status, m_total_iterations, race, history>>

Abort ==
  /\ pc \in {"unbound", "idle"} /\ m_total_iterations <= MaxRounds
  /\ policies' \in [Policies -> UNION {AbortOutcomes(policies[i]) : i \in Policies}]
  /\ \A i \in Policies : policies'[i] \in AbortOutcomes(policies[i])
  /\ m_status' = "running"
  /\ result' = NoResult
  /\ UNCHANGED <<m_objective, m_total_iterations, race, pc, solving, next,
                 any_running, history>>

------------------------------------------------------------------------------
Driving == RoundBegin \/ Tick \/ TickSkipped \/ RoundEnd \/ SolveReturn

Next ==
  \/ \E q0 \in Configs, objective \in Objectives : Setup(q0, objective)
  \/ StepBegin
  \/ SolveNotInitialized
  \/ SolveBegin
  \/ Abort
  \/ Driving

\* step() and solve() run to their end in the calling thread.
Spec == Init /\ [][Next]_vars /\ WF_vars(Driving)

------------------------------------------------------------------------------
(* What is checked. *)

Results ==
  [q : Configs, errAt : Configs \cup {NoConfig}, converged : BOOLEAN, parked : {TRUE}]

TypeOK ==
  /\ policies \in [Policies -> HonestPolicies]
  /\ m_objective \in IkObjective
  /\ m_status \in {"running", "converged", "iteration_limit"}
  /\ m_best_q \in Configs
  /\ m_total_iterations \in Nat
  /\ m_found_convergence \in BOOLEAN
  /\ m_parked \in [Policies -> BOOLEAN]
  /\ m_results \in [Policies -> Results \cup {Nothing}]
  /\ m_best_solver_index \in Policies \cup {-1}
  /\ m_early_stop \in BOOLEAN
  /\ pc \in {"unbound", "idle", "round", "tick", "build"}
  /\ solving \in BOOLEAN
  /\ next \in 0..N
  /\ any_running \in BOOLEAN
  /\ \/ result = NoResult
     \/ result.kind = "error" /\ result.q \in Configs \cup {NoConfig}
     \/ result.kind = "ok" /\ result.q \in Configs /\ result.index \in Policies
  /\ first \in Policies \cup {-1}
  /\ ticks \in [Policies -> Nat]

\* The speed race is won by the policy that converged before the others, however
\* often the runner is stepped, solved or aborted after that, and solve() never
\* answers with an error once a policy has converged, whatever ended the race.
FirstToConvergeWins ==
  /\ result.kind = "ok" /\ m_objective = "speed" => result.index = first
  /\ result.kind = "error" => first = -1

\* A success is a result that was parked converged, with its own error, and under the
\* other objectives no converged policy did better, in whatever rounds they were parked
\* and however low the error of one that failed.
BestOfRace ==
  result.kind = "ok" =>
    /\ result.index \in Converged
    /\ result.errAt = result.q
    /\ m_objective # "speed" =>
         \A i \in Converged : ErrorAt(result.errAt) <= ParkedError(i)

\* Under the objectives that compare solutions, a success that comes before the
\* round limit comes after every policy has ended: none was cut short.
AllPoliciesFinish ==
  result.kind = "ok" /\ m_objective # "speed" /\ m_total_iterations < MaxTotal
    => Finished = Policies

\* Cooperative racing is even: between rounds every policy still in the race has
\* had one unit of work per round, and no policy has had more.
EqualShare ==
  pc \in {"idle", "round", "build"} =>
    \A i \in Policies : /\ ticks[i] <= m_total_iterations
                        /\ ~m_parked[i] => ticks[i] = m_total_iterations

\* A call of step() or solve() returns.
CallsReturn == pc \in {"tick", "round", "build"} ~> pc = "idle"

------------------------------------------------------------------------------
(* The race the runner is meant to be. *)

R == INSTANCE Race WITH
  stopAtFirst <- m_objective = "speed",
  outcome     <- [i \in Policies |->
                    IF i \notin Finished THEN "racing"
                    ELSE IF i \in Converged THEN "converged" ELSE "failed"],
  verdict     <- CASE result.kind = "none"  -> [lost |-> FALSE, by |-> -1]
                   [] result.kind = "ok"    -> [lost |-> FALSE, by |-> result.index]
                   [] result.kind = "error" -> [lost |-> TRUE, by |-> -1]

\* Rounds, parking and the two early stops implement the race.
RefinesRace == R!Spec
=============================================================================
