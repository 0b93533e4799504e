-------------------------- MODULE SingleRunnerProofs --------------------------
(***************************************************************************)
(* What holds of the single-policy runner for every configuration space,   *)
(* every budget and every policy that keeps the SolvePolicy contract.      *)
(***************************************************************************)
EXTENDS SingleRunner, TLAPS

\* Every policy a step may answer with is a policy, and what it bills is a
\* number no larger than what was asked for.
LEMMA PolicyStepType ==
  ASSUME NEW p \in Policy, NEW n \in Nat \ {0},
         NEW r \in PolicySteps(p), NEW u \in UnitsBilled(p, n)
  PROVE  r \in Policy /\ u \in Nat /\ u <= n
BY DEF PolicySteps, UnitsBilled, HonestPolicies, Policy

\* A fresh attempt is a running policy, wherever the policy puts its seed.
LEMMA SetupType ==
  ASSUME NEW q0 \in Configs, NEW r \in PolicySetups(q0)
  PROVE  r \in Policy /\ r.status = "running" /\ HonestConvergence(r)
<1>1. Clamp[q0] \in Configs
  BY SpaceAssumption
<1>. QED
  BY <1>1 DEF PolicySetups, Policy, IkStatus, HonestConvergence

\* The squares ErrorNorm adds up are natural.
LEMMA SquareType == \A a \in Nat : a * a \in Nat
OBVIOUS

\* The error norm of a configuration is a natural.
LEMMA ErrorNormType == \A q \in Configs : ErrorNorm(q) \in Nat
<1>1. ASSUME NEW q \in Configs PROVE ErrorNorm(q) \in Nat
  <2>1. Ang[q] \in Nat /\ Lin[q] \in Nat
    BY SpaceAssumption
  <2>2. Ang[q] * Ang[q] \in Nat /\ Lin[q] * Lin[q] \in Nat
    BY <2>1, SquareType
  <2>. QED
    BY <2>2 DEF ErrorNorm
<1>. QED
  BY <1>1

\* solve()'s accounting: what the loop has added up is what was billed, and a
\* call in flight was granted no more than what was left.
Accounts ==
  /\ pc = "loop" => /\ billed = total_units /\ total_units <= MaxWork
                    /\ billed > 0 => m_total_iterations = billed
  /\ pc = "account" => billed = total_units + inner.units /\ billed <= MaxWork
  /\ pc = "build" => /\ billed <= MaxWork
                     /\ billed > 0 => m_total_iterations = billed

\* The best configuration so far is a converged one as soon as there is one.
BestIsConverged ==
  /\ HonestConvergence(policy)
  /\ m_found_convergence <=> converged_at # {}
  /\ m_status = "converged" => m_found_convergence
  /\ m_chain /\ ~m_found_convergence => m_best_error = ScalarMax /\ m_best_metric = 0
  /\ ~m_chain => ~m_found_convergence /\ m_status = "running" /\ pc \in {"idle", "rounds"}
  /\ m_found_convergence /\ (\A c \in converged_at : Metric[c] > 0)
       => m_best_q \in converged_at
  /\ m_found_convergence /\ m_objective = "speed"
       => /\ policy.status # "running"
          /\ policy.status = "converged" => policy.errAt = m_best_q

ResultIsBest ==
  result.kind = "ok" =>
    /\ m_found_convergence
    /\ result.q = m_best_q
    /\ result.errAt = policy.errAt

------------------------------------------------------------------------------
(* Types *)

\* step_single_metrics(n) keeps every member in its type and bills at most n.
LEMMA StepSingleMetricsType ==
  ASSUME TypeOK, NEW n \in Nat \ {0}, StepSingleMetrics(n)
  PROVE  /\ policy' \in Policy
         /\ m_chain' \in BOOLEAN /\ m_objective' \in IkObjective
         /\ m_status' \in IkStatus \ {"joint_limit_hit"}
         /\ m_best_q' \in Configs /\ m_best_error' \in Nat /\ m_best_metric' \in Nat
         /\ m_found_convergence' \in BOOLEAN
         /\ inner' \in Outcomes /\ inner'.units <= n
         /\ result' \in Results
         /\ converged_at' \subseteq Configs
         /\ billed' = Bill(inner'.units) /\ billed' \in Nat
<1>1. PICK p \in PolicySteps(policy), u \in UnitsBilled(policy, n) :
        /\ \/ ConvergedForSpeed(p, u) \/ ConvergedForBest(p, u)
           \/ PolicyFailed(p, u) \/ PolicyOther(p, u)
        /\ converged_at' = IF p.status = "converged"
                           THEN converged_at \cup {p.q} ELSE converged_at
        /\ billed' = Bill(u) /\ result' = NoResult
        /\ UNCHANGED <<m_chain, m_objective>>
  BY DEF StepSingleMetrics
<1>2. p \in Policy /\ u \in Nat /\ u <= n
  BY PolicyStepType DEF TypeOK
<1>3. p.q \in Configs /\ p.errAt \in Configs \cup {NoConfig} /\ p.status \in IkStatus
  BY <1>2 DEF Policy
<1>4. PolicyError(p) \in Nat /\ Metric[p.q] \in Nat
  BY <1>3, ErrorNormType, SpaceAssumption, RunnerAssumption DEF PolicyError
<1>5. inner' \in Outcomes /\ inner'.units = u
  BY <1>1, <1>2, <1>3 DEF ConvergedForSpeed, ConvergedForBest, PolicyFailed,
     PolicyOther, Outcomes, TypeOK, IkStatus, Failures
<1>6. policy' \in Policy
  <2>1. policy' = p \/ policy' \in PolicySetups(p.q)
    BY <1>1 DEF ConvergedForSpeed, ConvergedForBest, PolicyFailed, PolicyOther
  <2>. QED
    BY <1>2, <1>3, <2>1, SetupType
<1>7. m_best_q' \in Configs /\ m_best_error' \in Nat /\ m_best_metric' \in Nat
  BY <1>1, <1>3, <1>4 DEF ConvergedForSpeed, ConvergedForBest, PolicyFailed,
     PolicyOther, UpdateBest, TypeOK
<1>8. /\ m_status' \in IkStatus \ {"joint_limit_hit"}
      /\ m_found_convergence' \in BOOLEAN
  BY <1>1, <1>3 DEF ConvergedForSpeed, ConvergedForBest, PolicyFailed,
     PolicyOther, TypeOK, IkStatus, Failures
<1>9. billed' = Bill(inner'.units) /\ billed' \in Nat
  BY <1>1, <1>2, <1>5, RunnerAssumption DEF Bill, TypeOK
<1>10. result' \in Results /\ converged_at' \subseteq Configs
  BY <1>1, <1>3 DEF NoResult, Results, TypeOK
<1>11. m_chain' \in BOOLEAN /\ m_objective' \in IkObjective
  BY <1>1 DEF TypeOK
<1>. QED
  BY <1>2, <1>5, <1>6, <1>7, <1>8, <1>9, <1>10, <1>11

\* A runner before setup() is well typed.
LEMMA InitType == Init => TypeOK
<1> SUFFICES ASSUME Init PROVE TypeOK
  OBVIOUS
<1>1. policy \in Policy /\ policy.q \in Configs
  BY DEF Init, Policy, IkStatus
<1>2. inner \in Outcomes /\ result \in Results
  BY DEF Init, NoInner, NoResult, Outcomes, Results, IkStatus
<1>. QED
  BY <1>1, <1>2 DEF Init, TypeOK, IkStatus, IkObjective

\* Every operation keeps the runner well typed.
LEMMA NextType == TypeOK /\ [Next]_vars => TypeOK'
<1> SUFFICES ASSUME TypeOK, [Next]_vars PROVE TypeOK'
  OBVIOUS
<1>1. ASSUME NEW q0 \in Configs, NEW objective \in Objectives, Setup(q0, objective)
      PROVE TypeOK'
  <2>1. policy' \in Policy
    BY <1>1, SetupType DEF Setup, TypeOK
  <2>. QED
    BY <1>1, <2>1, RunnerAssumption, SpaceAssumption DEF TypeOK, Setup,
       IkStatus, NoInner, NoResult, Outcomes, Results
<1>2. CASE StepReturnsEarly
  <2>1. inner' \in Outcomes
    BY <1>2 DEF StepReturnsEarly, TypeOK, Outcomes, IkStatus
  <2>. QED
    BY <1>2, <2>1 DEF StepReturnsEarly, members, history, TypeOK
<1>3. CASE Step
  BY <1>3, StepSingleMetricsType DEF Step, TypeOK
<1>4. ASSUME NEW n \in 0..MaxRounds, StepN(n)
      PROVE TypeOK'
  BY <1>4, RunnerAssumption DEF StepN, members, history, TypeOK
<1>5. CASE SolveNotInitialized
  BY <1>5 DEF SolveNotInitialized, members, history, TypeOK, Results, IkFailure
<1>6. CASE SolveEnter
  BY <1>6 DEF SolveEnter, members, TypeOK, NoInner, Outcomes, IkStatus
<1>7. CASE Abort
  <2>1. policy' \in Policy
    BY <1>7 DEF Abort, AbortOutcomes, TypeOK, Policy, IkStatus
  <2>. QED
    BY <1>7, <2>1 DEF Abort, history, TypeOK, IkStatus, NoResult, Results
<1>8. CASE StepNRound
  <2>1. StepSingleMetrics(1) /\ UNCHANGED <<m_total_iterations, total_units>>
    BY <1>8 DEF StepNRound
  <2>2. remaining' \in Nat /\ pc' \in {"idle", "rounds"}
    BY <1>8 DEF StepNRound, TypeOK
  <2>. QED
    BY <2>1, <2>2, StepSingleMetricsType DEF TypeOK
<1>9. CASE StepNEnds
  BY <1>9 DEF StepNEnds, members, history, TypeOK
<1>10. CASE SolveCall
  <2>1. MaxWork - total_units \in Nat \ {0}
    BY <1>10, RunnerAssumption DEF SolveCall, TypeOK
  <2>. QED
    BY <1>10, <2>1, StepSingleMetricsType DEF SolveCall, TypeOK
<1>11. CASE SolveAccount
  <2>1. inner.units \in Nat /\ total_units' \in Nat /\ m_total_iterations' \in Nat
    BY <1>11 DEF SolveAccount, TypeOK, Outcomes
  <2>2. m_status' \in IkStatus \ {"joint_limit_hit"} /\ pc' \in {"build", "loop"}
    BY <1>11 DEF SolveAccount, TypeOK, IkStatus
  <2>. QED
    BY <1>11, <2>1, <2>2 DEF SolveAccount, history, TypeOK
<1>12. CASE SolveLoopEnds
  BY <1>12 DEF SolveLoopEnds, members, history, TypeOK
<1>13. CASE SolveReturn
  <2>1. BuildResult \in Results
    BY DEF BuildResult, FailureReason, Results, Failures, IkFailure, IkStatus, TypeOK, Policy
  <2>. QED
    BY <1>13, <2>1 DEF SolveReturn, members, history, TypeOK, NoInner, Outcomes, IkStatus
<1>14. CASE UNCHANGED vars
  BY <1>14 DEF vars, members, locals, history, TypeOK
<1>. QED
  BY <1>1, <1>2, <1>3, <1>4, <1>5, <1>6, <1>7, <1>8, <1>9, <1>10, <1>11, <1>12, <1>13, <1>14
     DEF Next, Driving

\* The types of the members, of what solve() returns and of the locals of its
\* loop, for every configuration space, budget and policy under contract.
THEOREM TypeCorrect == Spec => []TypeOK
BY InitType, NextType, PTL DEF Spec

------------------------------------------------------------------------------
(* The budget *)

\* Before the first solve() there is nothing to account for.
LEMMA InitAccounts == Init => Accounts
BY DEF Init, Accounts

\* Every operation keeps the accounts of solve() balanced.
LEMMA NextAccounts == TypeOK /\ Accounts /\ [Next]_vars => Accounts'
<1> SUFFICES ASSUME TypeOK, Accounts, [Next]_vars PROVE Accounts'
  OBVIOUS
<1>1. ASSUME NEW q0 \in Configs, NEW objective \in Objectives, Setup(q0, objective)
      PROVE Accounts'
  BY <1>1 DEF Setup, Accounts
<1>2. CASE StepReturnsEarly \/ StepNEnds \/ SolveNotInitialized \/ Abort
  BY <1>2 DEF StepReturnsEarly, StepNEnds, SolveNotInitialized, Abort, members, history, Accounts
<1>3. CASE Step \/ StepNRound
  <2>1. pc' \in {"idle", "rounds"}
    BY <1>3 DEF Step, StepNRound
  <2>. QED
    BY <2>1 DEF Accounts
<1>4. ASSUME NEW n \in 0..MaxRounds, StepN(n)
      PROVE Accounts'
  BY <1>4 DEF StepN, Accounts
<1>5. CASE SolveEnter
  BY <1>5, RunnerAssumption DEF SolveEnter, Accounts
<1>6. CASE SolveCall
  <2>1. MaxWork - total_units \in Nat \ {0} /\ billed = total_units
    BY <1>6, RunnerAssumption DEF SolveCall, TypeOK, Accounts
  <2>2. /\ inner'.units \in Nat /\ inner'.units <= MaxWork - total_units
        /\ billed' = Bill(inner'.units)
    BY <1>6, <2>1, StepSingleMetricsType DEF SolveCall, Outcomes
  <2>3. billed' = billed + inner'.units /\ billed' <= MaxWork
    BY <2>1, <2>2, RunnerAssumption DEF Bill, TypeOK
  <2>. QED
    BY <1>6, <2>1, <2>3 DEF SolveCall, Accounts
<1>7. CASE SolveAccount
  BY <1>7, RunnerAssumption DEF SolveAccount, history, Accounts, TypeOK, Outcomes
<1>8. CASE SolveLoopEnds
  BY <1>8 DEF SolveLoopEnds, members, history, Accounts
<1>9. CASE SolveReturn
  BY <1>9 DEF SolveReturn, Accounts
<1>10. CASE UNCHANGED vars
  BY <1>10 DEF vars, members, locals, history, Accounts
<1>. QED
  BY <1>1, <1>2, <1>3, <1>4, <1>5, <1>6, <1>7, <1>8, <1>9, <1>10 DEF Next, Driving

\* The accounts of solve() always balance.
LEMMA AccountsCorrect == Spec => []Accounts
<1>1. Init => Accounts
  BY InitAccounts
<1>2. TypeOK /\ Accounts /\ [Next]_vars => Accounts'
  BY NextAccounts
<1>. QED
  BY <1>1, <1>2, TypeCorrect, PTL DEF Spec

\* The cap on work units is literal: no solve() lets any policy under contract
\* bill more than max_total_work_units, whatever its statuses.
THEOREM BudgetIsLiteral == Spec => []BudgetLiteral
<1>1. TypeOK /\ Accounts => BudgetLiteral
  BY RunnerAssumption DEF Accounts, BudgetLiteral, TypeOK
<1>. QED
  BY <1>1, TypeCorrect, AccountsCorrect, PTL

\* iterations() after a solve() is what the policy billed in it.
THEOREM IterationsAreUnits == Spec => []IterationsExact
<1>1. Accounts => IterationsExact
  BY DEF Accounts, IterationsExact
<1>. QED
  BY <1>1, AccountsCorrect, PTL

------------------------------------------------------------------------------
(* Success *)

\* Before setup() there is no best configuration and no result.
LEMMA InitBest == Init => BestIsConverged /\ ResultIsBest
BY DEF Init, BestIsConverged, ResultIsBest, NoResult, HonestConvergence

\* What one policy call does to the best configuration, case by case.
LEMMA StepSingleMetricsBest ==
  ASSUME TypeOK, BestIsConverged, m_chain, NEW n \in Nat \ {0}, StepSingleMetrics(n)
  PROVE  BestIsConverged'
<1>1. PICK p \in PolicySteps(policy), u \in UnitsBilled(policy, n) :
        /\ \/ ConvergedForSpeed(p, u) \/ ConvergedForBest(p, u)
           \/ PolicyFailed(p, u) \/ PolicyOther(p, u)
        /\ converged_at' = IF p.status = "converged"
                           THEN converged_at \cup {p.q} ELSE converged_at
        /\ UNCHANGED <<m_chain, m_objective>>
  BY DEF StepSingleMetrics
<1>2. /\ p \in Policy /\ p.q \in Configs
      /\ HonestConvergence(p)
      /\ policy.status # "running" => p = policy
  BY <1>1, PolicyStepType DEF PolicySteps, HonestPolicies, TypeOK, Policy, BestIsConverged
<1>3. CASE ConvergedForSpeed(p, u)
  BY <1>1, <1>2, <1>3 DEF ConvergedForSpeed, BestIsConverged, HonestConvergence
<1>4. CASE ConvergedForBest(p, u)
  <2>1. PolicyError(p) < ScalarMax
    BY <1>2, <1>4, SpaceAssumption, NoConfigAssumption
       DEF ConvergedForBest, PolicyError, HonestConvergence
  <2>2. /\ m_best_q' \in {m_best_q, p.q}
        /\ ~m_found_convergence /\ Metric[p.q] > 0 => m_best_q' = p.q
    BY <1>4, <2>1 DEF ConvergedForBest, UpdateBest, BestIsConverged
  <2>3. /\ m_found_convergence' /\ m_objective' # "speed"
        /\ p.q \in converged_at' /\ converged_at \subseteq converged_at'
        /\ m_chain'
    BY <1>1, <1>4 DEF ConvergedForBest
  <2>4. ASSUME \A c \in converged_at' : Metric[c] > 0
        PROVE  m_best_q' \in converged_at'
    BY <2>2, <2>3, <2>4 DEF BestIsConverged
  <2>5. HonestConvergence(policy')
    BY <1>2, <1>4, SetupType DEF ConvergedForBest
  <2>. QED
    BY <2>3, <2>4, <2>5 DEF BestIsConverged, HonestConvergence
<1>5. CASE PolicyFailed(p, u)
  BY <1>1, <1>2, <1>5 DEF PolicyFailed, BestIsConverged, Failures, HonestConvergence
<1>6. CASE PolicyOther(p, u)
  BY <1>1, <1>2, <1>6 DEF PolicyOther, BestIsConverged, HonestConvergence
<1>. QED
  BY <1>1, <1>3, <1>4, <1>5, <1>6

\* Every operation keeps the best configuration a converged one.
LEMMA NextBest ==
  TypeOK /\ BestIsConverged /\ ResultIsBest /\ [Next]_vars
    => BestIsConverged' /\ ResultIsBest'
<1> SUFFICES ASSUME TypeOK, BestIsConverged, ResultIsBest, [Next]_vars
             PROVE  BestIsConverged' /\ ResultIsBest'
  OBVIOUS
<1>1. ASSUME NEW q0 \in Configs, NEW objective \in Objectives, Setup(q0, objective)
      PROVE BestIsConverged' /\ ResultIsBest'
  <2>1. HonestConvergence(policy')
    BY <1>1, SetupType DEF Setup, TypeOK
  <2>. QED
    BY <1>1, <2>1 DEF Setup, BestIsConverged, ResultIsBest, HonestConvergence, NoResult
<1>2. CASE StepReturnsEarly \/ StepNEnds
  BY <1>2 DEF StepReturnsEarly, StepNEnds, members, history, BestIsConverged, ResultIsBest,
     HonestConvergence
<1>3. ASSUME NEW n \in 0..MaxRounds, StepN(n)
      PROVE BestIsConverged' /\ ResultIsBest'
  BY <1>3 DEF StepN, members, history, BestIsConverged, ResultIsBest, HonestConvergence
<1>4. CASE SolveNotInitialized
  BY <1>4 DEF SolveNotInitialized, members, history, BestIsConverged, ResultIsBest,
     HonestConvergence
<1>5. CASE SolveEnter \/ SolveLoopEnds
  <2>1. m_chain
    BY <1>5 DEF SolveEnter, SolveLoopEnds, BestIsConverged
  <2>2. UNCHANGED <<policy, members, result, converged_at>>
    BY <1>5 DEF SolveEnter, SolveLoopEnds, history
  <2>. QED
    BY <2>1, <2>2 DEF members, BestIsConverged, ResultIsBest, HonestConvergence
<1>6. CASE Abort
  <2>1. policy' = policy \/ policy'.status = "stalled"
    BY <1>6 DEF Abort, AbortOutcomes
  <2>2. HonestConvergence(policy')
    BY <2>1 DEF BestIsConverged, HonestConvergence
  <2>. QED
    BY <1>6, <2>1, <2>2 DEF Abort, history, BestIsConverged, ResultIsBest, NoResult,
       HonestConvergence
<1>7. CASE Step \/ StepNRound
  <2>1. m_chain /\ StepSingleMetrics(1)
    BY <1>7 DEF Step, StepNRound
  <2>2. result' = NoResult
    BY <2>1 DEF StepSingleMetrics
  <2>. QED
    BY <2>1, <2>2, StepSingleMetricsBest DEF ResultIsBest, NoResult
<1>8. CASE SolveCall
  <2>1. m_chain /\ MaxWork - total_units \in Nat \ {0}
    BY <1>8, RunnerAssumption DEF SolveCall, TypeOK, BestIsConverged
  <2>2. StepSingleMetrics(MaxWork - total_units)
    BY <1>8 DEF SolveCall
  <2>3. result' = NoResult
    BY <2>2 DEF StepSingleMetrics
  <2>. QED
    BY <2>1, <2>2, <2>3, StepSingleMetricsBest DEF ResultIsBest, NoResult
<1>9. CASE SolveAccount
  <2>1. m_chain
    BY <1>9 DEF SolveAccount, BestIsConverged
  <2>2. m_status' = "converged" => m_found_convergence
    BY <1>9 DEF SolveAccount, BestIsConverged
  <2>. QED
    BY <1>9, <2>1, <2>2 DEF SolveAccount, history, BestIsConverged, ResultIsBest,
       HonestConvergence
<1>10. CASE SolveReturn
  <2>1. BestIsConverged'
    BY <1>10 DEF SolveReturn, members, history, BestIsConverged, HonestConvergence
  <2>2. ResultIsBest'
    BY <1>10 DEF SolveReturn, members, BuildResult, BestIsConverged, ResultIsBest
  <2>. QED
    BY <2>1, <2>2
<1>11. CASE UNCHANGED vars
  BY <1>11 DEF vars, members, locals, history, BestIsConverged, ResultIsBest, HonestConvergence
<1>. QED
  BY <1>1, <1>2, <1>3, <1>4, <1>5, <1>6, <1>7, <1>8, <1>9, <1>10, <1>11 DEF Next, Driving

\* A successful solve returns a configuration the policy reported convergence
\* at, and under the speed objective the error that was computed there.
THEOREM SuccessIsHonest == Spec => []SuccessHonest
<1>1. Init => BestIsConverged /\ ResultIsBest
  BY InitBest
<1>2. TypeOK /\ (BestIsConverged /\ ResultIsBest) /\ [Next]_vars
        => (BestIsConverged /\ ResultIsBest)'
  BY NextBest
<1>3. BestIsConverged /\ ResultIsBest => SuccessHonest
  BY DEF BestIsConverged, ResultIsBest, SuccessHonest
<1>. QED
  BY <1>1, <1>2, <1>3, TypeCorrect, PTL DEF Spec
------------------------------------------------------------------------------
(* The best of several solutions *)

\* What update_best() keeps between calls: under a secondary objective the best
\* configuration carries its own measure, and no solution met so far beats it.
BestBeatsConverged ==
  m_found_convergence =>
    /\ m_objective = "min_distance" =>
         /\ m_best_error = ErrorNorm(m_best_q)
         /\ \A c \in converged_at : m_best_error <= ErrorNorm(c)
    /\ m_objective \in {"max_manipulability", "max_isotropy"} =>
         /\ m_best_metric \in {0, Metric[m_best_q]}
         /\ \A c \in converged_at : Metric[c] <= m_best_metric

\* A policy call keeps the best of the solutions, the new one included.
LEMMA StepSingleMetricsBeats ==
  ASSUME TypeOK, BestIsConverged, BestBeatsConverged, m_chain,
         NEW n \in Nat \ {0}, StepSingleMetrics(n)
  PROVE  BestBeatsConverged'
<1>1. PICK p \in PolicySteps(policy), u \in UnitsBilled(policy, n) :
        /\ \/ ConvergedForSpeed(p, u) \/ ConvergedForBest(p, u)
           \/ PolicyFailed(p, u) \/ PolicyOther(p, u)
        /\ converged_at' = IF p.status = "converged"
                           THEN converged_at \cup {p.q} ELSE converged_at
        /\ UNCHANGED <<m_chain, m_objective>>
  BY DEF StepSingleMetrics
<1>2. p.q \in Configs /\ HonestConvergence(p)
  BY <1>1, PolicyStepType DEF PolicySteps, HonestPolicies, TypeOK, Policy, BestIsConverged
<1>3. /\ ErrorNorm(p.q) \in Nat /\ ErrorNorm(p.q) < ScalarMax /\ ScalarMax \in Nat
      /\ Metric[p.q] \in Nat
      /\ \A c \in converged_at : ErrorNorm(c) \in Nat /\ Metric[c] \in Nat
  BY <1>2, ErrorNormType, SpaceAssumption, RunnerAssumption DEF TypeOK
<1>4. CASE ConvergedForSpeed(p, u)
  BY <1>1, <1>4 DEF ConvergedForSpeed, BestBeatsConverged
<1>5. CASE ConvergedForBest(p, u)
  <2>1. PolicyError(p) = ErrorNorm(p.q)
    BY <1>2, <1>5, NoConfigAssumption DEF ConvergedForBest, PolicyError, HonestConvergence
  <2>2. /\ UpdateBest(p) /\ converged_at' = converged_at \cup {p.q}
        /\ m_found_convergence' /\ m_objective' = m_objective
    BY <1>1, <1>5 DEF ConvergedForBest
  <2>3. ~m_found_convergence => /\ converged_at = {}
                                /\ m_best_error = ScalarMax /\ m_best_metric = 0
    BY DEF BestIsConverged
  <2>4. CASE m_objective = "min_distance"
    <3>1. m_best_error' = ErrorNorm(m_best_q') /\ m_best_error' <= ErrorNorm(p.q)
      BY <1>3, <2>1, <2>2, <2>3, <2>4 DEF UpdateBest, BestBeatsConverged, TypeOK
    <3>2. \A c \in converged_at : m_best_error' <= ErrorNorm(c)
      BY <1>3, <2>1, <2>2, <2>3, <2>4 DEF UpdateBest, BestBeatsConverged, TypeOK
    <3>. QED
      BY <2>2, <2>4, <3>1, <3>2 DEF BestBeatsConverged
  <2>5. CASE m_objective \in {"max_manipulability", "max_isotropy"}
    <3>1. /\ m_best_metric' \in Nat /\ m_best_metric' \in {0, Metric[m_best_q']}
          /\ Metric[p.q] <= m_best_metric' /\ m_best_metric <= m_best_metric'
      BY <1>3, <2>2, <2>3, <2>5 DEF UpdateBest, BestBeatsConverged, TypeOK
    <3>2. \A c \in converged_at : Metric[c] <= m_best_metric'
      BY <1>3, <2>3, <2>5, <3>1 DEF BestBeatsConverged, TypeOK
    <3>. QED
      BY <2>2, <2>5, <3>1, <3>2 DEF BestBeatsConverged
  <2>. QED
    BY <1>5, <2>2, <2>4, <2>5 DEF ConvergedForBest, BestBeatsConverged
<1>6. CASE PolicyFailed(p, u) \/ PolicyOther(p, u)
  <2>1. UNCHANGED <<m_found_convergence, m_best_q, m_best_error, m_best_metric, m_objective,
                    converged_at>>
    BY <1>1, <1>6 DEF PolicyFailed, PolicyOther, Failures
  <2>. QED
    BY <2>1 DEF BestBeatsConverged
<1>. QED
  BY <1>1, <1>4, <1>5, <1>6

\* Every operation keeps the best of the solutions.
LEMMA NextBeats ==
  TypeOK /\ BestIsConverged /\ BestBeatsConverged /\ [Next]_vars => BestBeatsConverged'
<1> SUFFICES ASSUME TypeOK, BestIsConverged, BestBeatsConverged, [Next]_vars
             PROVE  BestBeatsConverged'
  OBVIOUS
<1>1. ASSUME NEW q0 \in Configs, NEW objective \in Objectives, Setup(q0, objective)
      PROVE BestBeatsConverged'
  BY <1>1 DEF Setup, BestBeatsConverged
<1>2. CASE Step \/ StepNRound
  <2>1. m_chain /\ StepSingleMetrics(1)
    BY <1>2 DEF Step, StepNRound
  <2>. QED
    BY <2>1, StepSingleMetricsBeats
<1>3. CASE SolveCall
  <2>1. m_chain /\ MaxWork - total_units \in Nat \ {0}
    BY <1>3, RunnerAssumption DEF SolveCall, TypeOK, BestIsConverged
  <2>2. StepSingleMetrics(MaxWork - total_units)
    BY <1>3 DEF SolveCall
  <2>. QED
    BY <2>1, <2>2, StepSingleMetricsBeats
<1>4. ASSUME UNCHANGED <<m_objective, m_best_q, m_best_error, m_best_metric,
                         m_found_convergence, converged_at>>
      PROVE  BestBeatsConverged'
  BY <1>4 DEF BestBeatsConverged
<1>5. ASSUME NEW n \in 0..MaxRounds, StepN(n)
      PROVE BestBeatsConverged'
  BY <1>4, <1>5 DEF StepN, members, history
<1>. QED
  BY <1>1, <1>2, <1>3, <1>4, <1>5 DEF Next, Driving, StepReturnsEarly, SolveNotInitialized,
     SolveEnter, Abort, StepNEnds, SolveAccount, SolveLoopEnds, SolveReturn,
     vars, members, history

\* solve() under a secondary objective returns the best of all the solutions
\* the policy met since setup(), over every fresh attempt of the budget.
THEOREM BestIsReturned == Spec => []BestOfConverged
<1>1. Init => BestIsConverged /\ ResultIsBest /\ BestBeatsConverged
  BY InitBest DEF Init, BestBeatsConverged
<1>2. /\ TypeOK /\ (BestIsConverged /\ ResultIsBest /\ BestBeatsConverged) /\ [Next]_vars
      => (BestIsConverged /\ ResultIsBest /\ BestBeatsConverged)'
  BY NextBest, NextBeats
<1>3. TypeOK /\ ResultIsBest /\ BestBeatsConverged => BestOfConverged
  <2> SUFFICES ASSUME TypeOK, ResultIsBest, BestBeatsConverged, result.kind = "ok",
                      NEW c \in converged_at
               PROVE  /\ m_objective = "min_distance" => ErrorNorm(result.q) <= ErrorNorm(c)
                      /\ m_objective \in {"max_manipulability", "max_isotropy"}
                           /\ Metric[c] > 0 => Metric[result.q] >= Metric[c]
    BY DEF BestOfConverged
  <2>1. Metric[c] \in Nat /\ Metric[m_best_q] \in Nat
    BY RunnerAssumption DEF TypeOK
  <2>. QED
    BY <2>1 DEF ResultIsBest, BestBeatsConverged, TypeOK
<1>. QED
  BY <1>1, <1>2, <1>3, TypeCorrect, PTL DEF Spec
------------------------------------------------------------------------------
(* Failure *)

\* An end status is the policy's, or the zero-unit guard's over a running
\* policy; either way nothing had converged.
EndedAsPolicy ==
  m_status \in Failures =>
    /\ ~m_found_convergence
    /\ \/ m_status = policy.status
       \/ m_status = "iteration_limit" /\ policy.status = "running"

\* What a policy call leaves: the runner, the policy and the returned status agree.
CallEnded ==
  \/ inner.status = "running" /\ m_status = "running" /\ policy.status = "running"
  \/ inner.status = "joint_limit_hit" /\ policy.status = "joint_limit_hit"
  \/ inner.status = "converged" /\ m_status = "converged"
  \/ inner.status \in Failures /\ m_status = inner.status /\ m_status = policy.status

\* The loop goes on over a running policy; before its first call the runner may
\* have ended, or the policy may have been aborted.
LoopGoesOn ==
  /\ m_status = "running" => policy.status = "running" \/ total_units = 0
  /\ m_status # "running" => inner.units = 0

\* The two ways to lose a solution that was met.
LossExcused == billed >= MaxWork \/ policy.status = "joint_limit_hit"

StatusTracksPolicy ==
  /\ EndedAsPolicy
  /\ pc = "loop" => LoopGoesOn
  /\ pc = "account" => CallEnded
  /\ FailureFaithful
  /\ pc = "build" /\ m_status # "converged" /\ m_found_convergence => LossExcused
  /\ pc \in {"idle", "rounds"} /\ result.kind = "error" /\ m_found_convergence
       => LossExcused

\* A policy call ends in agreement, and an end status it sets is the policy's.
LEMMA StepSingleMetricsEnds ==
  ASSUME TypeOK, m_status = "running", NEW n \in Nat \ {0}, StepSingleMetrics(n)
  PROVE  CallEnded' /\ EndedAsPolicy' /\ result' = NoResult
<1>1. PICK p \in PolicySteps(policy), u \in UnitsBilled(policy, n) :
        \/ ConvergedForSpeed(p, u) \/ ConvergedForBest(p, u)
        \/ PolicyFailed(p, u) \/ PolicyOther(p, u)
  BY DEF StepSingleMetrics
<1>2. p \in Policy /\ p.q \in Configs
  BY <1>1, PolicyStepType DEF TypeOK, Policy
<1>3. result' = NoResult
  BY DEF StepSingleMetrics
<1>4. CASE ConvergedForSpeed(p, u)
  BY <1>3, <1>4 DEF ConvergedForSpeed, CallEnded, EndedAsPolicy, Failures
<1>5. CASE ConvergedForBest(p, u)
  <2>1. CASE m_total_iterations + u >= MaxWork
    BY <1>3, <1>5, <2>1 DEF ConvergedForBest, CallEnded, EndedAsPolicy, Failures
  <2>2. CASE ~(m_total_iterations + u >= MaxWork)
    <3>1. policy' \in PolicySetups(p.q) /\ inner'.status = "running" /\ m_status' = "running"
      BY <1>5, <2>2 DEF ConvergedForBest
    <3>2. policy'.status = "running"
      BY <1>2, <3>1, SetupType
    <3>. QED
      BY <1>3, <3>1, <3>2 DEF CallEnded, EndedAsPolicy, Failures
  <2>. QED
    BY <2>1, <2>2
<1>6. CASE PolicyFailed(p, u)
  BY <1>3, <1>6 DEF PolicyFailed, CallEnded, EndedAsPolicy, Failures
<1>7. CASE PolicyOther(p, u)
  BY <1>3, <1>7 DEF PolicyOther, CallEnded, EndedAsPolicy, Failures
<1>. QED
  BY <1>1, <1>4, <1>5, <1>6, <1>7

\* Before setup() nothing has ended.
LEMMA InitTracks == Init => StatusTracksPolicy
BY DEF Init, StatusTracksPolicy, EndedAsPolicy, FailureFaithful, Failures, NoResult

\* Every operation keeps the runner's status and answer in step with the policy.
LEMMA NextTracks ==
  TypeOK /\ Accounts /\ BestIsConverged /\ StatusTracksPolicy /\ [Next]_vars
    => StatusTracksPolicy'
<1> SUFFICES ASSUME TypeOK, Accounts, BestIsConverged, StatusTracksPolicy, [Next]_vars
             PROVE  StatusTracksPolicy'
  OBVIOUS
<1>1. ASSUME NEW q0 \in Configs, NEW objective \in Objectives, Setup(q0, objective)
      PROVE StatusTracksPolicy'
  BY <1>1 DEF Setup, StatusTracksPolicy, EndedAsPolicy, FailureFaithful, Failures, NoResult
<1>2. ASSUME UNCHANGED <<policy, m_status, m_found_convergence, result, billed>>,
             pc \in {"idle", "rounds"}, pc' \in {"idle", "rounds"}
      PROVE  StatusTracksPolicy'
  BY <1>2 DEF StatusTracksPolicy, EndedAsPolicy, LossExcused, FailureFaithful
<1>3. CASE StepReturnsEarly \/ StepNEnds
  BY <1>2, <1>3 DEF StepReturnsEarly, StepNEnds, members, history
<1>4. ASSUME NEW n \in 0..MaxRounds, StepN(n)
      PROVE StatusTracksPolicy'
  BY <1>2, <1>4 DEF StepN, members, history
<1>5. CASE SolveNotInitialized
  <2>1. ~m_found_convergence
    BY <1>5 DEF SolveNotInitialized, BestIsConverged
  <2>. QED
    BY <1>5, <2>1 DEF SolveNotInitialized, members, history, StatusTracksPolicy,
       EndedAsPolicy, FailureFaithful
<1>6. CASE SolveEnter
  BY <1>6 DEF SolveEnter, members, NoInner, StatusTracksPolicy, EndedAsPolicy, LoopGoesOn,
     FailureFaithful
<1>7. CASE Abort
  BY <1>7 DEF Abort, StatusTracksPolicy, EndedAsPolicy, FailureFaithful, Failures, NoResult
<1>8. CASE Step \/ StepNRound
  <2>1. m_status = "running" /\ StepSingleMetrics(1) /\ pc' \in {"idle", "rounds"}
    BY <1>8 DEF Step, StepNRound
  <2>. QED
    BY <2>1, StepSingleMetricsEnds DEF StatusTracksPolicy, FailureFaithful, NoResult
<1>9. CASE SolveCall
  <2>1. m_status = "running" /\ MaxWork - total_units \in Nat \ {0}
    BY <1>9, RunnerAssumption DEF SolveCall, TypeOK
  <2>2. StepSingleMetrics(MaxWork - total_units) /\ pc' = "account"
    BY <1>9 DEF SolveCall
  <2>. QED
    BY <2>1, <2>2, StepSingleMetricsEnds DEF StatusTracksPolicy, FailureFaithful
<1>10. CASE SolveAccount
  <2>1. CallEnded /\ EndedAsPolicy
    BY <1>10 DEF SolveAccount, StatusTracksPolicy
  <2>2. UNCHANGED <<policy, m_found_convergence, inner, billed>> /\ inner.units \in Nat
    BY <1>10 DEF SolveAccount, history, TypeOK, Outcomes
  <2>3. CASE inner.status # "running" /\ pc' = "build" /\ UNCHANGED m_status
    <3>1. EndedAsPolicy'
      BY <2>1, <2>2, <2>3 DEF EndedAsPolicy
    <3>2. FailureFaithful'
      BY <2>1, <2>2, <2>3 DEF CallEnded, FailureFaithful, FailureReason, Failures
    <3>3. m_status' # "converged" /\ m_found_convergence' => LossExcused'
      BY <2>1, <2>2, <2>3 DEF CallEnded, EndedAsPolicy, LossExcused
    <3>. QED
      BY <2>3, <3>1, <3>2, <3>3 DEF StatusTracksPolicy
  <2>4. CASE /\ inner.status = "running" /\ inner.units = 0 /\ pc' = "build"
             /\ m_status' = IF m_found_convergence THEN "converged" ELSE "iteration_limit"
    <3>1. policy.status = "running"
      BY <2>1, <2>4 DEF CallEnded, Failures
    <3>. QED
      BY <2>2, <2>4, <3>1 DEF StatusTracksPolicy, EndedAsPolicy, FailureFaithful,
         FailureReason, Failures
  <2>5. CASE inner.status = "running" /\ inner.units > 0 /\ pc' = "loop" /\ UNCHANGED m_status
    <3>1. policy.status = "running" /\ m_status = "running"
      BY <2>1, <2>5 DEF CallEnded, Failures
    <3>. QED
      BY <2>2, <2>5, <3>1 DEF StatusTracksPolicy, EndedAsPolicy, LoopGoesOn,
         FailureFaithful, Failures
  <2>. QED
    BY <1>10, <2>3, <2>4, <2>5 DEF SolveAccount
<1>11. CASE SolveLoopEnds
  <2>1. /\ LoopGoesOn /\ EndedAsPolicy /\ billed = total_units
        /\ total_units >= MaxWork \/ m_status # "running"
        /\ pc' = "build"
        /\ UNCHANGED <<policy, m_status, m_found_convergence, inner, billed>>
    BY <1>11 DEF SolveLoopEnds, members, history, StatusTracksPolicy, Accounts
  <2>2. /\ m_status \in {"running", "converged"} \cup Failures
        /\ billed \in Nat /\ MaxWork \in Nat
    BY RunnerAssumption DEF TypeOK, IkStatus, Failures
  <2>3. EndedAsPolicy'
    BY <2>1 DEF EndedAsPolicy
  <2>4. FailureFaithful'
    BY <2>1, <2>2 DEF LoopGoesOn, EndedAsPolicy, FailureFaithful, FailureReason, Failures
  <2>5. m_status' # "converged" /\ m_found_convergence' => LossExcused'
    BY <2>1, <2>2 DEF EndedAsPolicy, LossExcused
  <2>. QED
    BY <2>1, <2>3, <2>4, <2>5 DEF StatusTracksPolicy
<1>12. CASE SolveReturn
  <2>1. /\ result'.kind = "error" => m_status # "converged"
        /\ pc = "build" /\ pc' = "idle"
        /\ UNCHANGED <<policy, m_status, m_found_convergence, billed>>
    BY <1>12 DEF SolveReturn, BuildResult, members, history
  <2>. QED
    BY <2>1 DEF StatusTracksPolicy, EndedAsPolicy, LossExcused, FailureFaithful
<1>13. CASE UNCHANGED vars
  BY <1>13 DEF vars, members, locals, history, StatusTracksPolicy, EndedAsPolicy,
     LoopGoesOn, CallEnded, LossExcused, FailureFaithful, FailureReason
<1>. QED
  BY <1>1, <1>3, <1>4, <1>5, <1>6, <1>7, <1>8, <1>9, <1>10, <1>11, <1>12, <1>13
     DEF Next, Driving

\* The best configuration stays a converged one in every behaviour.
LEMMA BestCorrect == Spec => [](BestIsConverged /\ ResultIsBest)
BY InitBest, NextBest, TypeCorrect, PTL DEF Spec

\* The runner's status stays in step with the policy's in every behaviour.
LEMMA TracksCorrect == Spec => []StatusTracksPolicy
BY InitTracks, NextTracks, TypeCorrect, AccountsCorrect, BestCorrect, PTL DEF Spec

\* A solve that fails gives the reason its policy ended for, and blames the
\* iteration limit only when the budget ran out or the policy stood still.
THEOREM FailureIsFaithful == Spec => []FailureFaithful
<1>1. StatusTracksPolicy => FailureFaithful
  BY DEF StatusTracksPolicy
<1>. QED
  BY <1>1, TracksCorrect, PTL

\* A solution once met is lost to an exhausted budget or a joint limit only.
THEOREM ConvergenceIsKept == Spec => []ConvergenceKept
<1>1. TypeOK /\ BestIsConverged /\ StatusTracksPolicy => ConvergenceKept
  BY DEF BestIsConverged, StatusTracksPolicy, LossExcused, ConvergenceKept
<1>. QED
  BY <1>1, TypeCorrect, BestCorrect, TracksCorrect, PTL

------------------------------------------------------------------------------
(* Asking again *)

\* The answer of a finished solve() is what build_result() would say now.
AnswerIsCurrent ==
  /\ result # NoResult /\ m_status # "running" => result = BuildResult
  /\ pc = "account" => result = NoResult

\* Every operation keeps the answer current, or withdraws it.
LEMMA NextCurrent ==
  TypeOK /\ BestIsConverged /\ AnswerIsCurrent /\ [Next]_vars => AnswerIsCurrent'
<1> SUFFICES ASSUME TypeOK, BestIsConverged, AnswerIsCurrent, [Next]_vars
             PROVE  AnswerIsCurrent'
  OBVIOUS
<1>1. ASSUME result' = NoResult PROVE AnswerIsCurrent'
  BY <1>1 DEF AnswerIsCurrent
<1>2. ASSUME NEW q0 \in Configs, NEW objective \in Objectives, Setup(q0, objective)
      PROVE AnswerIsCurrent'
  BY <1>1, <1>2 DEF Setup
<1>3. CASE Abort \/ Step \/ StepNRound \/ SolveCall
  BY <1>1, <1>3 DEF Abort, Step, StepNRound, SolveCall, StepSingleMetrics
<1>4. ASSUME UNCHANGED <<policy, members, result>>, pc' # "account" \/ pc = "account"
      PROVE  AnswerIsCurrent'
  BY <1>4 DEF members, AnswerIsCurrent, BuildResult, FailureReason
<1>5. CASE StepReturnsEarly \/ StepNEnds \/ SolveEnter \/ SolveLoopEnds
  BY <1>4, <1>5 DEF StepReturnsEarly, StepNEnds, SolveEnter, SolveLoopEnds
<1>6. ASSUME NEW n \in 0..MaxRounds, StepN(n)
      PROVE AnswerIsCurrent'
  BY <1>4, <1>6 DEF StepN
<1>7. CASE SolveNotInitialized
  BY <1>7 DEF SolveNotInitialized, members, BestIsConverged, AnswerIsCurrent
<1>8. CASE SolveAccount
  BY <1>1, <1>8 DEF SolveAccount, AnswerIsCurrent
<1>9. CASE SolveReturn
  BY <1>9 DEF SolveReturn, members, AnswerIsCurrent, BuildResult, FailureReason
<1>10. CASE UNCHANGED vars
  BY <1>4, <1>10 DEF vars, locals
<1>. QED
  BY <1>2, <1>3, <1>5, <1>6, <1>7, <1>8, <1>9, <1>10 DEF Next, Driving

\* A finished runner that is asked again neither drives its policy nor changes
\* its answer.
THEOREM RepeatedSolveIsStable == Spec => RepeatedSolveStable
<1>1. Init => AnswerIsCurrent
  BY DEF Init, AnswerIsCurrent
<1>2. TypeOK /\ BestIsConverged /\ AnswerIsCurrent /\ [Next]_vars
        => [m_status # "running" /\ m_status' = m_status /\ result # NoResult
              => result' = result /\ policy' = policy]_vars
  <2> SUFFICES ASSUME TypeOK, BestIsConverged, AnswerIsCurrent, Next,
                      m_status # "running", m_status' = m_status, result # NoResult
               PROVE  result' = result /\ policy' = policy
    OBVIOUS
  <2>1. result = BuildResult /\ m_chain /\ pc # "account"
    BY DEF AnswerIsCurrent, BestIsConverged
  <2>. QED
    BY <2>1 DEF Next, Driving, Setup, StepReturnsEarly, Step, StepN, SolveNotInitialized,
       SolveEnter, Abort, StepNRound, StepNEnds, SolveCall, SolveAccount, SolveLoopEnds,
       SolveReturn
<1>. QED
  BY <1>1, <1>2, NextCurrent, TypeCorrect, BestCorrect, PTL DEF Spec, RepeatedSolveStable
=============================================================================
