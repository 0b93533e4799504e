--------------------------- MODULE RaceRunnerProofs ---------------------------
(***************************************************************************)
(* What holds of cooperative racing for any number of policies, any round  *)
(* limit and every policy that keeps the SolvePolicy contract, and that    *)
(* it implements Race.                                                     *)
(***************************************************************************)
EXTENDS RaceRunner, FiniteSetTheorems, TLAPS

\* A fresh attempt is a running policy, wherever the policy puts its seed.
LEMMA SetupType ==
  ASSUME NEW q0 \in Configs, NEW r \in PolicySetups(q0)
  PROVE  r \in Policy /\ r.status = "running" /\ HonestConvergence(r)
<1>1. Clamp[q0] \in Configs
  BY SpaceAssumption
<1>. QED
  BY <1>1 DEF PolicySetups, Policy, IkStatus, HonestConvergence

\* The squares ErrorNorm adds up are natural.
LEMMA SquareType == \A a \in Nat : a * a \in Nat
OBVIOUS

\* The error norm of a configuration is a natural.
LEMMA ErrorNormType == \A q \in Configs : ErrorNorm(q) \in Nat
<1>1. ASSUME NEW q \in Configs PROVE ErrorNorm(q) \in Nat
  <2>1. Ang[q] \in Nat /\ Lin[q] \in Nat
    BY SpaceAssumption
  <2>2. Ang[q] * Ang[q] \in Nat /\ Lin[q] * Lin[q] \in Nat
    BY <2>1, SquareType
  <2>. QED
    BY <2>2 DEF ErrorNorm
<1>. QED
  BY <1>1

\* A nonempty set of naturals has a least element: its initial segments are
\* finite sets, and strict inclusion of those is well founded.
LEMMA LeastNatural ==
  ASSUME NEW T, T \subseteq Nat, T # {}
  PROVE  \E x \in T : \A y \in T : x <= y
<1> DEFINE U == {0..x : x \in T}
<1> DEFINE Below == StrictSubsetOrdering(Nat)
<1>1. IsWellFoundedOn(Below, FiniteSubsetsOf(Nat))
  BY FS_StrictSubsetOrderingWellFounded
<1>2. U \subseteq FiniteSubsetsOf(Nat) /\ U # {}
  <2>1. \A x \in T : x \in Nat /\ IsFiniteSet(0..x) /\ 0..x \in SUBSET Nat
    BY FS_Interval
  <2>. QED
    BY <2>1 DEF FiniteSubsetsOf
<1>3. PICK m \in U : \A w \in U : <<w, m>> \notin Below
  <2> HIDE DEF U, Below
  <2>. QED
    BY <1>1, <1>2, WFMin
<1>4. PICK x \in T : m = 0..x
  BY <1>3
<1>5. ASSUME NEW y \in T, y < x PROVE FALSE
  <2>1. 0..y \in SUBSET Nat /\ 0..x \in SUBSET Nat /\ 0..y \subseteq 0..x
    BY <1>5
  <2>2. x \in 0..x /\ x \notin 0..y
    BY <1>5
  <2>3. <<0..y, 0..x>> \in Below
    BY <2>1, <2>2 DEF StrictSubsetOrdering
  <2>. QED
    BY <1>3, <1>4, <2>3
<1>. QED
  BY <1>5

\* Policies are numbered from 0.
LEMMA PolicyNumbers == N \in Nat /\ 0 \in 0..N /\ \A i \in Policies : i \in Nat /\ i < N
BY RaceAssumption DEF Policies

------------------------------------------------------------------------------
(* Choosing among parked results *)

\* A parked result's error norm is a natural.
LEMMA ParkedErrorType ==
  ASSUME NEW i \in Policies, m_results[i] \in Results
  PROVE  ParkedError(i) \in Nat
BY ErrorNormType, SpaceAssumption DEF ParkedError, ErrorAt, Results

\* Of a nonempty set of parked results, LowestError is one, and none is better.
LEMMA LowestErrorIsLowest ==
  ASSUME NEW S, S \subseteq Policies, S # {}, \A i \in S : m_results[i] \in Results
  PROVE  /\ LowestError(S) \in S
         /\ \A j \in S : ParkedError(LowestError(S)) <= ParkedError(j)
<1> DEFINE E == {ParkedError(i) : i \in S}
<1> DEFINE B == {i \in S : \A j \in S : ParkedError(i) <= ParkedError(j)}
<1>1. \A i \in S : ParkedError(i) \in Nat /\ i \in Nat
  BY ParkedErrorType, RaceAssumption DEF Policies
<1>2. PICK e \in E : \A x \in E : e <= x
  BY <1>1, LeastNatural
<1>3. B \subseteq Nat /\ B # {}
  BY <1>1, <1>2
<1>4. \E x \in B : \A y \in B : x <= y
  BY <1>3, LeastNatural
<1>5. Min(B) \in B
  <2> HIDE DEF B
  <2>. QED
    BY <1>4 DEF Min
<1>. QED
  BY <1>5 DEF LowestError

------------------------------------------------------------------------------
(* Types *)

\* A policy of the race stays one the contract allows, whatever it is asked.
LEMMA HonestSteps ==
  ASSUME NEW p \in HonestPolicies
  PROVE  PolicySteps(p) \subseteq HonestPolicies /\ AbortOutcomes(p) \subseteq HonestPolicies
BY DEF PolicySteps, AbortOutcomes, HonestPolicies, HonestConvergence

\* Setting up any policy at any seed gives a running policy.
LEMMA HonestSetups ==
  ASSUME NEW q0 \in Configs
  PROVE  PolicySetups(q0) \subseteq HonestPolicies
BY SetupType DEF HonestPolicies

\* What tick_policy() parks is a result.
LEMMA ParkedResultType ==
  ASSUME NEW p \in Policy
  PROVE  ParkedResult(p) \in Results
BY DEF ParkedResult, Policy, Results

\* A result is parked, and no result is not.
LEMMA FinishedHaveResults ==
  ASSUME m_results \in [Policies -> Results \cup {Nothing}]
  PROVE  /\ Finished \subseteq Policies /\ Converged \subseteq Finished
         /\ \A i \in Finished : m_results[i] \in Results
<1>1. ~Nothing.parked
  BY DEF Nothing
<1>2. \A i \in Policies : m_results[i] \in Results \/ m_results[i] = Nothing
  OBVIOUS
<1>. QED
  BY <1>1, <1>2 DEF Finished, Converged

\* The type invariant but for the answer, which depends on who has finished.
MemberTypes ==
  /\ policies \in [Policies -> HonestPolicies]
  /\ m_objective \in IkObjective
  /\ m_status \in {"running", "converged", "iteration_limit"}
  /\ m_best_q \in Configs
  /\ m_total_iterations \in Nat
  /\ m_found_convergence \in BOOLEAN
  /\ m_parked \in [Policies -> BOOLEAN]
  /\ m_results \in [Policies -> Results \cup {Nothing}]
  /\ m_best_solver_index \in Policies \cup {-1}
  /\ m_early_stop \in BOOLEAN
  /\ pc \in {"unbound", "idle", "round", "tick", "build"}
  /\ solving \in BOOLEAN
  /\ next \in 0..N
  /\ any_running \in BOOLEAN
  /\ first \in Policies \cup {-1}
  /\ ticks \in [Policies -> Nat]

AnswerType ==
  \/ result = NoResult
  \/ result.kind = "error" /\ result.q \in Configs \cup {NoConfig}
  \/ result.kind = "ok" /\ result.q \in Configs /\ result.index \in Policies

\* A runner before setup() is well typed.
LEMMA InitMembers == Init => MemberTypes
<1> SUFFICES ASSUME Init PROVE MemberTypes
  OBVIOUS
<1>1. 0 \in Policies
  BY RaceAssumption DEF Policies
<1>2. policies \in [Policies -> HonestPolicies] /\ policies[0].q \in Configs
  BY <1>1 DEF Init, HonestPolicies, HonestConvergence, Policy, IkStatus
<1>. QED
  BY <1>2, PolicyNumbers DEF Init, MemberTypes, IkObjective

\* A tick is by one policy, on what one step of it came back with.
LEMMA TickPicks ==
  ASSUME MemberTypes, Tick
  PROVE  /\ next \in Policies /\ next + 1 \in 0..N /\ Ticked(next)
         /\ \E p \in HonestPolicies :
              /\ policies' = [policies EXCEPT ![next] = p]
              /\ TickConverged(p) \/ TickFailed(p) \/ TickRunning(p)
<1>1. next \in Policies /\ next + 1 \in 0..N /\ Ticked(next)
  BY RaceAssumption DEF Tick, MemberTypes, Policies
<1>2. PICK p \in PolicySteps(policies[next]) :
        /\ policies' = [policies EXCEPT ![next] = p]
        /\ TickConverged(p) \/ TickFailed(p) \/ TickRunning(p)
  BY DEF Tick
<1>3. p \in HonestPolicies
  BY <1>1, HonestSteps DEF MemberTypes
<1>. QED
  BY <1>1, <1>2, <1>3

\* Every operation keeps the members well typed.
LEMMA NextMembers == MemberTypes /\ [Next]_vars => MemberTypes'
<1> SUFFICES ASSUME MemberTypes, [Next]_vars PROVE MemberTypes'
  OBVIOUS
<1>1. ASSUME NEW q0 \in Configs, NEW objective \in Objectives, Setup(q0, objective)
      PROVE  MemberTypes'
  <2>1. \A i \in Policies : policies'[i] \in HonestPolicies
    <3>1. \A i \in Policies : StartOf(i, q0) \in Configs
      BY RaceAssumption DEF StartOf
    <3>. QED
      BY <1>1, <3>1, HonestSetups DEF Setup
  <2>2. policies' \in [Policies -> HonestPolicies]
    BY <1>1, <2>1 DEF Setup
  <2>. QED
    BY <1>1, <2>2, RaceAssumption DEF Setup, MemberTypes
<1>2. CASE StepBegin \/ RoundBegin
  BY <1>2, PolicyNumbers DEF StepBegin, RoundBegin, race, history, MemberTypes
<1>3. CASE SolveNotInitialized \/ SolveBegin
  BY <1>3 DEF SolveNotInitialized, SolveBegin, race, history, MemberTypes
<1>4. CASE Abort
  <2>1. \A i \in Policies : policies'[i] \in HonestPolicies
    BY <1>4, HonestSteps DEF Abort, MemberTypes
  <2>2. policies' \in [Policies -> HonestPolicies]
    BY <1>4, <2>1 DEF Abort
  <2>. QED
    BY <1>4, <2>2 DEF Abort, race, history, MemberTypes
<1>5. CASE Tick
  <2>1. next \in Policies /\ next + 1 \in 0..N
    BY <1>5, TickPicks
  <2>2. PICK p \in HonestPolicies :
          /\ policies' = [policies EXCEPT ![next] = p]
          /\ TickConverged(p) \/ TickFailed(p) \/ TickRunning(p)
    BY <1>5, TickPicks
  <2>3. ParkedResult(p) \in Results /\ p.q \in Configs
    BY ParkedResultType DEF HonestPolicies, Policy
  <2>4. /\ m_results' \in [Policies -> Results \cup {Nothing}]
        /\ m_parked' \in [Policies -> BOOLEAN]
    BY <2>2, <2>3 DEF TickConverged, TickFailed, TickRunning, race, MemberTypes
  <2>5. /\ m_best_q' \in Configs /\ m_found_convergence' \in BOOLEAN
        /\ m_best_solver_index' \in Policies \cup {-1} /\ m_early_stop' \in BOOLEAN
        /\ any_running' \in BOOLEAN /\ first' \in Policies \cup {-1}
    BY <2>1, <2>2, <2>3 DEF TickConverged, TickFailed, TickRunning, race, MemberTypes
  <2>6. policies' \in [Policies -> HonestPolicies] /\ ticks' \in [Policies -> Nat]
    BY <1>5, <2>1, <2>2 DEF Tick, MemberTypes
  <2>. QED
    BY <1>5, <2>1, <2>4, <2>5, <2>6 DEF Tick, MemberTypes
<1>6. CASE TickSkipped
  BY <1>6, RaceAssumption DEF TickSkipped, race, history, MemberTypes
<1>7. CASE RoundEnd
  BY <1>7, RaceAssumption DEF RoundEnd, race, history, MemberTypes
<1>8. CASE SolveReturn
  BY <1>8, PolicyNumbers DEF SolveReturn, race, history, MemberTypes
<1>9. CASE UNCHANGED vars
  BY <1>9 DEF vars, race, history, MemberTypes
<1>. QED
  BY <1>1, <1>2, <1>3, <1>4, <1>5, <1>6, <1>7, <1>8, <1>9 DEF Next, Driving

\* The members keep their types in every behaviour.
LEMMA MembersCorrect == Spec => []MemberTypes
BY InitMembers, NextMembers, PTL DEF Spec

------------------------------------------------------------------------------
(* Even shares *)

\* A policy in the race has had its unit of every round, and of this round as
\* soon as its turn has come; no policy ever has more.
Share ==
  \A i \in Policies :
    LET granted == m_total_iterations + IF pc = "tick" /\ i < next THEN 1 ELSE 0
    IN  ticks[i] <= granted /\ (~m_parked[i] => ticks[i] = granted)

\* An early stop has parked everyone.
StopParks == m_early_stop => \A i \in Policies : m_parked[i]

\* Every operation keeps the shares even.
LEMMA NextShare ==
  MemberTypes /\ Share /\ StopParks /\ [Next]_vars => Share' /\ StopParks'
<1> SUFFICES ASSUME MemberTypes, Share, StopParks, [Next]_vars
             PROVE  Share' /\ StopParks'
  OBVIOUS
<1>1. ASSUME NEW q0 \in Configs, NEW objective \in Objectives, Setup(q0, objective)
      PROVE  Share' /\ StopParks'
  BY <1>1 DEF Setup, Share, StopParks
<1>2. CASE StepBegin \/ RoundBegin
  <2>1. /\ pc # "tick" /\ (pc' = "tick" => next' = 0)
        /\ UNCHANGED <<m_total_iterations, m_parked, m_early_stop, ticks>>
    BY <1>2 DEF StepBegin, RoundBegin, race, history
  <2>. QED
    BY <2>1, PolicyNumbers DEF Share, StopParks
<1>3. CASE SolveNotInitialized \/ SolveBegin \/ SolveReturn
  <2>1. pc # "tick" /\ pc' # "tick"
        /\ UNCHANGED <<m_total_iterations, m_parked, m_early_stop, ticks>>
    BY <1>3 DEF SolveNotInitialized, SolveBegin, SolveReturn, race, history
  <2>. QED
    BY <2>1 DEF Share, StopParks
<1>4. CASE Abort
  <2>1. pc # "tick" /\ pc' # "tick"
        /\ UNCHANGED <<m_total_iterations, m_parked, m_early_stop, ticks>>
    BY <1>4 DEF Abort, race, history
  <2>. QED
    BY <2>1 DEF Share, StopParks
<1>5. CASE Tick
  <2>1. next \in Policies /\ Ticked(next)
    BY <1>5, TickPicks
  <2>2. PICK p \in HonestPolicies : TickConverged(p) \/ TickFailed(p) \/ TickRunning(p)
    BY <1>5, TickPicks
  <2>3. /\ \A i \in Policies : m_parked[i] => m_parked'[i]
        /\ StopParks'
    BY <2>1, <2>2 DEF TickConverged, TickFailed, TickRunning, race, MemberTypes, StopParks, Ticked
  <2>4. /\ ticks' = [ticks EXCEPT ![next] = @ + 1] /\ next' = next + 1
        /\ pc = "tick" /\ pc' = "tick" /\ m_total_iterations' = m_total_iterations
    BY <1>5 DEF Tick
  <2>5. ASSUME NEW i \in Policies
        PROVE  LET granted == m_total_iterations' + IF pc' = "tick" /\ i < next' THEN 1 ELSE 0
               IN  ticks'[i] <= granted /\ (~m_parked'[i] => ticks'[i] = granted)
    <3>1. i \in Nat /\ next \in Nat /\ m_total_iterations \in Nat /\ ticks[i] \in Nat
      BY <2>1, RaceAssumption DEF Policies, MemberTypes
    <3>2. CASE i = next
      BY <2>1, <2>4, <3>1, <3>2 DEF Share, Ticked, MemberTypes
    <3>3. CASE i # next
      <4>1. ticks'[i] = ticks[i] /\ (i < next' <=> i < next)
        BY <2>1, <2>4, <3>1, <3>3 DEF MemberTypes
      <4>. QED
        BY <2>3, <2>4, <4>1 DEF Share
    <3>. QED
      BY <3>2, <3>3
  <2>. QED
    BY <2>3, <2>5 DEF Share
<1>6. CASE TickSkipped
  <2>1. /\ m_parked[next] /\ next' = next + 1 /\ pc = "tick" /\ next < N /\ next \in Nat
        /\ UNCHANGED <<m_total_iterations, m_parked, m_early_stop, ticks, pc>>
    BY <1>6, RaceAssumption
       DEF TickSkipped, race, history, Ticked, StopParks, MemberTypes, Policies
  <2>2. ASSUME NEW i \in Policies
        PROVE  LET granted == m_total_iterations' + IF pc' = "tick" /\ i < next' THEN 1 ELSE 0
               IN  ticks'[i] <= granted /\ (~m_parked'[i] => ticks'[i] = granted)
    <3>1. i \in Nat /\ m_total_iterations \in Nat /\ ticks[i] \in Nat
      BY RaceAssumption DEF Policies, MemberTypes
    <3>. QED
      BY <2>1, <3>1 DEF Share
  <2>. QED
    BY <2>1, <2>2 DEF Share, StopParks
<1>7. CASE RoundEnd
  <2>1. /\ pc = "tick" /\ next = N /\ pc' # "tick"
        /\ m_total_iterations' = m_total_iterations + 1
        /\ UNCHANGED <<m_parked, m_early_stop, ticks>>
    BY <1>7 DEF RoundEnd, race, history
  <2>. QED
    BY <2>1, PolicyNumbers DEF Share, StopParks, MemberTypes
<1>8. CASE UNCHANGED vars
  BY <1>8 DEF vars, race, history, Share, StopParks
<1>. QED
  BY <1>1, <1>2, <1>3, <1>4, <1>5, <1>6, <1>7, <1>8 DEF Next, Driving

\* No policy of a race is ever ahead of the rounds, and none that is still in
\* the race falls behind them, for any number of policies.
THEOREM SharesAreEven == Spec => []EqualShare
<1>1. Init => Share /\ StopParks
  BY DEF Init, Share, StopParks
<1>2. MemberTypes /\ (Share /\ StopParks) /\ [Next]_vars => (Share /\ StopParks)'
  BY NextShare
<1>3. MemberTypes /\ Share => EqualShare
  BY DEF MemberTypes, Share, EqualShare
<1>. QED
  BY <1>1, <1>2, <1>3, MembersCorrect, PTL DEF Spec
------------------------------------------------------------------------------
(* Parking, and the winner *)

\* Whoever has a result is parked; only an early stop, which is a convergence
\* under the speed objective, parks a policy that has none.
Parking ==
  /\ \A i \in Finished : m_parked[i]
  /\ ~m_early_stop => \A i \in Policies : m_parked[i] => i \in Finished
  /\ m_early_stop <=> m_objective = "speed" /\ m_found_convergence
  /\ \A i \in Converged : m_results[i].errAt = m_results[i].q

\* The first to converge is remembered, and in a speed race it is the only one.
Winner ==
  /\ m_found_convergence <=> Converged # {}
  /\ IF first = -1 THEN Converged = {} ELSE first \in Converged
  /\ m_objective = "speed" => m_best_solver_index = first /\ Converged \subseteq {first}

\* How the status stands to the race, and what a round in progress has done.
RaceStatus ==
  /\ m_status = "converged" => m_found_convergence
  /\ m_status = "iteration_limit" => ~m_found_convergence
  /\ pc = "unbound" => ~m_found_convergence
  /\ pc = "build" => m_status # "running"
  /\ pc = "tick" => m_status = "running" /\ result = NoResult
  /\ pc = "tick" /\ ~any_running /\ ~m_early_stop
       => \A i \in Policies : i < next => i \in Finished
  /\ m_status = "converged" /\ m_objective # "speed" /\ m_total_iterations < MaxTotal
       => Finished = Policies

RaceInv == Parking /\ Winner /\ RaceStatus

\* A ticked policy had no result.  It gets one unless it goes on running, and
\* nobody else's changes.
LEMMA TickParks ==
  ASSUME MemberTypes, Parking, Tick
  PROVE  /\ next \in Policies \ Finished /\ ~m_early_stop
         /\ \E p \in HonestPolicies :
              \/ /\ TickConverged(p) /\ p.errAt = p.q
                 /\ Finished' = Finished \cup {next} /\ Converged' = Converged \cup {next}
                 /\ m_results' = [m_results EXCEPT ![next] = ParkedResult(p)]
              \/ /\ TickFailed(p)
                 /\ Finished' = Finished \cup {next} /\ Converged' = Converged
                 /\ m_results' = [m_results EXCEPT ![next] = ParkedResult(p)]
              \/ /\ TickRunning(p)
                 /\ Finished' = Finished /\ Converged' = Converged
                 /\ m_results' = m_results
<1>1. next \in Policies /\ Ticked(next)
  BY TickPicks
<1>2. next \notin Finished /\ ~m_early_stop
  BY <1>1 DEF Ticked, Parking
<1>3. PICK p \in HonestPolicies : TickConverged(p) \/ TickFailed(p) \/ TickRunning(p)
  BY TickPicks
<1>4. ASSUME m_results' = [m_results EXCEPT ![next] = ParkedResult(p)]
      PROVE  /\ Finished' = Finished \cup {next}
             /\ p.status = "converged" => Converged' = Converged \cup {next}
             /\ p.status # "converged" => Converged' = Converged
  <2>1. \A i \in Policies : m_results'[i] = IF i = next THEN ParkedResult(p) ELSE m_results[i]
    BY <1>4 DEF MemberTypes
  <2>2. ParkedResult(p).parked /\ (ParkedResult(p).converged <=> p.status = "converged")
    BY DEF ParkedResult
  <2>3. Finished' = Finished \cup {next}
    BY <1>1, <2>1, <2>2 DEF Finished
  <2>. QED
    BY <1>2, <2>1, <2>2, <2>3 DEF Finished, Converged
<1>5. CASE TickConverged(p)
  BY <1>1, <1>2, <1>4, <1>5 DEF TickConverged, HonestPolicies, HonestConvergence
<1>6. CASE TickFailed(p)
  BY <1>1, <1>2, <1>4, <1>6 DEF TickFailed
<1>7. CASE TickRunning(p)
  <2>1. m_results' = m_results
    BY <1>7 DEF TickRunning, race
  <2>. QED
    BY <1>1, <1>2, <1>7, <2>1 DEF Finished, Converged
<1>. QED
  BY <1>3, <1>5, <1>6, <1>7

\* A tick keeps parking, winner and status together.
LEMMA TickRace == MemberTypes /\ RaceInv /\ Tick => RaceInv'
<1> SUFFICES ASSUME MemberTypes, RaceInv, Tick PROVE RaceInv'
  OBVIOUS
<1>1. /\ next \in Policies /\ next \notin Finished /\ ~m_early_stop
      /\ next' = next + 1 /\ pc = "tick"
      /\ UNCHANGED <<m_objective, m_status, m_total_iterations, pc, result>>
  BY TickParks DEF RaceInv, Tick
<1>2. next \in Nat /\ (\A i \in Policies : i \in Nat /\ (i < next' <=> i < next \/ i = next))
  BY <1>1, PolicyNumbers
<1>3. Parking /\ Winner /\ RaceStatus
  BY DEF RaceInv
<1>4. Finished \subseteq Policies /\ Converged \subseteq Finished
  BY DEF Converged, Finished
<1>5. PICK p \in HonestPolicies :
        \/ /\ TickConverged(p) /\ p.errAt = p.q
           /\ Finished' = Finished \cup {next} /\ Converged' = Converged \cup {next}
           /\ m_results' = [m_results EXCEPT ![next] = ParkedResult(p)]
        \/ /\ TickFailed(p)
           /\ Finished' = Finished \cup {next} /\ Converged' = Converged
           /\ m_results' = [m_results EXCEPT ![next] = ParkedResult(p)]
        \/ /\ TickRunning(p)
           /\ Finished' = Finished /\ Converged' = Converged
           /\ m_results' = m_results
  BY <1>3, TickParks
<1>6. CASE /\ TickConverged(p) /\ p.errAt = p.q
           /\ Finished' = Finished \cup {next} /\ Converged' = Converged \cup {next}
           /\ m_results' = [m_results EXCEPT ![next] = ParkedResult(p)]
  <2>1. \A i \in Converged' : m_results'[i].errAt = m_results'[i].q
    BY <1>1, <1>3, <1>4, <1>6 DEF ParkedResult, Parking, MemberTypes
  <2>2. Parking'
    BY <1>1, <1>3, <1>4, <1>6, <2>1 DEF TickConverged, Parking, MemberTypes
  <2>3. Winner'
    BY <1>1, <1>3, <1>6 DEF TickConverged, Winner, Parking, MemberTypes
  <2>4. RaceStatus'
    BY <1>1, <1>2, <1>3, <1>6 DEF TickConverged, RaceStatus
  <2>. QED
    BY <2>2, <2>3, <2>4 DEF RaceInv
<1>7. CASE /\ TickFailed(p)
           /\ Finished' = Finished \cup {next} /\ Converged' = Converged
           /\ m_results' = [m_results EXCEPT ![next] = ParkedResult(p)]
  <2>1. \A i \in Converged' : m_results'[i].errAt = m_results'[i].q
    BY <1>1, <1>3, <1>4, <1>7 DEF Parking, MemberTypes
  <2>2. Parking'
    BY <1>1, <1>3, <1>7, <2>1 DEF TickFailed, Parking, MemberTypes
  <2>3. Winner'
    BY <1>1, <1>3, <1>7 DEF TickFailed, Winner
  <2>4. RaceStatus'
    BY <1>1, <1>2, <1>3, <1>7 DEF TickFailed, RaceStatus
  <2>. QED
    BY <2>2, <2>3, <2>4 DEF RaceInv
<1>8. CASE /\ TickRunning(p)
           /\ Finished' = Finished /\ Converged' = Converged
           /\ m_results' = m_results
  BY <1>1, <1>3, <1>8 DEF TickRunning, race, RaceInv, Parking, Winner, RaceStatus
<1>. QED
  BY <1>5, <1>6, <1>7, <1>8

\* Every operation keeps parking, winner and status together.
LEMMA NextRace == MemberTypes /\ RaceInv /\ [Next]_vars => RaceInv'
<1> SUFFICES ASSUME MemberTypes, RaceInv, [Next]_vars PROVE RaceInv'
  OBVIOUS
<1>1. ASSUME UNCHANGED <<m_objective, race, first>>
      PROVE  Parking' /\ Winner' /\ Finished' = Finished
  BY <1>1 DEF race, RaceInv, Parking, Winner, Finished, Converged
<1>2. ASSUME NEW q0 \in Configs, NEW objective \in Objectives, Setup(q0, objective)
      PROVE  RaceInv'
  <2>1. \A i \in Policies : m_results'[i] = Nothing
    BY <1>2 DEF Setup
  <2>2. Finished' = {} /\ Converged' = {}
    BY <2>1, PolicyNumbers DEF Nothing, Finished, Converged
  <2>. QED
    BY <1>2, <2>2 DEF Setup, RaceInv, Parking, Winner, RaceStatus, NoResult
<1>3. CASE StepBegin \/ RoundBegin
  <2>1. /\ UNCHANGED <<m_objective, race, first>>
        /\ UNCHANGED <<m_status, m_total_iterations, m_found_convergence, m_early_stop>>
        /\ pc' = "tick" => m_status = "running" /\ next' = 0 /\ result' = NoResult
        /\ pc' = "build" => m_status # "running"
        /\ pc' # "unbound"
    BY <1>3 DEF StepBegin, RoundBegin, race, history
  <2>2. RaceStatus'
    BY <1>1, <2>1, PolicyNumbers DEF RaceInv, RaceStatus
  <2>. QED
    BY <1>1, <2>1, <2>2 DEF RaceInv
<1>4. CASE SolveNotInitialized \/ SolveBegin \/ SolveReturn
  <2>1. /\ UNCHANGED <<m_objective, race, first>>
        /\ UNCHANGED <<m_status, m_total_iterations, m_found_convergence, m_early_stop>>
        /\ pc' \notin {"tick", "build"} /\ (pc' = "unbound" => pc = "unbound")
    BY <1>4 DEF SolveNotInitialized, SolveBegin, SolveReturn, race, history
  <2>2. RaceStatus'
    BY <1>1, <2>1 DEF RaceInv, RaceStatus
  <2>. QED
    BY <1>1, <2>1, <2>2 DEF RaceInv
<1>5. CASE Abort
  <2>1. /\ UNCHANGED <<m_objective, race, first>>
        /\ UNCHANGED <<m_found_convergence, m_early_stop, pc>>
        /\ m_status' = "running" /\ pc \in {"unbound", "idle"}
    BY <1>5 DEF Abort, race, history
  <2>2. RaceStatus'
    BY <2>1 DEF RaceInv, RaceStatus
  <2>. QED
    BY <1>1, <2>1, <2>2 DEF RaceInv
<1>6. CASE Tick
  BY <1>6, TickRace
<1>7. CASE TickSkipped
  <2>1. /\ UNCHANGED <<m_objective, race, first>>
        /\ UNCHANGED <<m_status, m_total_iterations, m_found_convergence, m_early_stop,
                       pc, any_running, result, m_parked>>
        /\ next' = next + 1 /\ ~Ticked(next) /\ next \in Policies
    BY <1>7, RaceAssumption DEF TickSkipped, race, history, MemberTypes, Policies
  <2>2. ~m_early_stop => next \in Finished
    BY <2>1 DEF Ticked, RaceInv, Parking
  <2>3. \A i \in Policies : i < next' => i < next \/ i = next
    BY <2>1, PolicyNumbers
  <2>4. RaceStatus'
    BY <1>1, <2>1, <2>2, <2>3 DEF RaceInv, RaceStatus
  <2>. QED
    BY <1>1, <2>1, <2>4 DEF RaceInv
<1>8. CASE RoundEnd
  <2>1. /\ UNCHANGED <<m_objective, race, first>>
        /\ UNCHANGED <<m_found_convergence, m_early_stop, any_running>>
        /\ pc = "tick" /\ next = N /\ pc' \in {"idle", "round", "build"}
        /\ pc' = "build" => m_status' # "running"
        /\ m_total_iterations' = m_total_iterations + 1
    BY <1>8 DEF RoundEnd, race, history
  <2>2. m_status' = IF m_total_iterations' >= MaxTotal \/ ~any_running
                    THEN IF m_found_convergence THEN "converged" ELSE "iteration_limit"
                    ELSE m_status
    BY <1>8 DEF RoundEnd
  <2>3. ~any_running /\ ~m_early_stop => Finished = Policies
    BY <2>1, PolicyNumbers DEF RaceInv, RaceStatus, Finished
  <2>4. m_status' = "converged" /\ m_objective' # "speed" /\ m_total_iterations' < MaxTotal
          => Finished' = Policies
    <3>1. m_total_iterations' \in Nat /\ MaxTotal \in Nat
      BY <2>1, RaceAssumption DEF MemberTypes
    <3>2. m_status = "converged" /\ m_objective # "speed" /\ m_total_iterations < MaxTotal
            => Finished = Policies
      BY DEF RaceInv, RaceStatus
    <3>3. m_objective # "speed" => ~m_early_stop
      BY DEF RaceInv, Parking
    <3>. QED
      BY <1>1, <2>1, <2>2, <2>3, <3>1, <3>2, <3>3 DEF MemberTypes
  <2>5. RaceStatus'
    BY <2>1, <2>2, <2>4 DEF RaceInv, RaceStatus
  <2>. QED
    BY <1>1, <2>1, <2>5 DEF RaceInv
<1>9. CASE UNCHANGED vars
  <2>1. UNCHANGED <<m_objective, race, first>>
    BY <1>9 DEF vars, history
  <2>2. RaceStatus'
    BY <1>1, <1>9, <2>1 DEF vars, race, RaceInv, RaceStatus
  <2>. QED
    BY <1>1, <2>1, <2>2 DEF RaceInv
<1>. QED
  BY <1>2, <1>3, <1>4, <1>5, <1>6, <1>7, <1>8, <1>9 DEF Next, Driving

\* Before the first race there is no result, and nobody has won.
LEMMA InitRace == Init => RaceInv
<1> SUFFICES ASSUME Init PROVE RaceInv
  OBVIOUS
<1>1. Finished = {} /\ Converged = {}
  BY DEF Init, Nothing, Finished, Converged
<1>. QED
  BY <1>1 DEF Init, RaceInv, Parking, Winner, RaceStatus

\* Parking, winner and status stay together in every behaviour.
LEMMA RaceCorrect == Spec => []RaceInv
BY InitRace, NextRace, MembersCorrect, PTL DEF Spec

------------------------------------------------------------------------------
(* The answer *)

AnswerInv == AnswerType /\ FirstToConvergeWins /\ BestOfRace /\ AllPoliciesFinish

\* build_result() after a race answers by the policy that won it, with that
\* policy's own result, or with an error if nobody converged.
LEMMA BuiltAnswer ==
  ASSUME MemberTypes, RaceInv, SolveReturn
  PROVE  AnswerInv'
<1>1. /\ UNCHANGED <<m_objective, m_total_iterations, m_results, first>>
      /\ Finished' = Finished /\ Converged' = Converged
  BY DEF SolveReturn, race, history, Finished, Converged
<1>2. /\ Finished \subseteq Policies /\ Converged \subseteq Finished
      /\ \A i \in Finished : m_results[i] \in Results
  BY FinishedHaveResults DEF MemberTypes
<1>3. m_status # "running"
  BY DEF SolveReturn, RaceInv, RaceStatus
<1>4. CASE m_status = "converged" /\ Converged # {}
  <2>1. /\ SelectBest \in Converged
        /\ m_objective = "speed" => SelectBest = first
        /\ m_objective # "speed" =>
             \A i \in Converged : ParkedError(SelectBest) <= ParkedError(i)
    <3>1. CASE m_objective = "speed"
      <4>1. m_best_solver_index = first /\ first \in Converged
        BY <1>4, <3>1 DEF RaceInv, Winner
      <4>2. first >= 0
        BY <1>2, <4>1, PolicyNumbers
      <4>. QED
        BY <3>1, <4>1, <4>2 DEF SelectBest
    <3>2. CASE m_objective # "speed"
      BY <1>2, <1>4, <3>2, LowestErrorIsLowest DEF SelectBest
    <3>. QED
      BY <3>1, <3>2
  <2> DEFINE best == SelectBest
  <2>2. result' = MakeResult(best)
    BY <1>4 DEF SolveReturn
  <2>3. /\ result'.kind = "ok" /\ result'.index = best
        /\ result'.q = m_results[best].q /\ result'.errAt = m_results[best].errAt
    BY <2>2 DEF MakeResult
  <2>4. best \in Policies /\ m_results[best].q \in Configs
        /\ m_results[best].errAt = m_results[best].q
    BY <1>2, <2>1 DEF RaceInv, Parking, Results
  <2> HIDE DEF best
  <2>5. AnswerType' /\ FirstToConvergeWins'
    BY <1>1, <2>1, <2>3, <2>4 DEF AnswerType, FirstToConvergeWins, best
  <2>6. BestOfRace'
    <3>1. \A i \in Converged : ParkedError(i)' = ParkedError(i)
      BY <1>1 DEF ParkedError, ErrorAt
    <3>2. ErrorAt(result'.errAt) = ParkedError(best)
      BY <2>3 DEF ParkedError
    <3>3. m_objective' # "speed" =>
            \A i \in Converged' : ErrorAt(result'.errAt) <= ParkedError(i)'
      BY <1>1, <2>1, <3>1, <3>2 DEF best
    <3>4. result'.index \in Converged' /\ result'.errAt = result'.q
      BY <1>1, <2>1, <2>3, <2>4 DEF best
    <3>. QED
      BY <3>3, <3>4 DEF BestOfRace
  <2>7. AllPoliciesFinish'
    BY <1>1, <1>4 DEF AllPoliciesFinish, RaceInv, RaceStatus
  <2>. QED
    BY <2>5, <2>6, <2>7 DEF AnswerInv
<1>5. CASE ~(m_status = "converged" /\ Converged # {})
  <2>1. first = -1
    BY <1>3, <1>5 DEF RaceInv, RaceStatus, Winner, MemberTypes
  <2>2. BuildError.kind = "error" /\ BuildError.q \in Configs
    BY <1>2 DEF BuildError, Results, MemberTypes
  <2>3. result' = BuildError
    BY <1>5 DEF SolveReturn
  <2>. QED
    BY <1>1, <2>1, <2>2, <2>3
       DEF AnswerInv, AnswerType, FirstToConvergeWins, BestOfRace, AllPoliciesFinish
<1>. QED
  BY <1>4, <1>5

\* Every operation keeps the answer one of the race it was given for, or
\* withdraws it.
LEMMA NextAnswer == MemberTypes /\ RaceInv /\ AnswerInv /\ [Next]_vars => AnswerInv'
<1> SUFFICES ASSUME MemberTypes, RaceInv, AnswerInv, [Next]_vars PROVE AnswerInv'
  OBVIOUS
<1>1. ASSUME result' = NoResult PROVE AnswerInv'
  BY <1>1 DEF NoResult, AnswerInv, AnswerType, FirstToConvergeWins, BestOfRace,
     AllPoliciesFinish
<1>2. ASSUME UNCHANGED <<result, m_objective, m_total_iterations, m_results, first>>
      PROVE  AnswerInv'
  <2>1. Finished' = Finished /\ Converged' = Converged
    BY <1>2 DEF Finished, Converged
  <2>2. \A i \in Converged : ParkedError(i)' = ParkedError(i)
    BY <1>2 DEF ParkedError, ErrorAt
  <2>3. BestOfRace'
    BY <1>2, <2>1, <2>2 DEF AnswerInv, BestOfRace
  <2>. QED
    BY <1>2, <2>1, <2>3 DEF AnswerInv, AnswerType, FirstToConvergeWins, AllPoliciesFinish
<1>3. ASSUME NEW q0 \in Configs, NEW objective \in Objectives, Setup(q0, objective)
      PROVE  AnswerInv'
  BY <1>1, <1>3 DEF Setup
<1>4. CASE StepBegin \/ Abort
  BY <1>1, <1>4 DEF StepBegin, Abort
<1>5. CASE SolveNotInitialized
  <2>1. first = -1
    BY <1>5 DEF SolveNotInitialized, RaceInv, RaceStatus, Winner
  <2>. QED
    BY <1>5, <2>1 DEF SolveNotInitialized, NotInitialized, race, history, AnswerInv,
       AnswerType, FirstToConvergeWins, BestOfRace, AllPoliciesFinish
<1>6. CASE SolveBegin \/ UNCHANGED vars
  BY <1>2, <1>6 DEF SolveBegin, vars, race, history
<1>7. CASE RoundBegin
  BY <1>1, <1>2, <1>7 DEF RoundBegin, race, history
<1>8. CASE Tick \/ TickSkipped \/ RoundEnd
  BY <1>1, <1>8 DEF Tick, TickSkipped, RoundEnd, RaceInv, RaceStatus
<1>9. CASE SolveReturn
  BY <1>9, BuiltAnswer
<1>. QED
  BY <1>3, <1>4, <1>5, <1>6, <1>7, <1>8, <1>9 DEF Next, Driving

\* The answer belongs to the race in every behaviour.
LEMMA AnswerCorrect == Spec => []AnswerInv
<1>1. Init => AnswerInv
  BY DEF Init, NoResult, AnswerInv, AnswerType, FirstToConvergeWins, BestOfRace,
     AllPoliciesFinish
<1>. QED
  BY <1>1, NextAnswer, MembersCorrect, RaceCorrect, PTL DEF Spec

\* The types of the runner's members and of its answer.
THEOREM TypeCorrect == Spec => []TypeOK
<1>1. MemberTypes /\ AnswerInv => TypeOK
  BY DEF MemberTypes, AnswerInv, AnswerType, TypeOK
<1>. QED
  BY <1>1, MembersCorrect, AnswerCorrect, PTL

\* A speed race is won by the first policy to converge and by no other, and no
\* race in which a policy converged is answered with an error.
THEOREM FirstWins == Spec => []FirstToConvergeWins
<1>1. AnswerInv => FirstToConvergeWins
  BY DEF AnswerInv
<1>. QED
  BY <1>1, AnswerCorrect, PTL

\* The answer is one converged policy's own result, and under the objectives
\* that compare solutions no converged policy did better.
THEOREM BestIsAnswered == Spec => []BestOfRace
<1>1. AnswerInv => BestOfRace
  BY DEF AnswerInv
<1>. QED
  BY <1>1, AnswerCorrect, PTL

\* Before the round limit no policy is cut short by another's success.
THEOREM AllFinish == Spec => []AllPoliciesFinish
<1>1. AnswerInv => AllPoliciesFinish
  BY DEF AnswerInv
<1>. QED
  BY <1>1, AnswerCorrect, PTL

------------------------------------------------------------------------------
(* Refinement *)

\* The outcome and the verdict of the race, as RaceRunner shows them to Race.
OutcomeShown ==
  [i \in Policies |-> IF i \notin Finished THEN "racing"
                      ELSE IF i \in Converged THEN "converged" ELSE "failed"]

VerdictShown ==
  CASE result.kind = "none"  -> [lost |-> FALSE, by |-> -1]
    [] result.kind = "ok"    -> [lost |-> FALSE, by |-> result.index]
    [] result.kind = "error" -> [lost |-> TRUE, by |-> -1]

\* Race's vocabulary, in the runner's.
LEMMA RaceShown ==
  /\ R!Contestants = Policies
  /\ R!Converged = Converged
  /\ R!vars = <<m_objective = "speed", OutcomeShown, VerdictShown>>
<1>1. R!Contestants = Policies
  BY DEF R!Contestants, Policies
<1>2. R!Converged = Converged
  BY <1>1 DEF R!Converged, Converged, Finished
<1>. QED
  BY <1>1, <1>2 DEF R!vars, OutcomeShown, VerdictShown

\* No answer reads as an open verdict.
LEMMA NoResultIsOpen == result = NoResult => VerdictShown = R!Open
BY DEF NoResult, VerdictShown, R!Open

\* A runner before setup() is a race nobody has finished.
LEMMA InitShown == Init => R!Init
<1> SUFFICES ASSUME Init PROVE R!Init
  OBVIOUS
<1>1. OutcomeShown = [i \in Policies |-> "racing"]
  BY DEF Init, OutcomeShown, Finished, Nothing
<1>2. VerdictShown = R!Open
  BY NoResultIsOpen DEF Init
<1>. QED
  BY <1>1, <1>2, RaceShown DEF Init, R!Init, OutcomeShown, VerdictShown

\* A tick that ends a policy is that contestant's finish.
LEMMA TickShown ==
  ASSUME MemberTypes, RaceInv, Tick
  PROVE  [R!Next]_(R!vars)
<1>1. /\ next \in Policies \ Finished /\ ~m_early_stop /\ result = NoResult
      /\ UNCHANGED <<m_objective, result>>
  BY TickParks DEF RaceInv, RaceStatus, Tick
<1>2. VerdictShown' = R!Open /\ VerdictShown = R!Open
  BY <1>1, NoResultIsOpen DEF VerdictShown
<1>3. PICK p \in HonestPolicies :
        \/ /\ TickConverged(p)
           /\ Finished' = Finished \cup {next} /\ Converged' = Converged \cup {next}
        \/ /\ TickFailed(p)
           /\ Finished' = Finished \cup {next} /\ Converged' = Converged
        \/ /\ TickRunning(p)
           /\ Finished' = Finished /\ Converged' = Converged
  BY TickParks DEF RaceInv
<1>4. Converged \subseteq Finished
  BY DEF Converged
<1>5. CASE Finished' = Finished /\ Converged' = Converged
  <2>1. OutcomeShown' = OutcomeShown
    BY <1>5 DEF OutcomeShown
  <2>. QED
    BY <1>1, <1>2, <2>1 DEF R!vars, OutcomeShown, VerdictShown
<1>6. PICK i \in Policies : i = next
  BY <1>1
<1>7. ASSUME Finished' = Finished \cup {i},
             NEW end \in {"converged", "failed"},
             Converged' = IF end = "converged" THEN Converged \cup {i} ELSE Converged
      PROVE  R!Finish(i)
  <2>1. OutcomeShown[i] = "racing"
    BY <1>1, <1>6 DEF OutcomeShown
  <2>2. ~(m_objective = "speed" /\ Converged # {})
    BY <1>1 DEF RaceInv, Parking, Winner
  <2>3. OutcomeShown' = [OutcomeShown EXCEPT ![i] = end]
    BY <1>1, <1>4, <1>6, <1>7 DEF OutcomeShown
  <2>. QED
    BY <1>1, <1>2, <2>1, <2>2, <2>3, RaceShown DEF R!Finish, OutcomeShown, VerdictShown
<1>8. CASE Finished' = Finished \cup {i} /\ Converged' = Converged \cup {i}
  <2>1. R!Finish(i)
    BY <1>7, <1>8
  <2>. QED
    BY <2>1, RaceShown DEF R!Next
<1>9. CASE Finished' = Finished \cup {i} /\ Converged' = Converged
  <2>1. R!Finish(i)
    BY <1>7, <1>9
  <2>. QED
    BY <2>1, RaceShown DEF R!Next
<1>. QED
  BY <1>3, <1>5, <1>6, <1>8, <1>9

\* Every operation of the runner is a step of the race, or none.
LEMMA NextShown ==
  MemberTypes /\ RaceInv /\ AnswerInv /\ AnswerInv' /\ [Next]_vars => [R!Next]_(R!vars)
<1> SUFFICES ASSUME MemberTypes, RaceInv, AnswerInv, AnswerInv', [Next]_vars
             PROVE  [R!Next]_(R!vars)
  OBVIOUS
<1>1. ASSUME UNCHANGED <<m_objective, m_results>>
      PROVE  /\ OutcomeShown' = OutcomeShown /\ Converged' = Converged
             /\ result' = NoResult => R!Reopen
             /\ UNCHANGED result => UNCHANGED R!vars
  <2>1. OutcomeShown' = OutcomeShown /\ Converged' = Converged
    BY <1>1 DEF OutcomeShown, Finished, Converged
  <2>2. result' = NoResult => VerdictShown' = R!Open
    BY DEF NoResult, VerdictShown, R!Open
  <2>3. result' = NoResult => R!Reopen
    BY <1>1, <2>1, <2>2 DEF R!Reopen, OutcomeShown, VerdictShown
  <2>4. UNCHANGED result => VerdictShown' = VerdictShown
    BY DEF VerdictShown
  <2>5. UNCHANGED result => UNCHANGED R!vars
    BY <1>1, <2>1, <2>4 DEF R!vars, OutcomeShown, VerdictShown
  <2>. QED
    BY <2>1, <2>3, <2>5
<1>2. ASSUME NEW q0 \in Configs, NEW objective \in Objectives, Setup(q0, objective)
      PROVE  R!Start
  <2>1. \A i \in Policies : m_results'[i] = Nothing
    BY <1>2 DEF Setup
  <2>2. OutcomeShown' = [i \in Policies |-> "racing"]
    BY <2>1 DEF OutcomeShown, Finished, Nothing
  <2>3. VerdictShown' = R!Open
    BY <1>2 DEF Setup, NoResult, VerdictShown, R!Open
  <2>. QED
    BY <2>2, <2>3, RaceShown DEF R!Start, OutcomeShown, VerdictShown
<1>3. CASE StepBegin \/ Abort
  BY <1>1, <1>3 DEF StepBegin, Abort, race, R!Next
<1>4. CASE RoundBegin
  BY <1>1, <1>4 DEF RoundBegin, race, R!Next
<1>5. CASE SolveBegin \/ TickSkipped \/ RoundEnd \/ UNCHANGED vars
  BY <1>1, <1>5 DEF SolveBegin, TickSkipped, RoundEnd, vars, race
<1>6. CASE Tick
  BY <1>6, TickShown
<1>7. CASE SolveReturn \/ SolveNotInitialized
  <2>1. /\ UNCHANGED <<m_objective, m_results, first>>
        /\ result'.kind \in {"ok", "error"}
    BY <1>7 DEF SolveReturn, SolveNotInitialized, race, history, MakeResult, BuildError,
       NotInitialized
  <2>2. CASE result'.kind = "ok"
    <3>1. result'.index \in Converged'
      BY <2>2 DEF AnswerInv, BestOfRace
    <3>2. VerdictShown' = [lost |-> FALSE, by |-> result'.index]
      BY <2>2 DEF VerdictShown
    <3>. QED
      BY <1>1, <2>1, <3>1, <3>2, RaceShown DEF R!Call, R!Next, OutcomeShown, VerdictShown
  <2>3. CASE result'.kind = "error"
    <3>1. Converged = {}
      BY <2>1, <2>3 DEF AnswerInv, FirstToConvergeWins, RaceInv, Winner
    <3>2. VerdictShown' = [lost |-> TRUE, by |-> -1]
      BY <2>3 DEF VerdictShown
    <3>. QED
      BY <1>1, <2>1, <3>1, <3>2, RaceShown DEF R!Call, R!Next, OutcomeShown, VerdictShown
  <2>. QED
    BY <2>1, <2>2, <2>3
<1>. QED
  BY <1>2, <1>3, <1>4, <1>5, <1>6, <1>7 DEF Next, Driving, R!Next

\* Rounds, parking and the two early stops implement the race, for any number
\* of policies.
THEOREM ImplementsRace == Spec => RefinesRace
<1>1. Spec => [](MemberTypes /\ RaceInv /\ AnswerInv)
  BY MembersCorrect, RaceCorrect, AnswerCorrect, PTL
<1>2. (MemberTypes /\ RaceInv /\ AnswerInv) /\ (MemberTypes /\ RaceInv /\ AnswerInv)'
        /\ [Next]_vars => [R!Next]_(R!vars)
  BY NextShown
<1>. QED
  BY <1>1, <1>2, InitShown, PTL DEF Spec, RefinesRace, R!Spec
=============================================================================
