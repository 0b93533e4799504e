-------------------------- MODULE RestartWrapperProofs --------------------------
(***************************************************************************)
(* What holds of restart_wrapper around every inner policy, for any number *)
(* of restarts and any cap on an attempt, and that the wrapper is itself a *)
(* policy as PolicyContract describes it.                                  *)
(***************************************************************************)
EXTENDS RestartWrapper, TLAPS

\* A fresh attempt is a running policy, wherever the policy puts its seed.
LEMMA SetupType ==
  ASSUME NEW q0 \in Configs, NEW r \in PolicySetups(q0)
  PROVE  r \in Policy /\ r.status = "running" /\ HonestConvergence(r)
<1>1. Clamp[q0] \in Configs
  BY SpaceAssumption
<1>. QED
  BY <1>1 DEF PolicySetups, Policy, IkStatus, HonestConvergence

\* The squares ErrorNorm adds up are natural.
LEMMA SquareType == \A a \in Nat : a * a \in Nat
OBVIOUS

\* The error norm of a configuration is a natural.
LEMMA ErrorNormType == \A q \in Configs : ErrorNorm(q) \in Nat
<1>1. ASSUME NEW q \in Configs PROVE ErrorNorm(q) \in Nat
  <2>1. Ang[q] \in Nat /\ Lin[q] \in Nat
    BY SpaceAssumption
  <2>2. Ang[q] * Ang[q] \in Nat /\ Lin[q] * Lin[q] \in Nat
    BY <2>1, SquareType
  <2>. QED
    BY <2>2 DEF ErrorNorm
<1>. QED
  BY <1>1

\* The best end beats every end: feasible if one of them is, and with the
\* smallest error among those of its kind.
BestSoFar ==
  /\ m_best = NoBest <=> ended = {}
  /\ \A p \in ended :
       /\ p.q \in InLimits => m_best.q \in InLimits
       /\ (p.q \in InLimits) = (m_best.q \in InLimits)
            => ErrorAt(m_best.errAt) <= ErrorAt(p.errAt)

\* Unless it was aborted the wrapper says what its inner policy says; a failed
\* inner policy stays so only when no restart is left, and its end is known.
InnerShows ==
  ~m_aborted =>
    /\ reported = m_inner.status
    /\ m_inner.status \notin {"running", "converged"} =>
         /\ m_restart_count = MaxRestarts
         /\ [q |-> Canonical[m_inner.q], errAt |-> m_inner.errAt] \in ended

\* The units of the attempts begun so far, and of the one that runs.
AttemptAccounts ==
  /\ m_total_iterations <= m_restart_count * MaxIterations + attempt
  /\ reported = "running" => attempt <= MaxIterations

End == [q : Configs, errAt : Configs \cup {NoConfig}]

------------------------------------------------------------------------------
(* Types *)

\* An end is not the lack of one, and its error is a natural.
LEMMA EndType ==
  ASSUME NEW e \in End
  PROVE  e # NoBest /\ e.q \in Configs /\ ErrorAt(e.errAt) \in Nat
BY NoConfigAssumption, ErrorNormType, SpaceAssumption DEF End, NoBest, ErrorAt

\* What an inner policy ended with is an end.
LEMMA InnerEndType ==
  ASSUME NEW p \in Policy
  PROVE  [q |-> Canonical[p.q], errAt |-> p.errAt] \in End
BY SpaceAssumption DEF Policy, End

\* One call of the inner policy: what it leaves and what it bills.
LEMMA InnerStepType ==
  ASSUME TypeOK, NEW n \in 1..MaxUnits, NEW r \in PolicySteps(m_inner),
         NEW u \in 0..MaxUnits, InnerStep(n, r, u)
  PROVE  /\ r \in HonestPolicies /\ r \in Policy /\ r.status \in IkStatus
         /\ u \in Nat /\ attempt + u \in Nat
         /\ m_total_iterations' = m_total_iterations + u /\ m_total_iterations' \in Nat
         /\ billed' \in 0..MaxUnits /\ billed' = u
         /\ m_chain' \in BOOLEAN /\ m_aborted' \in BOOLEAN
BY WrapperAssumption DEF TypeOK, InnerStep, PolicySteps, HonestPolicies, Policy

\* track_best keeps the best end and the known ends well typed.
LEMMA TrackBestType ==
  ASSUME TypeOK, NEW p \in Policy, TrackBest(p)
  PROVE  (m_best' = NoBest \/ m_best' \in End) /\ ended' \subseteq End
<1> DEFINE e == [q |-> Canonical[p.q], errAt |-> p.errAt]
<1>1. e \in End
  BY InnerEndType
<1>2. m_best' \in {e, m_best} /\ ended' = ended \cup {e}
  BY DEF TrackBest
<1>. QED
  BY <1>1, <1>2 DEF TypeOK, End

\* Nothing counted yet is within every bound.
LEMMA BoundsType ==
  0 \in 0..MaxRestarts /\ 0 \in 0..MaxUnits /\ "running" \in IkStatus /\ "stalled" \in IkStatus
BY WrapperAssumption DEF IkStatus

\* A wrapper before setup() is well typed.
LEMMA InitType == Init => TypeOK
<1> SUFFICES ASSUME Init PROVE TypeOK
  OBVIOUS
<1>1. m_inner \in HonestPolicies
  BY DEF Init, HonestPolicies, HonestConvergence
<1>. QED
  BY <1>1, BoundsType DEF Init, TypeOK

\* Every operation keeps the wrapper well typed.
LEMMA NextType == TypeOK /\ [Next]_vars => TypeOK'
<1> SUFFICES ASSUME TypeOK, [Next]_vars PROVE TypeOK'
  OBVIOUS
<1>1. CASE Setup
  <2>1. PICK q0 \in Configs : m_inner' \in PolicySetups(q0)
    BY <1>1 DEF Setup
  <2>2. m_inner' \in HonestPolicies
    BY <2>1, SetupType DEF HonestPolicies
  <2>. QED
    BY <1>1, <2>2, BoundsType DEF Setup, TypeOK
<1>2. CASE PassedOn
  <2>1. PICK n \in 1..MaxUnits, r \in PolicySteps(m_inner), u \in 0..MaxUnits :
          /\ InnerStep(n, r, u)
          /\ m_inner' = r /\ reported' = r.status /\ attempt' = attempt + u
          /\ UNCHANGED <<m_restart_count, m_best, ended>>
    BY <1>2 DEF PassedOn
  <2>. QED
    BY <2>1, InnerStepType DEF TypeOK
<1>3. CASE Restarted
  <2>1. PICK n \in 1..MaxUnits, r \in PolicySteps(m_inner), u \in 0..MaxUnits,
             seed \in Configs :
          /\ InnerStep(n, r, u) /\ RestartsLeft /\ TrackBest(r) /\ Reseed(seed)
          /\ reported' = "running" /\ attempt' = 0
    BY <1>3 DEF Restarted
  <2>2. m_inner' \in HonestPolicies
    BY <2>1, SpaceAssumption, SetupType DEF Reseed, HonestPolicies
  <2>3. m_restart_count' \in 0..MaxRestarts
    BY <2>1, WrapperAssumption DEF Reseed, RestartsLeft, TypeOK
  <2>4. (m_best' = NoBest \/ m_best' \in End) /\ ended' \subseteq End
    BY <2>1, InnerStepType, TrackBestType
  <2>. QED
    BY <2>1, <2>2, <2>3, <2>4, InnerStepType DEF TypeOK, End, IkStatus
<1>4. CASE Exhausted
  <2>1. PICK n \in 1..MaxUnits, r \in PolicySteps(m_inner), u \in 0..MaxUnits :
          /\ InnerStep(n, r, u) /\ TrackBest(r)
          /\ m_inner' = r /\ reported' = r.status /\ attempt' = attempt + u
          /\ UNCHANGED m_restart_count
    BY <1>4 DEF Exhausted
  <2>2. (m_best' = NoBest \/ m_best' \in End) /\ ended' \subseteq End
    BY <2>1, InnerStepType, TrackBestType
  <2>. QED
    BY <2>1, <2>2, InnerStepType DEF TypeOK, End
<1>5. CASE Abort
  <2>1. m_inner' \in HonestPolicies
    BY <1>5 DEF Abort, AbortOutcomes, TypeOK, HonestPolicies, HonestConvergence
  <2>. QED
    BY <1>5, <2>1 DEF Abort, TypeOK
<1>6. CASE AbortedStep
  BY <1>6, WrapperAssumption DEF AbortedStep, TypeOK, IkStatus
<1>7. CASE UNCHANGED vars
  BY <1>7 DEF vars, TypeOK
<1>. QED
  BY <1>1, <1>2, <1>3, <1>4, <1>5, <1>6, <1>7 DEF Next

\* The types of the wrapper's members and of what its step() returns.
THEOREM TypeCorrect == Spec => []TypeOK
BY InitType, NextType, PTL DEF Spec

------------------------------------------------------------------------------
(* The best of the attempts *)

\* update_best_q() keeps the best end, the new one included; an end already
\* known changes nothing.
LEMMA TrackBestBeats ==
  ASSUME TypeOK, BestSoFar, NEW p \in Policy, TrackBest(p)
  PROVE  /\ BestSoFar'
         /\ [q |-> Canonical[p.q], errAt |-> p.errAt] \in ended'
         /\ [q |-> Canonical[p.q], errAt |-> p.errAt] \in ended => m_best' = m_best
<1> DEFINE e == [q |-> Canonical[p.q], errAt |-> p.errAt]
<1> DEFINE better == \/ m_best = NoBest
                     \/ e.q \in InLimits /\ m_best.q \notin InLimits
                     \/ /\ (e.q \in InLimits) = (m_best.q \in InLimits)
                        /\ ErrorAt(e.errAt) < ErrorAt(m_best.errAt)
<1>1. e \in End /\ e # NoBest /\ ErrorAt(e.errAt) \in Nat
  BY InnerEndType, EndType
<1>2. m_best # NoBest => m_best \in End /\ ErrorAt(m_best.errAt) \in Nat
  BY EndType DEF TypeOK, End
<1>3. \A x \in ended : x \in End /\ ErrorAt(x.errAt) \in Nat
  BY EndType DEF TypeOK, End
<1>4. m_best' = (IF better THEN e ELSE m_best) /\ ended' = ended \cup {e}
  BY DEF TrackBest, PolicyError, ErrorAt
<1>5. e \in ended => ~better
  BY <1>1, <1>2, <1>3 DEF BestSoFar
<1>6. m_best' # NoBest
  BY <1>1, <1>4
<1>7. ASSUME NEW x \in ended'
      PROVE  /\ x.q \in InLimits => m_best'.q \in InLimits
             /\ (x.q \in InLimits) = (m_best'.q \in InLimits)
                  => ErrorAt(m_best'.errAt) <= ErrorAt(x.errAt)
  <2>1. CASE better
    <3>1. m_best' = e
      BY <1>4, <2>1
    <3>2. CASE x = e
      BY <1>1, <3>1, <3>2
    <3>3. CASE x \in ended
      <4>1. m_best # NoBest
        BY <3>3 DEF BestSoFar
      <4>2. /\ x.q \in InLimits => m_best.q \in InLimits
            /\ (x.q \in InLimits) = (m_best.q \in InLimits)
                 => ErrorAt(m_best.errAt) <= ErrorAt(x.errAt)
        BY <3>3 DEF BestSoFar
      <4>. QED
        BY <1>1, <1>2, <1>3, <2>1, <3>1, <3>3, <4>1, <4>2
    <3>. QED
      BY <1>4, <3>2, <3>3
  <2>2. CASE ~better
    <3>1. m_best' = m_best /\ m_best # NoBest
      BY <1>4, <2>2
    <3>2. CASE x = e
      BY <1>1, <1>2, <2>2, <3>1, <3>2
    <3>3. CASE x \in ended
      BY <3>1, <3>3 DEF BestSoFar
    <3>. QED
      BY <1>4, <3>2, <3>3
  <2>. QED
    BY <2>1, <2>2
<1>8. BestSoFar'
  BY <1>4, <1>6, <1>7 DEF BestSoFar, ErrorAt
<1>. QED
  BY <1>4, <1>5, <1>8

\* Every operation keeps the best end the best.
LEMMA NextBeats == TypeOK /\ BestSoFar /\ [Next]_vars => BestSoFar'
<1> SUFFICES ASSUME TypeOK, BestSoFar, [Next]_vars PROVE BestSoFar'
  OBVIOUS
<1>1. CASE Setup
  BY <1>1 DEF Setup, BestSoFar
<1>2. CASE PassedOn \/ Abort \/ AbortedStep \/ UNCHANGED vars
  BY <1>2 DEF PassedOn, Abort, AbortedStep, vars, BestSoFar, ErrorAt
<1>3. CASE Restarted \/ Exhausted
  <2>1. PICK n \in 1..MaxUnits, r \in PolicySteps(m_inner), u \in 0..MaxUnits :
          InnerStep(n, r, u) /\ TrackBest(r)
    BY <1>3 DEF Restarted, Exhausted
  <2>. QED
    BY <2>1, InnerStepType, TrackBestBeats
<1>. QED
  BY <1>1, <1>2, <1>3 DEF Next

\* The best end is the best in every behaviour.
LEMMA BeatsCorrect == Spec => []BestSoFar
<1>1. Init => BestSoFar
  BY DEF Init, BestSoFar
<1>. QED
  BY <1>1, NextBeats, TypeCorrect, PTL DEF Spec

\* A wrapper with failed attempts behind it hands out the best of their ends,
\* for any number of restarts.
THEOREM BestIsHandedOut == Spec => []BestOfAttempts
<1>1. BestSoFar => BestOfAttempts
  BY DEF BestSoFar, BestOfAttempts, Solution, SolutionErrAt, ShowsInner
<1>. QED
  BY <1>1, BeatsCorrect, PTL

------------------------------------------------------------------------------
(* Restarts and units *)

\* Every operation keeps the wrapper in step with its inner policy.
LEMMA NextInnerShows == TypeOK /\ BestSoFar /\ InnerShows /\ [Next]_vars => InnerShows'
<1> SUFFICES ASSUME TypeOK, BestSoFar, InnerShows, [Next]_vars PROVE InnerShows'
  OBVIOUS
<1>1. CASE Setup
  <2>1. m_inner'.status = "running"
    BY <1>1, SetupType DEF Setup
  <2>. QED
    BY <1>1, <2>1 DEF Setup, InnerShows
<1>2. CASE PassedOn
  BY <1>2 DEF PassedOn, InnerShows
<1>3. CASE Restarted
  <2>1. m_inner'.status = "running"
    BY <1>3, SpaceAssumption, SetupType DEF Restarted, Reseed
  <2>. QED
    BY <1>3, <2>1 DEF Restarted, InnerShows
<1>4. CASE Exhausted
  <2>1. PICK n \in 1..MaxUnits, r \in PolicySteps(m_inner), u \in 0..MaxUnits :
          /\ InnerStep(n, r, u) /\ ~RestartsLeft /\ TrackBest(r)
          /\ m_inner' = r /\ reported' = r.status /\ UNCHANGED m_restart_count
    BY <1>4 DEF Exhausted
  <2>2. [q |-> Canonical[r.q], errAt |-> r.errAt] \in ended'
    BY <2>1, InnerStepType, TrackBestBeats
  <2>3. m_restart_count = MaxRestarts
    BY <2>1, WrapperAssumption DEF RestartsLeft, TypeOK
  <2>. QED
    BY <2>1, <2>2, <2>3 DEF InnerShows
<1>5. CASE Abort \/ AbortedStep
  BY <1>5 DEF Abort, AbortedStep, InnerShows
<1>6. CASE UNCHANGED vars
  BY <1>6 DEF vars, InnerShows
<1>. QED
  BY <1>1, <1>2, <1>3, <1>4, <1>5, <1>6 DEF Next

\* The wrapper is in step with its inner policy in every behaviour.
LEMMA InnerShowsCorrect == Spec => []InnerShows
<1>1. Init => InnerShows
  BY DEF Init, InnerShows
<1>. QED
  BY <1>1, NextInnerShows, TypeCorrect, BeatsCorrect, PTL DEF Spec

\* One attempt more is one cap on an attempt more.
LEMMA OneAttemptMore ==
  ASSUME NEW k \in Nat, NEW c \in Nat
  PROVE  k * c \in Nat /\ (k + 1) * c = k * c + c
OBVIOUS

\* Every operation keeps the accounts of the attempts.
LEMMA NextAttempts ==
  TypeOK /\ InnerShows /\ AttemptAccounts /\ [Next]_vars => AttemptAccounts'
<1> SUFFICES ASSUME TypeOK, InnerShows, AttemptAccounts, [Next]_vars PROVE AttemptAccounts'
  OBVIOUS
<1> DEFINE spent == m_restart_count * MaxIterations
<1>1. /\ MaxIterations \in Nat /\ spent \in Nat
      /\ (m_restart_count + 1) * MaxIterations = spent + MaxIterations
  BY OneAttemptMore, WrapperAssumption DEF TypeOK
<1>2. CASE Setup
  BY <1>1, <1>2, OneAttemptMore DEF Setup, AttemptAccounts
<1>3. CASE PassedOn \/ Exhausted
  <2>1. PICK n \in 1..MaxUnits, r \in PolicySteps(m_inner), u \in 0..MaxUnits :
          /\ InnerStep(n, r, u)
          /\ reported' = r.status /\ attempt' = attempt + u /\ UNCHANGED m_restart_count
    BY <1>3 DEF PassedOn, Exhausted
  <2>2. m_total_iterations' = m_total_iterations + u /\ u \in Nat
    BY <2>1, InnerStepType
  <2>3. m_total_iterations' <= spent + attempt'
    <3> HIDE DEF spent
    <3>1. m_total_iterations <= spent + attempt
      BY DEF AttemptAccounts, spent
    <3>. QED
      BY <1>1, <2>1, <2>2, <3>1 DEF TypeOK
  <2>4. reported' = "running" => attempt' <= MaxIterations
    BY <1>1, <2>1, <2>2 DEF InnerStep, TypeOK
  <2>. QED
    BY <2>1, <2>3, <2>4 DEF AttemptAccounts
<1>4. CASE Restarted
  <2>1. PICK n \in 1..MaxUnits, r \in PolicySteps(m_inner), u \in 0..MaxUnits :
          /\ InnerStep(n, r, u) /\ RestartsLeft
          /\ r.status \notin {"running", "converged"}
          /\ m_restart_count' = m_restart_count + 1
          /\ attempt' = 0
    BY <1>4 DEF Restarted, Reseed
  <2>2. m_inner.status = "running"
    BY <2>1, WrapperAssumption
       DEF InnerStep, InnerShows, RestartsLeft, PolicySteps, TypeOK
  <2>3. attempt + u <= MaxIterations /\ m_total_iterations' = m_total_iterations + u
    BY <2>1, <2>2 DEF InnerStep
  <2>4. m_total_iterations' <= m_restart_count' * MaxIterations
    <3> HIDE DEF spent
    <3>1. m_total_iterations <= spent + attempt
      BY DEF AttemptAccounts, spent
    <3>2. m_total_iterations' <= spent + MaxIterations
      BY <1>1, <2>3, <3>1, WrapperAssumption DEF TypeOK
    <3>. QED
      BY <1>1, <2>1, <3>2
  <2>5. m_restart_count' * MaxIterations + attempt' = m_restart_count' * MaxIterations
    <3>1. m_restart_count' * MaxIterations \in Nat
      BY <2>1, <1>1, OneAttemptMore DEF TypeOK
    <3>. QED
      BY <2>1, <3>1
  <2>. QED
    BY <1>1, <2>1, <2>4, <2>5 DEF AttemptAccounts
<1>5. CASE Abort \/ AbortedStep \/ UNCHANGED vars
  BY <1>5 DEF Abort, AbortedStep, vars, AttemptAccounts
<1>. QED
  BY <1>2, <1>3, <1>4, <1>5 DEF Next

\* The attempts are accounted for in every behaviour.
LEMMA AttemptsCorrect == Spec => []AttemptAccounts
<1>1. Init => AttemptAccounts
  BY WrapperAssumption DEF Init, AttemptAccounts
<1>. QED
  BY <1>1, NextAttempts, TypeCorrect, InnerShowsCorrect, PTL DEF Spec

\* A wrapper reports a failure only after its last restart, and while it runs
\* it has billed no more than the attempts it may start are allowed.
THEOREM GivesUpOnlyLast == Spec => []GivesUpLast
<1>1. TypeOK /\ InnerShows /\ AttemptAccounts => GivesUpLast
  <2> SUFFICES ASSUME TypeOK, InnerShows, AttemptAccounts PROVE GivesUpLast
    OBVIOUS
  <2>1. reported \notin {"running", "converged"} /\ ~m_aborted => m_restart_count = MaxRestarts
    BY DEF InnerShows
  <2>2. ASSUME reported = "running"
        PROVE  m_total_iterations <= (MaxRestarts + 1) * MaxIterations
    <3>1. m_restart_count * MaxIterations <= MaxRestarts * MaxIterations
      BY WrapperAssumption DEF TypeOK
    <3>2. /\ m_restart_count * MaxIterations \in Nat /\ MaxRestarts * MaxIterations \in Nat
          /\ (MaxRestarts + 1) * MaxIterations = MaxRestarts * MaxIterations + MaxIterations
      BY OneAttemptMore, WrapperAssumption DEF TypeOK
    <3>3. m_total_iterations <= m_restart_count * MaxIterations + MaxIterations
      BY <2>2, <3>2, WrapperAssumption DEF AttemptAccounts, TypeOK
    <3>. QED
      BY <3>1, <3>2, <3>3, WrapperAssumption DEF TypeOK
  <2>. QED
    BY <2>1, <2>2 DEF GivesUpLast
<1>. QED
  BY <1>1, TypeCorrect, InnerShowsCorrect, AttemptsCorrect, PTL

------------------------------------------------------------------------------
(* The contract of a policy *)

\* The wrapper as its driver sees it.
Shown == [q |-> Solution, errAt |-> SolutionErrAt,
          status |-> IF m_aborted THEN "stalled" ELSE reported]

\* What the wrapper shows is a policy.
LEMMA ShownType ==
  ASSUME TypeOK
  PROVE  Shown \in Policy
<1>1. m_best # NoBest => m_best.q \in Configs /\ m_best.errAt \in Configs \cup {NoConfig}
  BY DEF TypeOK
<1>2. m_inner.q \in Configs /\ m_inner.errAt \in Configs \cup {NoConfig}
  BY DEF TypeOK, HonestPolicies, Policy
<1>3. Solution \in Configs /\ SolutionErrAt \in Configs \cup {NoConfig}
  BY <1>1, <1>2 DEF Solution, SolutionErrAt, ShowsInner
<1>4. (IF m_aborted THEN "stalled" ELSE reported) \in IkStatus
  BY BoundsType DEF TypeOK
<1>. QED
  BY <1>3, <1>4 DEF Shown, Policy

\* The contract speaks of the same policies as the wrapper.
LEMMA ContractVocabulary ==
  /\ Contract!Policy = Policy
  /\ \A q0 : Contract!PolicySetups(q0) = PolicySetups(q0)
  /\ \A p : /\ Contract!PolicySteps(p) = PolicySteps(p)
            /\ Contract!AbortOutcomes(p) = AbortOutcomes(p)
            /\ \A n : Contract!UnitsBilled(p, n) = UnitsBilled(p, n)
<1>1. Contract!Policy = Policy
  BY DEF Contract!Policy, Contract!IkStatus, Policy, IkStatus
<1>2. \A q0 : Contract!PolicySetups(q0) = PolicySetups(q0)
  BY DEF Contract!PolicySetups, PolicySetups
<1>3. Contract!HonestPolicies = HonestPolicies
  BY <1>1 DEF Contract!HonestPolicies, Contract!HonestConvergence, Contract!PoseMet,
     HonestPolicies, HonestConvergence, PoseMet
<1>. QED
  BY <1>1, <1>2, <1>3 DEF Contract!PolicySteps, Contract!AbortOutcomes, Contract!UnitsBilled,
     PolicySteps, AbortOutcomes, UnitsBilled

\* Before setup() the wrapper shows a running policy.
LEMMA InitContract == Init => Contract!Init
<1> SUFFICES ASSUME Init PROVE Contract!Init
  OBVIOUS
<1>1. Shown \in Policy /\ Shown.status = "running"
  BY InitType, ShownType DEF Init, Shown
<1>. QED
  BY <1>1, ContractVocabulary DEF Init, Contract!Init, Shown

\* An inner step the wrapper takes while it shows a running policy may show any
\* honest policy; once it has ended, an inner step leaves what it shows alone.
LEMMA InnerStepContract ==
  ASSUME InnerShows,
         NEW n \in 1..MaxUnits, NEW r \in PolicySteps(m_inner), NEW u \in 0..MaxUnits,
         InnerStep(n, r, u),
         m_inner.status = "running" => Shown' \in HonestPolicies,
         m_inner.status # "running" => Shown' = Shown
  PROVE  Contract!Step
<1>1. ~m_aborted /\ billed' = u /\ u \in UnitsBilled(m_inner, n)
  BY DEF InnerStep
<1>2. Shown.status = m_inner.status
  BY <1>1 DEF InnerShows, Shown
<1>3. Shown' \in PolicySteps(Shown) /\ billed' \in UnitsBilled(Shown, n)
  BY <1>1, <1>2 DEF PolicySteps, UnitsBilled
<1>. QED
  BY <1>3, ContractVocabulary DEF Contract!Step, Shown

ShownIsPolicy == Shown \in Policy

\* Every operation of the wrapper is one of a policy.
LEMMA NextContract ==
  ASSUME TypeOK, BestSoFar, InnerShows, ShownIsPolicy, ShownIsPolicy', [Next]_vars
  PROVE  [Contract!Next]_(Contract!vars)
<1>1. ASSUME NEW n \in 1..MaxUnits, NEW r \in PolicySteps(m_inner), NEW u \in 0..MaxUnits,
             InnerStep(n, r, u)
      PROVE  /\ r \in HonestPolicies /\ r \in Policy /\ ~m_aborted /\ m_aborted' = m_aborted
             /\ m_inner.status # "running" => r = m_inner
  BY <1>1, InnerStepType DEF PolicySteps, InnerStep
<1>2. CASE Setup
  <2>1. PICK q0 \in Configs : m_inner' \in PolicySetups(q0)
    BY <1>2 DEF Setup
  <2>2. m_inner'.status = "running" /\ m_inner' \in Policy
    BY <2>1, SetupType
  <2>3. Shown' = m_inner'
    BY <1>2, <2>2 DEF Setup, Shown, Solution, SolutionErrAt, ShowsInner, Policy
  <2>. QED
    BY <1>2, <2>1, <2>3, ContractVocabulary DEF Setup, Contract!Next, Contract!Setup, Shown
<1>3. CASE PassedOn
  <2>1. PICK n \in 1..MaxUnits, r \in PolicySteps(m_inner), u \in 0..MaxUnits :
          /\ InnerStep(n, r, u) /\ r.status \in {"running", "converged"}
          /\ m_inner' = r /\ reported' = r.status /\ UNCHANGED m_best
    BY <1>3 DEF PassedOn
  <2>2. r.status = "converged" => Shown' = r
    BY <1>1, <2>1 DEF Shown, Solution, SolutionErrAt, ShowsInner, Policy
  <2>3. Shown' \in HonestPolicies
    <3>1. CASE r.status = "converged"
      BY <1>1, <2>1, <2>2, <3>1
    <3>2. CASE r.status = "running"
      BY <1>1, <2>1, <3>2 DEF ShownIsPolicy, HonestPolicies, HonestConvergence, Shown
    <3>. QED
      BY <2>1, <3>1, <3>2
  <2>4. m_inner.status # "running" => Shown' = Shown
    BY <1>1, <2>1 DEF InnerShows, Shown, Solution, SolutionErrAt, ShowsInner
  <2>5. Contract!Step
    BY <2>1, <2>3, <2>4, InnerStepContract
  <2>. QED
    BY <2>5 DEF Contract!Next
<1>4. CASE Restarted
  <2>1. PICK n \in 1..MaxUnits, r \in PolicySteps(m_inner), u \in 0..MaxUnits :
          /\ InnerStep(n, r, u) /\ r.status \notin {"running", "converged"}
          /\ RestartsLeft /\ reported' = "running"
    BY <1>4 DEF Restarted
  <2>2. m_inner.status = "running"
    BY <1>1, <2>1, WrapperAssumption DEF InnerShows, RestartsLeft, TypeOK
  <2>3. Shown' \in HonestPolicies
    BY <1>1, <2>1 DEF ShownIsPolicy, HonestPolicies, HonestConvergence, Shown
  <2>4. Contract!Step
    BY <2>1, <2>2, <2>3, InnerStepContract
  <2>. QED
    BY <2>4 DEF Contract!Next
<1>5. CASE Exhausted
  <2>1. PICK n \in 1..MaxUnits, r \in PolicySteps(m_inner), u \in 0..MaxUnits :
          /\ InnerStep(n, r, u) /\ r.status \notin {"running", "converged"}
          /\ TrackBest(r) /\ m_inner' = r /\ reported' = r.status
    BY <1>5 DEF Exhausted
  <2>2. Shown' \in HonestPolicies
    BY <1>1, <2>1 DEF ShownIsPolicy, HonestPolicies, HonestConvergence, Shown
  <2>3. ASSUME m_inner.status # "running" PROVE Shown' = Shown
    <3>1. r = m_inner /\ [q |-> Canonical[r.q], errAt |-> r.errAt] \in ended
      BY <1>1, <2>1, <2>3 DEF InnerShows
    <3>2. m_best' = m_best
      BY <1>1, <2>1, <3>1, TrackBestBeats
    <3>. QED
      BY <1>1, <2>1, <3>1, <3>2 DEF InnerShows, Shown, Solution, SolutionErrAt, ShowsInner
  <2>4. Contract!Step
    BY <2>1, <2>2, <2>3, InnerStepContract
  <2>. QED
    BY <2>4 DEF Contract!Next
<1>6. CASE Abort
  <2>1. Shown'.status = "stalled" /\ Shown' \in Policy
    BY <1>6 DEF Abort, Shown, ShownIsPolicy, Policy, IkStatus
  <2>2. Shown' \in AbortOutcomes(Shown)
    BY <2>1 DEF AbortOutcomes
  <2>. QED
    BY <1>6, <2>2, ContractVocabulary DEF Abort, Contract!Next, Contract!Abort, Shown
<1>7. CASE AbortedStep
  <2>1. Shown.status = "stalled" /\ Shown' = Shown /\ billed' = 0
    BY <1>7 DEF AbortedStep, Shown, Solution, SolutionErrAt, ShowsInner
  <2>2. Shown' \in PolicySteps(Shown) /\ billed' \in UnitsBilled(Shown, 1)
    BY <2>1 DEF PolicySteps, UnitsBilled
  <2>3. 1 \in 1..MaxUnits
    BY WrapperAssumption
  <2>. QED
    BY <2>2, <2>3, ContractVocabulary DEF Contract!Next, Contract!Step, Shown
<1>8. CASE UNCHANGED vars
  BY <1>8 DEF vars, Contract!vars, Solution, SolutionErrAt, ShowsInner
<1>. QED
  BY <1>2, <1>3, <1>4, <1>5, <1>6, <1>7, <1>8 DEF Next

\* A driver cannot tell the wrapper from a policy of its own, whatever policy
\* it wraps and however often it restarts it.
THEOREM WrapperIsPolicy == Spec => RefinesContract
<1>1. TypeOK => ShownIsPolicy
  BY ShownType DEF ShownIsPolicy
<1>2. Spec => [](TypeOK /\ BestSoFar /\ InnerShows /\ ShownIsPolicy)
  BY <1>1, TypeCorrect, BeatsCorrect, InnerShowsCorrect, PTL
<1>3. TypeOK /\ BestSoFar /\ InnerShows /\ ShownIsPolicy /\ ShownIsPolicy' /\ [Next]_vars
        => [Contract!Next]_(Contract!vars)
  BY NextContract
<1>. QED
  BY <1>2, <1>3, InitContract, PTL DEF Spec, RefinesContract, Contract!Spec
=============================================================================
