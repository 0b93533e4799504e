---------------------------- MODULE PoliciesProofs ----------------------------
(***************************************************************************)
(* What holds of every concrete policy, for every configuration space, any *)
(* caps and any number of restarts, and that the policies are what         *)
(* PolicyContract says of a solve policy.                                  *)
(*                                                                         *)
(* The proofs go over the iterations twice: once per policy, to say what   *)
(* one pass through the body of its loop may do (the lemmas on Moved,      *)
(* BoxKept, Honest and CapKept), and once over the calls of the driver.    *)
(* The last part is about the ring of error norms that their stall checks  *)
(* share: it decides as an unbounded history would.                        *)
(***************************************************************************)
EXTENDS Policies, ErrorRing, TLAPS

\* The squares ErrorNorm adds up are natural.
LEMMA SquareType == \A a \in Nat : a * a \in Nat
OBVIOUS

\* The error norm of a configuration is a natural.
LEMMA ErrorNormType == \A q \in Configs : ErrorNorm(q) \in Nat
<1>1. ASSUME NEW q \in Configs PROVE ErrorNorm(q) \in Nat
  <2>1. Ang[q] \in Nat /\ Lin[q] \in Nat
    BY SpaceAssumption
  <2>2. Ang[q] * Ang[q] \in Nat /\ Lin[q] * Lin[q] \in Nat
    BY <2>1, SquareType
  <2>. QED
    BY <2>2 DEF ErrorNorm
<1>. QED
  BY <1>1

\* One pass through the loop of step(): it is made in a call and leaves what the driver
\* sees alone, and it bills and counts a unit, or neither; only a call of NLopt that
\* ends without a result is billed without being counted.
LoopStep ==
  /\ Looping
  /\ UNCHANGED <<build, asked, shown, spent, billed, pc>>
  /\ \/ units' = units /\ m_iterations' = m_iterations
     \/ units' = units + 1 /\ m_iterations' = m_iterations + 1
     \/ /\ units' = units + 1 /\ m_iterations' = m_iterations
        /\ solver \in NloptSolvers /\ m_status' # "running"

\* Where the pass leaves the members every policy has.
Moved ==
  /\ m_q' \in Configs /\ m_error_at' \in Configs \cup {NoConfig}
  /\ m_status' \in IkStatus /\ m_aborted' = m_aborted

\* The policies whose converged is a promise about the joint limits.
Promising == NativeSolvers \cup {"argmin_lm", "projected_lm"} \cup NloptSolvers

\* Where the working configuration is in the limits after a pass.
BoxKept ==
  /\ solver \in BoxSolvers => m_q' \in InLimits
  /\ m_status' = "converged" /\ solver \in Promising => m_q' \in InLimits
  /\ m_status' = "running" /\ build[2] # "no_limits" => m_q' \in InLimits

\* A pass that converges met the pose where the policy stands, and reports that error.
Honest ==
  KeepsContract =>
    /\ m_status' = "converged" => PoseMet(m_q') /\ m_error_at' = m_q'
    /\ solver = "lbfgsb" => m_error_at' = m_q'

\* A pass that goes on was counted, and was not the attempt's last.
CapKept ==
  m_status' = "running" => m_iterations' = m_iterations + 1 /\ m_iterations' < MaxIterations

------------------------------------------------------------------------------
(* The configuration never leaves the limits *)

\* The working configuration of a policy that clamps its start is in the limits.
InBox == pc # "new" /\ solver \in BoxSolvers => m_q \in InLimits

\* Where L-BFGS-B does not centre in the null space, its cached error is that of m_q.
CachedError ==
  pc # "new" /\ KeepsContract /\ solver = "lbfgsb" => m_error_at = m_q

\* Every build names a limits policy.
LEMMA BuildType ==
  ASSUME TypeOK
  PROVE  solver \in Solvers /\ build[2] \in LimitsPolicies
BY FrameAssumption, BuildsAssumption DEF TypeOK, solver

\* The limits policies stay among the configurations; those that do anything cut to
\* the limits, and only null-space centring moves what is already in the limits.
LEMMA EnforcedType ==
  ASSUME TypeOK, NEW q \in Configs, NEW r \in Enforced(q)
  PROVE  /\ r \in Configs
         /\ build[2] # "no_limits" \/ q \in InLimits => r \in InLimits
         /\ build[2] # "null_space_limits" /\ q \in InLimits => r = q
<1>1. build[2] \in {"no_limits", "clamp_limits", "null_space_limits"}
  BY BuildType DEF LimitsPolicies
<1>2. \A x \in Configs : Clamp[x] \in InLimits /\ Clamp[x] \in Configs
  BY SpaceAssumption
<1>3. CASE build[2] = "no_limits"
  BY <1>3 DEF Enforced
<1>4. CASE build[2] = "clamp_limits"
  BY <1>2, <1>4, SpaceAssumption DEF Enforced
<1>5. CASE build[2] = "null_space_limits"
  BY <1>2, <1>5 DEF Enforced
<1>. QED
  BY <1>1, <1>3, <1>4, <1>5

\* Unwinding full turns changes the configuration, not the pose.
LEMMA CanonicalType ==
  ASSUME NEW q \in Configs
  PROVE  /\ Canonical[q] \in Configs
         /\ PoseMet(Canonical[q]) <=> PoseMet(q)
         /\ ErrorNorm(Canonical[q]) = ErrorNorm(q)
BY SpaceAssumption DEF PoseMet, ErrorNorm

------------------------------------------------------------------------------
(* One pass through the loop *)

\* Whatever the policy, a pass is a pass of step()'s loop.
LEMMA IterateLoops ==
  ASSUME Iterate
  PROVE  LoopStep
<1>1. CASE NativeIterate
  <2>1. Looping /\ (Bills \/ BillsNothing) /\ UNCHANGED <<frame, pc>>
    BY <1>1 DEF NativeIterate, Lm, Dls, Newton, Lbfgsb, LmConverged, LmOverflow,
         LmAccepted, LmRejected, AtCap, DlsConverged, DlsMoved, NewtonConverged,
         NewtonMoved, LbfgsbConverged, LbfgsbAtCap, LbfgsbNoDescent, LbfgsbMoved,
         SettleTrial, SettleThroughGate, Settle
  <2>. QED
    BY <2>1 DEF LoopStep, frame, Bills, BillsNothing
<1>2. CASE AdapterIterate
  <2>1. Looping /\ (Bills \/ BillsNothing) /\ UNCHANGED <<frame, pc>>
    BY <1>2 DEF AdapterIterate, Bobyqa, ArgminLbfgsb, Mma, Gcmma, NwSqp,
         AugmentedLagrangian, Cmaes, ArgminLm, AdapterTurn, NoWork
  <2>. QED
    BY <2>1 DEF LoopStep, frame, Bills, BillsNothing
<1>3. CASE RestartingIterate
  <2>1. PICK x : Judge(x)
    BY <1>3 DEF RestartingIterate, FilterSlsqp, FilterNwSqp, ArgminSlsqp, ProjectedGn,
         ProjectedGradientGn, FilterTurn, AttemptTurn
  <2>. QED
    BY <2>1 DEF Judge, LoopStep, frame, Bills
<1>4. CASE NloptIterate
  <2>1. /\ Looping /\ units' = units + 1 /\ solver \in NloptSolvers
        /\ UNCHANGED <<frame, pc>>
        /\ \/ m_iterations' = m_iterations /\ m_status' # "running"
           \/ m_iterations' = m_iterations + 1
    BY <1>4 DEF NloptIterate, NloptSlsqp, NloptBobyqa, NloptTurn, Failure, Roundoff,
         Returned, NloptSolvers
  <2>. QED
    BY <2>1 DEF LoopStep, frame
<1>5. CASE ProjectedIterate
  <2>1. InIteration
    BY <1>5 DEF ProjectedIterate, PoseReached, AttemptAtCap, AttemptMoved, AttemptStalled
  <2>. QED
    BY <2>1 DEF InIteration, LoopStep, frame, Bills
<1>. QED
  BY <1>1, <1>2, <1>3, <1>4, <1>5 DEF Iterate

\* The members of a policy and the bounds of one attempt.
LEMMA MembersType ==
  ASSUME TypeOK
  PROVE  /\ m_q \in Configs /\ m_error_at \in Configs \cup {NoConfig}
         /\ m_iterations \in Nat /\ MaxIterations \in Int
         /\ InLimits \subseteq Configs
         /\ NoConfig \notin Configs
BY FrameAssumption, SpaceAssumption, NoConfigAssumption DEF TypeOK

\* The statuses an iteration ends with.
LEMMA StatusType ==
  /\ "running" \in IkStatus /\ "converged" \in IkStatus /\ "stalled" \in IkStatus
  /\ "diverged" \in IkStatus /\ "joint_limit_hit" \in IkStatus
  /\ "iteration_limit" \in IkStatus /\ StallChecks \subseteq IkStatus
BY DEF IkStatus, StallChecks

\* What is taken for granted before a pass.
BeforePass == TypeOK /\ InBox /\ CachedError

\* The gate stores a configuration in the limits, or ends the attempt without it.
LEMMA GateKeepsBox ==
  ASSUME BeforePass, Looping, solver \in {"lm", "dls"}, PoseMet(m_q), SettleThroughGate
  PROVE  Moved /\ BoxKept /\ Honest /\ CapKept
<1>1. m_q \in Configs
  BY MembersType DEF BeforePass
<1>2. /\ m_q' = Canonical[m_q] /\ m_error_at' = Canonical[m_q]
      /\ m_status' = IF Canonical[m_q] \in InLimits THEN "converged" ELSE "joint_limit_hit"
      /\ m_aborted' = m_aborted
  BY DEF SettleThroughGate, Settle, restarting
<1>. QED
  BY <1>1, <1>2, CanonicalType, StatusType
     DEF Moved, BoxKept, Honest, CapKept, BoxSolvers

\* Settling on a trial: in the limits when the trial is or when the attempt goes on
\* with the limits enforced, and never converged.
LEMMA TrialKeepsBox ==
  ASSUME BeforePass, NEW trial \in Configs, NEW at \in Configs, SettleTrial(trial, at)
  PROVE  /\ Moved /\ m_status' # "converged"
         /\ trial \in InLimits => m_q' \in InLimits
         /\ m_status' = "running" /\ build[2] # "no_limits" => m_q' \in InLimits
<1>1. PICK check \in StallChecks :
        \E q \in IF check = "running" THEN Enforced(trial) ELSE {trial} :
          Settle(q, at, check)
  BY DEF SettleTrial
<1>2. PICK q \in IF check = "running" THEN Enforced(trial) ELSE {trial} :
        Settle(q, at, check)
  BY <1>1
<1>3. q \in Configs /\ (check = "running" => q \in Enforced(trial)) /\ (check # "running" => q = trial)
  BY <1>2, EnforcedType DEF BeforePass
<1>4. /\ m_q' = q /\ m_error_at' = at /\ m_status' = check /\ m_aborted' = m_aborted
  BY <1>2 DEF Settle, restarting
<1>5. check # "converged" /\ check \in IkStatus
  BY StatusType DEF StallChecks
<1>. QED
  BY <1>3, <1>4, <1>5, EnforcedType DEF BeforePass, Moved

\* The caps: a pass that found it was not the last and billed a unit was counted.
LEMMA BilledIsCounted ==
  ASSUME BeforePass, ~CapReached, Bills
  PROVE  CapKept
BY MembersType DEF BeforePass, CapReached, Bills, CapKept

\* The native policies.
LEMMA NativePass ==
  ASSUME BeforePass, NativeIterate
  PROVE  Moved /\ BoxKept /\ Honest /\ CapKept /\ UNCHANGED restarting
<1>. Looping /\ UNCHANGED restarting /\ pc # "new"
  BY DEF NativeIterate, Lm, Dls, Newton, Lbfgsb, Looping, LmConverged, LmOverflow,
       LmAccepted, LmRejected, AtCap, DlsConverged, DlsMoved, NewtonConverged,
       NewtonMoved, LbfgsbConverged, LbfgsbAtCap, LbfgsbNoDescent, LbfgsbMoved,
       SettleTrial, SettleThroughGate, Settle
<1>. m_aborted' = m_aborted
  BY DEF restarting
<1>. m_q \in Configs /\ InLimits \subseteq Configs /\ TypeOK /\ NoConfig \notin Configs
  BY MembersType DEF BeforePass
<1>1. ASSUME solver \in {"lm", "dls", "newton_raphson"}, AtCap
      PROVE  Moved /\ BoxKept /\ Honest /\ CapKept
  BY <1>1, StatusType
     DEF AtCap, Settle, Moved, BoxKept, Honest, CapKept, BeforePass, InBox, BoxSolvers
<1>2. ASSUME NEW trial \in Configs, NEW at \in Configs, ~CapReached, Bills,
             SettleTrial(trial, at), solver \in NativeSolvers \ {"lbfgsb"},
             solver = "newton_raphson" => trial \in InLimits
      PROVE  Moved /\ BoxKept /\ Honest /\ CapKept
  BY <1>2, TrialKeepsBox, BilledIsCounted DEF BoxKept, Honest, BoxSolvers, NativeSolvers
<1>3. CASE Lm
  <2>1. CASE LmConverged
    BY <1>3, <2>1, GateKeepsBox DEF Lm, LmConverged
  <2>2. CASE AtCap
    BY <1>1, <1>3, <2>2 DEF Lm
  <2>3. CASE LmOverflow
    BY <1>3, <2>3, StatusType, BilledIsCounted
       DEF Lm, LmOverflow, Settle, Moved, BoxKept, Honest, BoxSolvers
  <2>4. CASE LmAccepted
    BY <1>2, <1>3, <2>4 DEF Lm, LmAccepted, NativeSolvers
  <2>5. CASE LmRejected
    <3>1. PICK q \in Enforced(m_q) : Settle(q, m_q, "running")
      BY <2>5 DEF LmRejected
    <3>2. CapKept
      BY <2>5, BilledIsCounted DEF LmRejected
    <3>. QED
      BY <1>3, <3>1, <3>2, EnforcedType, StatusType
         DEF Lm, Settle, Moved, BoxKept, Honest, BoxSolvers
  <2>. QED
    BY <1>3, <2>1, <2>2, <2>3, <2>4, <2>5 DEF Lm
<1>4. CASE Dls
  <2>1. CASE DlsConverged
    BY <1>4, <2>1, GateKeepsBox DEF Dls, DlsConverged
  <2>2. CASE AtCap
    BY <1>1, <1>4, <2>2 DEF Dls
  <2>3. CASE DlsMoved
    BY <1>2, <1>4, <2>3 DEF Dls, DlsMoved, NativeSolvers
  <2>. QED
    BY <1>4, <2>1, <2>2, <2>3 DEF Dls
<1>5. CASE Newton
  <2>1. CASE NewtonConverged
    BY <1>5, <2>1, StatusType
       DEF Newton, NewtonConverged, Settle, Moved, BoxKept, Honest, CapKept, BeforePass,
           InBox, BoxSolvers
  <2>2. CASE AtCap
    BY <1>1, <1>5, <2>2 DEF Newton
  <2>3. CASE NewtonMoved
    BY <1>2, <1>5, <2>3 DEF Newton, NewtonMoved, NativeSolvers
  <2>. QED
    BY <1>5, <2>1, <2>2, <2>3 DEF Newton
<1>6. CASE Lbfgsb
  <2>. /\ m_q \in InLimits /\ (KeepsContract => m_error_at = m_q)
       /\ m_error_at \in Configs \cup {NoConfig}
    BY <1>6, MembersType DEF Lbfgsb, BeforePass, InBox, BoxSolvers, CachedError
  <2>1. CASE LbfgsbConverged
    BY <2>1, StatusType
       DEF LbfgsbConverged, Settle, Moved, BoxKept, Honest, CapKept
  <2>2. CASE LbfgsbAtCap
    BY <2>2, StatusType
       DEF LbfgsbAtCap, Settle, Moved, BoxKept, Honest, CapKept
  <2>3. CASE LbfgsbNoDescent
    <3>1. CapKept
      BY <2>3, BilledIsCounted DEF LbfgsbNoDescent
    <3>. QED
      BY <2>3, <3>1, StatusType
         DEF LbfgsbNoDescent, StallChecks, Settle, Moved, BoxKept, Honest
  <2>4. CASE LbfgsbMoved
    <3>1. PICK trial \in InLimits, check \in StallChecks :
            \E q \in Enforced(trial) : Settle(q, trial, check)
      BY <2>4 DEF LbfgsbMoved
    <3>2. PICK q \in Enforced(trial) : Settle(q, trial, check)
      BY <3>1
    <3>3. trial \in Configs /\ q \in InLimits /\ q \in Configs
      BY <3>2, EnforcedType
    <3>4. KeepsContract => q = trial
      BY <1>6, <3>2, <3>3, EnforcedType DEF KeepsContract, Lbfgsb
    <3>5. CapKept
      BY <2>4, BilledIsCounted DEF LbfgsbMoved
    <3>6. check # "converged" /\ check \in IkStatus
      BY StatusType DEF StallChecks
    <3>. QED
      BY <3>2, <3>3, <3>4, <3>5, <3>6
         DEF Settle, Moved, BoxKept, Honest
  <2>. QED
    BY <1>6, <2>1, <2>2, <2>3, <2>4 DEF Lbfgsb
<1>. QED
  BY <1>3, <1>4, <1>5, <1>6 DEF NativeIterate

\* What an adapter makes of an iterate is a status, and goes on only below the cap.
LEMMA VerdictType ==
  ASSUME NEW check \in StallChecks, NEW argmin
  PROVE  /\ Verdict(check, argmin) \in IkStatus \ {"converged"}
         /\ Verdict(check, argmin) = "running" => ~CapReached
BY StatusType DEF Verdict, StallChecks, IkStatus

\* The adapters of one attempt.
LEMMA AdapterPass ==
  ASSUME BeforePass, AdapterIterate
  PROVE  Moved /\ BoxKept /\ Honest /\ CapKept /\ UNCHANGED restarting
<1>. TypeOK
  BY DEF BeforePass
<1>1. CASE NoWork
  BY <1>1, MembersType, StatusType
     DEF NoWork, AdapterIterate, Bobyqa, ArgminLbfgsb, Mma, Gcmma, NwSqp,
         AugmentedLagrangian, Cmaes, ArgminLm, restarting, Moved, BoxKept, Honest, CapKept,
         BoxSolvers
<1>2. CASE ~NoWork /\ solver \in Adapters /\ AdapterTurn
  <2>1. Bills /\ UNCHANGED restarting
    BY <1>2 DEF AdapterTurn
  <2>2. PICK x \in Configs, check \in StallChecks, argmin \in ArgminStatus :
          /\ m_error_at' = x
          /\ m_status' = IF PoseMet(x) THEN "converged" ELSE Verdict(check, argmin)
          /\ IF m_status' = "running" THEN m_q' \in Enforced(x) ELSE m_q' = x
    BY <1>2 DEF AdapterTurn
  <2>3. m_status' \in IkStatus /\ (m_status' = "converged" => PoseMet(x))
    BY <2>2, VerdictType, StatusType
  <2>4. Moved
    BY <2>1, <2>2, <2>3, EnforcedType DEF Moved, restarting
  <2>5. BoxKept
    BY <1>2, <2>2, EnforcedType
       DEF BoxKept, BoxSolvers, Adapters, Promising, NativeSolvers, NloptSolvers
  <2>6. Honest
    BY <1>2, <2>2, <2>3 DEF Honest, Adapters
  <2>7. CapKept
    <3>1. m_status' = "running" => ~CapReached
      BY <2>2, VerdictType
    <3>. QED
      BY <2>1, <3>1, BilledIsCounted DEF CapKept
  <2>. QED
    BY <2>1, <2>4, <2>5, <2>6, <2>7
<1>3. CASE ~NoWork /\ ArgminLm
  <2>1. Bills /\ UNCHANGED restarting /\ solver = "argmin_lm"
    BY <1>3 DEF ArgminLm
  <2>2. PICK x \in Configs, check \in StallChecks, argmin \in ArgminStatus :
          \E y \in Enforced(x) :
            LET q == IF PoseMet(y) THEN Canonical[y] ELSE y
            IN  /\ m_q' = q /\ m_error_at' = q
                /\ m_status' = IF ~PoseMet(y) THEN Verdict(check, argmin)
                               ELSE IF q \in InLimits THEN "converged"
                               ELSE "joint_limit_hit"
    BY <1>3 DEF ArgminLm
  <2>3. PICK y \in Enforced(x) :
          LET q == IF PoseMet(y) THEN Canonical[y] ELSE y
          IN  /\ m_q' = q /\ m_error_at' = q
              /\ m_status' = IF ~PoseMet(y) THEN Verdict(check, argmin)
                             ELSE IF q \in InLimits THEN "converged"
                             ELSE "joint_limit_hit"
    BY <2>2
  <2>4. y \in Configs /\ (build[2] # "no_limits" => y \in InLimits)
    BY EnforcedType
  <2>5. CASE PoseMet(y)
    BY <2>1, <2>3, <2>4, <2>5, CanonicalType, StatusType
       DEF restarting, Moved, BoxKept, Honest, CapKept, BoxSolvers
  <2>6. CASE ~PoseMet(y)
    <3>1. /\ m_status' \in IkStatus \ {"converged"}
          /\ m_status' = "running" => ~CapReached
      BY <2>3, <2>6, VerdictType
    <3>2. CapKept
      BY <2>1, <3>1, BilledIsCounted DEF CapKept
    <3>. QED
      BY <2>1, <2>3, <2>4, <2>6, <3>1, <3>2 DEF restarting, Moved, BoxKept, Honest, BoxSolvers
  <2>. QED
    BY <2>1, <2>5, <2>6
<1>. QED
  BY <1>1, <1>2, <1>3
     DEF AdapterIterate, Adapters, Bobyqa, ArgminLbfgsb, Mma, Gcmma, NwSqp,
         AugmentedLagrangian, Cmaes, ArgminLm

------------------------------------------------------------------------------
(* Restarts, and the best of what was tried *)

\* The attempts' caps: a cap below one still allows the iteration that notices it.
AttemptCap == IF MaxIterations > 1 THEN MaxIterations ELSE 1

\* The solvers whose attempts have a cap each.
ManyAttempts == AttemptSolvers \cup {"projected_lm"}

\* The restarts made are no more than those counted, nor than those allowed.
RestartsLeft == restarted <= m_restart_count /\ restarted <= MaxRestarts

\* A pass keeps that, and the units of the attempts: one that goes on is counted in an
\* attempt below its cap, or begins the next attempt.
RestartKept ==
  /\ m_attempt_iterations' \in Nat /\ m_restart_count' \in Nat /\ restarted' \in Nat
  /\ restarted' <= m_restart_count' /\ restarted' <= MaxRestarts
  /\ restarted' \in {restarted, restarted + 1}
  /\ solver \in ManyAttempts /\ m_status' = "running" =>
       \/ /\ restarted' = restarted
          /\ m_attempt_iterations' = m_attempt_iterations + 1
          /\ m_attempt_iterations' < AttemptCap
       \/ restarted' = restarted + 1 /\ m_attempt_iterations' = 0

\* The best is the best of what was tried: feasible if one of those is, and with the
\* smallest error among those of its kind.
IsBestOf(b, T) ==
  /\ b = NoConfig <=> T = {}
  /\ T # {} => \E x \in T : b = Canonical[x]
  /\ \A x \in T :
       /\ Canonical[x] \in InLimits => b \in InLimits
       /\ (Canonical[x] \in InLimits) = (b \in InLimits) => ErrorNorm(b) <= ErrorNorm(x)

\* update_best() and what it keeps.
LEMMA BestKept ==
  ASSUME NEW x \in Configs, tried \subseteq Configs, IsBestOf(m_best_q, tried),
         UpdateBest(x), tried' = tried \cup {x}
  PROVE  IsBestOf(m_best_q', tried') /\ tried' \subseteq Configs /\ tried' # {}
         /\ m_best_q' \in Configs
<1> DEFINE q == Canonical[x]
<1>. NoConfig \notin Configs
  BY NoConfigAssumption
<1>1. q \in Configs /\ ErrorNorm(q) = ErrorNorm(x) /\ ErrorNorm(x) \in Nat
  BY CanonicalType, ErrorNormType
<1>2. /\ m_best_q = NoConfig <=> tried = {}
      /\ tried # {} => m_best_q \in Configs /\ ErrorNorm(m_best_q) \in Nat
      /\ \A y \in tried : ErrorNorm(y) \in Nat
  BY CanonicalType, ErrorNormType DEF IsBestOf
<1>3. CASE m_best_q' = q /\ \/ tried = {}
                            \/ q \in InLimits /\ m_best_q \notin InLimits
                            \/ /\ (q \in InLimits) = (m_best_q \in InLimits)
                               /\ ErrorNorm(q) < ErrorNorm(m_best_q)
  BY <1>1, <1>2, <1>3 DEF IsBestOf
<1>4. CASE /\ m_best_q' = m_best_q /\ tried # {}
           /\ ~(q \in InLimits /\ m_best_q \notin InLimits)
           /\ ~((q \in InLimits) = (m_best_q \in InLimits)
                  /\ ErrorNorm(q) < ErrorNorm(m_best_q))
  BY <1>1, <1>2, <1>4 DEF IsBestOf
<1>. QED
  BY <1>2, <1>3, <1>4 DEF UpdateBest

\* What the passes of the policies that restart start from.
BeforeRestart == BeforePass /\ RestartsLeft /\ IsBestOf(m_best_q, tried)

\* What is tried stays well typed, and the policies under the contract keep no best.
TriedKept ==
  /\ IsBestOf(m_best_q', tried') /\ tried' \subseteq Configs
  /\ KeepsContract => tried' = tried

\* The counters of the restarts and the caps are numbers.
LEMMA CountersType ==
  ASSUME TypeOK
  PROVE  /\ m_attempt_iterations \in Nat /\ m_restart_count \in Nat /\ restarted \in Nat
         /\ MaxRestarts \in Nat /\ MaxIterations \in Int /\ AttemptCap \in Nat \ {0}
         /\ MaxIterations <= AttemptCap
         /\ m_attempt_iterations + 1 \in Nat /\ m_restart_count + 1 \in Nat
         /\ restarted + 1 \in Nat
BY FrameAssumption DEF TypeOK, AttemptCap

\* The start of an iteration of the adapters that restart.
LEMMA JudgeKept ==
  ASSUME BeforeRestart, NEW x \in Configs, Judge(x),
         solver \in AttemptSolvers \cup FilterSolvers
  PROVE  TriedKept /\ m_error_at' = x /\ m_aborted' = m_aborted /\ Bills
<1>. TypeOK /\ tried \subseteq Configs
  BY DEF BeforeRestart, BeforePass, TypeOK
<1>1. m_error_at' = x /\ m_aborted' = m_aborted /\ Bills
  BY DEF Judge
<1>2. CASE KeepsBest
  <2>1. ~KeepsContract
    BY <1>2 DEF KeepsBest, KeepsContract
  <2>. QED
    BY <1>1, <1>2, <2>1, BestKept DEF Judge, TriedKept, BeforeRestart
<1>3. CASE ~KeepsBest
  BY <1>1, <1>3 DEF Judge, TriedKept, BeforeRestart, best
<1>. QED
  BY <1>1, <1>2, <1>3

\* How such an iteration comes out: it ends the attempt where it was judged, goes on
\* with the limits enforced, or restarts within the limits.
LEMMA OutcomeKept ==
  ASSUME BeforeRestart, NEW x \in Configs, NEW status \in IkStatus \ {"running"},
         status = "converged" => PoseMet(x),
         m_error_at' = x, m_aborted' = m_aborted,
         solver \in AttemptSolvers \cup FilterSolvers,
         \/ End(x, status) \/ Continue(x) \/ Restart
  PROVE  Moved /\ BoxKept /\ Honest
<1>. TypeOK
  BY DEF BeforeRestart, BeforePass
<1>1. /\ solver \notin BoxSolvers /\ solver \notin Promising /\ solver # "lbfgsb"
  BY DEF AttemptSolvers, FilterSolvers, BoxSolvers, Promising, NativeSolvers, NloptSolvers
<1>2. CASE End(x, status)
  BY <1>1, <1>2 DEF End, Moved, BoxKept, Honest
<1>3. CASE Continue(x)
  BY <1>1, <1>3, EnforcedType, StatusType DEF Continue, Moved, BoxKept, Honest
<1>4. CASE Restart
  BY <1>1, <1>4, MembersType, StatusType DEF Restart, Moved, BoxKept, Honest
<1>. QED
  BY <1>2, <1>3, <1>4

\* The adapters that restart.
LEMMA RestartingPass ==
  ASSUME BeforeRestart, RestartingIterate
  PROVE  /\ Moved /\ BoxKept /\ Honest /\ RestartKept /\ TriedKept
         /\ solver \notin ManyAttempts => CapKept
<1>. TypeOK /\ BeforePass
  BY DEF BeforeRestart, BeforePass
<1>1. ASSUME solver \in FilterSolvers, FilterTurn
      PROVE  Moved /\ BoxKept /\ Honest /\ RestartKept /\ TriedKept /\ CapKept
  <2>1. PICK x \in Configs, check \in StallChecks, terminal \in BOOLEAN :
          /\ Judge(x)
          /\ \/ PoseMet(x) /\ End(x, "converged")
             \/ ~PoseMet(x) /\ CapReached /\ End(x, "iteration_limit")
             \/ ~PoseMet(x) /\ ~CapReached /\ check # "running" /\ End(x, check)
             \/ /\ ~PoseMet(x) /\ ~CapReached /\ check = "running"
                /\ \/ terminal /\ Restart
                   \/ terminal /\ OutOfRestarts /\ End(x, "stalled")
                   \/ ~terminal /\ Continue(x)
    BY <1>1 DEF FilterTurn
  <2>2. TriedKept /\ m_error_at' = x /\ m_aborted' = m_aborted /\ Bills
    BY <1>1, <2>1, JudgeKept
  <2>3. /\ Continue(x) \/ Restart \/ \E status \in IkStatus \ {"running"} :
                                        /\ End(x, status)
                                        /\ status = "converged" => PoseMet(x)
        /\ m_status' = "running" => ~CapReached
    BY <2>1, StatusType DEF StallChecks, End, Continue, Restart
  <2>4. Moved /\ BoxKept /\ Honest
    BY <1>1, <2>2, <2>3, OutcomeKept, StatusType
  <2>5. CapKept
    BY <2>2, <2>3, BilledIsCounted DEF CapKept
  <2>6. RestartKept
    BY <1>1, <2>3, CountersType
       DEF RestartKept, End, Continue, Restart, BeforeRestart, RestartsLeft, ManyAttempts,
           FilterSolvers, AttemptSolvers
  <2>. QED
    BY <2>2, <2>4, <2>5, <2>6
<1>2. ASSUME solver \in AttemptSolvers, AttemptTurn
      PROVE  Moved /\ BoxKept /\ Honest /\ RestartKept /\ TriedKept
  <2> DEFINE capped == m_attempt_iterations + 1 >= MaxIterations
             over(terminal, check) == terminal \/ capped \/ check # "running"
             reason(terminal, check) ==
               IF check # "running" THEN check
               ELSE IF terminal THEN "stalled" ELSE "iteration_limit"
  <2>1. PICK x \in Configs, check \in StallChecks, terminal \in BOOLEAN :
          /\ Judge(x)
          /\ \/ PoseMet(x) /\ End(x, "converged")
             \/ ~PoseMet(x) /\ over(terminal, check) /\ Restart
             \/ /\ ~PoseMet(x) /\ over(terminal, check) /\ OutOfRestarts
                /\ End(x, reason(terminal, check))
             \/ ~PoseMet(x) /\ ~over(terminal, check) /\ Continue(x)
    BY <1>2 DEF AttemptTurn
  <2>2. TriedKept /\ m_error_at' = x /\ m_aborted' = m_aborted /\ Bills
    BY <1>2, <2>1, JudgeKept
  <2>3. reason(terminal, check) \in IkStatus \ {"running", "converged"}
    BY StatusType DEF StallChecks
  <2>4. \/ Continue(x) /\ ~capped
        \/ Restart
        \/ \E status \in IkStatus \ {"running"} :
             End(x, status) /\ (status = "converged" => PoseMet(x))
    BY <2>1, <2>3, StatusType
  <2>5. Moved /\ BoxKept /\ Honest
    BY <1>2, <2>2, <2>4, OutcomeKept, StatusType
  <2>6. RestartKept
    BY <1>2, <2>4, CountersType
       DEF RestartKept, End, Continue, Restart, BeforeRestart, RestartsLeft, ManyAttempts
  <2>. QED
    BY <2>2, <2>5, <2>6
<1>. QED
  BY <1>1, <1>2
     DEF RestartingIterate, FilterSlsqp, FilterNwSqp, ArgminSlsqp, ProjectedGn,
         ProjectedGradientGn, FilterSolvers, AttemptSolvers, ManyAttempts

\* A policy that leaves the members of the restarts alone keeps what holds of them.
LEMMA UntouchedKept ==
  ASSUME BeforeRestart, solver \notin ManyAttempts, UNCHANGED restarting
  PROVE  RestartKept /\ TriedKept
<1>. TypeOK
  BY DEF BeforeRestart, BeforePass
<1>. QED
  BY CountersType
     DEF RestartKept, TriedKept, BeforeRestart, RestartsLeft, restarting, counters, best,
         TypeOK

\* The NLopt policies: every call leaves a configuration in the limits unless it
\* throws before it has moved, and a restart is made only when the count allows it.
LEMMA NloptPass ==
  ASSUME BeforeRestart, NloptIterate
  PROVE  /\ Moved /\ BoxKept /\ Honest /\ RestartKept /\ TriedKept
         /\ CapKept /\ solver \notin ManyAttempts
<1>. TypeOK /\ InLimits \subseteq Configs /\ m_q \in Configs
  BY MembersType DEF BeforeRestart, BeforePass
<1>1. /\ solver \in NloptSolvers /\ NloptTurn
      /\ solver \notin ManyAttempts /\ solver \notin BoxSolvers /\ solver # "lbfgsb"
  BY DEF NloptIterate, NloptSlsqp, NloptBobyqa, NloptSolvers, ManyAttempts,
       AttemptSolvers, BoxSolvers
<1>2. /\ m_aborted' = m_aborted /\ m_attempt_iterations' = m_attempt_iterations
      /\ TriedKept
  BY <1>1 DEF NloptTurn, best, TriedKept, BeforeRestart, TypeOK
<1>3. CASE Failure
  <2>1. RestartKept
    BY <1>1, <1>2, <1>3, CountersType DEF Failure, RestartKept, BeforeRestart, RestartsLeft
  <2>. QED
    BY <1>1, <1>2, <1>3, <2>1, MembersType, StatusType
       DEF Failure, Moved, BoxKept, Honest, CapKept
<1>4. CASE Roundoff
  <2>1. PICK x \in InLimits :
          /\ m_q' = x /\ m_error_at' = x
          /\ m_status' = IF PoseMet(x) THEN "converged" ELSE "stalled"
    BY <1>4 DEF Roundoff
  <2>2. RestartKept
    BY <1>1, <1>2, <1>4, CountersType DEF Roundoff, RestartKept, BeforeRestart, RestartsLeft
  <2>. QED
    BY <1>1, <1>2, <2>1, <2>2, StatusType DEF Moved, BoxKept, Honest, CapKept
<1>5. CASE \E x \in InLimits, result \in Results : Returned(x, result)
  <2>1. PICK x \in InLimits, result \in Results : Returned(x, result)
    BY <1>5
  <2> DEFINE conv == PoseMet(x)
             still == m_error_at # NoConfig /\ ErrorNorm(x) = ErrorNorm(m_error_at)
             needs == NeedsRestart(result, conv, still)
             count == CountRestart(needs)
             status == MapResult(result, conv, still, count < MaxRestarts)
             perturbs == needs /\ status = "running"
  <2>2. /\ m_iterations' = m_iterations + 1 /\ m_error_at' = x
        /\ m_restart_count' = count
        /\ restarted' = IF perturbs THEN restarted + 1 ELSE restarted
        /\ \E q \in IF perturbs THEN InLimits ELSE {x} :
             IF CapReached THEN m_q' = q /\ m_status' = "iteration_limit"
             ELSE m_q' \in Enforced(q) /\ m_status' = status
    BY <2>1 DEF Returned
  <2>3. /\ status \in {"converged", "diverged", "running", "stalled"}
        /\ status = "converged" => conv
        /\ conv => ~needs
        /\ perturbs => m_restart_count + 1 < MaxRestarts
        /\ count \in {m_restart_count, m_restart_count + 1}
        /\ perturbs => count = m_restart_count + 1
    BY DEF MapResult, NeedsRestart, CountRestart
  <2> HIDE DEF conv, still, needs, count, status, perturbs
  <2>4. PICK q \in IF perturbs THEN InLimits ELSE {x} :
             IF CapReached THEN m_q' = q /\ m_status' = "iteration_limit"
             ELSE m_q' \in Enforced(q) /\ m_status' = status
    BY <2>2
  <2>5. q \in InLimits /\ q \in Configs /\ (~perturbs => q = x)
    BY <2>4
  <2>6. /\ m_q' \in InLimits
        /\ m_status' = "running" => ~CapReached
        /\ m_status' = "converged" => /\ conv
                                      /\ build[2] # "null_space_limits" => m_q' = x
    BY <2>3, <2>4, <2>5, EnforcedType DEF perturbs
  <2>7. m_status' \in IkStatus
    BY <2>3, <2>4, StatusType
  <2>8. Honest
    BY <1>1, <2>2, <2>6 DEF Honest, KeepsContract, conv
  <2>9. CapKept
    BY <2>2, <2>6, MembersType DEF CapKept, CapReached
  <2>10. RestartKept
    BY <1>1, <1>2, <2>2, <2>3, CountersType DEF RestartKept, BeforeRestart, RestartsLeft
  <2>. QED
    BY <1>1, <1>2, <2>2, <2>6, <2>7, <2>8, <2>9, <2>10 DEF Moved, BoxKept
<1>. QED
  BY <1>1, <1>3, <1>4, <1>5 DEF NloptTurn

\* The end of an attempt of projected_lm: kept, and restarted in the limits if any
\* restart is left.
LEMMA AttemptOverKept ==
  ASSUME BeforeRestart, solver = "projected_lm", NEW q \in InLimits,
         NEW status \in IkStatus \ {"running", "converged"}, NEW n \in Nat,
         m_aborted' = m_aborted, AttemptOver(q, status, n)
  PROVE  Moved /\ BoxKept /\ Honest /\ RestartKept /\ TriedKept
<1>. TypeOK /\ InLimits \subseteq Configs /\ tried \subseteq Configs /\ ~KeepsContract
  BY MembersType DEF BeforeRestart, BeforePass, TypeOK, KeepsContract
<1>1. TriedKept
  BY BestKept DEF AttemptOver, Keep, BeforeRestart, TriedKept
<1>2. CASE m_restart_count >= MaxRestarts
  BY <1>1, <1>2, CountersType
     DEF AttemptOver, Moved, BoxKept, Honest, RestartKept, BeforeRestart, RestartsLeft
<1>3. CASE ~(m_restart_count >= MaxRestarts)
  <2>1. PICK seed \in InLimits : m_q' = seed /\ m_error_at' = seed
    BY <1>3 DEF AttemptOver
  <2>2. /\ m_status' = "running" /\ m_attempt_iterations' = 0
        /\ m_restart_count' = m_restart_count + 1 /\ restarted' = restarted + 1
    BY <1>3 DEF AttemptOver
  <2>3. RestartKept
    BY <1>3, <2>2, CountersType DEF RestartKept, BeforeRestart, RestartsLeft
  <2>. QED
    BY <1>1, <2>1, <2>2, <2>3, StatusType DEF Moved, BoxKept, Honest
<1>. QED
  BY <1>2, <1>3

\* projected_lm: no trial, restart or limits policy leaves the box, so that its gate
\* never has anything to refuse.
LEMMA ProjectedPass ==
  ASSUME BeforeRestart, ProjectedIterate
  PROVE  /\ Moved /\ BoxKept /\ Honest /\ RestartKept /\ TriedKept
         /\ solver \in ManyAttempts
<1>1. InIteration
  BY DEF ProjectedIterate, PoseReached, AttemptAtCap, AttemptMoved, AttemptStalled
<1>2. /\ TypeOK /\ InLimits \subseteq Configs /\ tried \subseteq Configs
      /\ solver = "projected_lm" /\ m_q \in InLimits /\ m_aborted' = m_aborted
      /\ solver \in ManyAttempts /\ ~KeepsContract
  BY <1>1, MembersType
     DEF InIteration, Looping, BeforeRestart, BeforePass, TypeOK, InBox, BoxSolvers,
         ManyAttempts, KeepsContract
<1>3. m_attempt_iterations \in Nat /\ m_attempt_iterations + 1 \in Nat
  BY <1>2, CountersType
<1>4. Canonical[m_q] = m_q
  BY <1>2, SpaceAssumption
<1>5. Trials \subseteq InLimits
  BY <1>2 DEF Trials
<1>6. CASE PoseReached
  <2>1. /\ m_q' = m_q /\ m_error_at' = m_q /\ m_status' = "converged"
        /\ Keep(m_q) /\ UNCHANGED counters
    BY <1>2, <1>4, <1>6 DEF PoseReached
  <2>2. TriedKept
    BY <1>2, <2>1, BestKept DEF Keep, BeforeRestart, TriedKept
  <2>3. RestartKept
    BY <1>2, <2>1, CountersType DEF counters, RestartKept, BeforeRestart, RestartsLeft
  <2>. QED
    BY <1>2, <2>1, <2>2, <2>3, StatusType DEF Moved, BoxKept, Honest
<1>7. CASE AttemptAtCap
  BY <1>2, <1>3, <1>7, AttemptOverKept, StatusType DEF AttemptAtCap
<1>8. CASE AttemptMoved
  <2>1. PICK q \in Trials : m_error_at' = q /\ m_q' \in Enforced(q)
    BY <1>8 DEF AttemptMoved
  <2>2. q \in InLimits /\ m_q' \in InLimits
    BY <1>2, <1>5, <2>1, EnforcedType
  <2>3. /\ ~LastOfAttempt /\ m_status' = "running"
        /\ m_attempt_iterations' = m_attempt_iterations + 1
        /\ UNCHANGED <<m_restart_count, restarted, best>>
    BY <1>8 DEF AttemptMoved
  <2>4. TriedKept
    BY <1>2, <2>3 DEF best, TriedKept, BeforeRestart
  <2>5. RestartKept
    BY <1>2, <2>3, CountersType DEF RestartKept, BeforeRestart, RestartsLeft, LastOfAttempt
  <2>. QED
    BY <1>2, <2>1, <2>2, <2>3, <2>4, <2>5, StatusType DEF Moved, BoxKept, Honest
<1>9. CASE AttemptStalled
  <2>1. PICK q \in Trials, check \in StallChecks \ {"running"} :
          AttemptOver(q, check, m_attempt_iterations + 1)
    BY <1>9 DEF AttemptStalled
  <2>. QED
    BY <1>2, <1>3, <1>5, <2>1, AttemptOverKept, StatusType DEF StallChecks
<1>. QED
  BY <1>6, <1>7, <1>8, <1>9, <1>2 DEF ProjectedIterate

\* One pass of any policy.
LEMMA IteratePass ==
  ASSUME BeforeRestart, Iterate
  PROVE  /\ LoopStep /\ Moved /\ BoxKept /\ Honest /\ RestartKept /\ TriedKept
         /\ solver \notin ManyAttempts => CapKept
<1>. BeforePass
  BY DEF BeforeRestart
<1>1. CASE NativeIterate
  <2>1. solver \notin ManyAttempts
    BY <1>1 DEF NativeIterate, Lm, Dls, Newton, Lbfgsb, ManyAttempts, AttemptSolvers
  <2>. QED
    BY <1>1, <2>1, NativePass, UntouchedKept, IterateLoops
<1>2. CASE AdapterIterate
  <2>1. solver \notin ManyAttempts
    BY <1>2 DEF AdapterIterate, Bobyqa, ArgminLbfgsb, Mma, Gcmma, NwSqp,
         AugmentedLagrangian, Cmaes, ArgminLm, ManyAttempts, AttemptSolvers
  <2>. QED
    BY <1>2, <2>1, AdapterPass, UntouchedKept, IterateLoops
<1>. QED
  BY <1>1, <1>2, RestartingPass, NloptPass, ProjectedPass, IterateLoops DEF Iterate

------------------------------------------------------------------------------
(* The calls of the driver: types *)

\* Units are counted only during a call, and a call is asked for at least one.
InCall ==
  /\ pc # "loop" => units = 0
  /\ pc = "loop" => asked \in 1..MaxUnits

\* What every other invariant rests on.
Core == TypeOK /\ InCall /\ InBox /\ CachedError /\ RestartsLeft /\ IsBestOf(m_best_q, tried)

\* Where the policies put a new problem: on the seed, clamped or not, with the error
\* evaluated there, or at max() with the configuration anywhere.
LEMMA SetupShape ==
  ASSUME TypeOK, Setup
  PROVE  \E q0 \in Configs, q \in Configs, at \in Configs \cup {NoConfig} :
           /\ SetupTo(q, at)
           /\ solver \in BoxSolvers => q \in InLimits /\ at = q
           /\ [q |-> q, errAt |-> at, status |-> "running"] \in PolicySetups(q0)
<1>0. \A x \in Configs : Clamp[x] \in Configs /\ Clamp[x] \in InLimits
  BY SpaceAssumption
<1>1. \A q0 \in Configs, q \in Configs :
        /\ [q |-> q, errAt |-> NoConfig, status |-> "running"] \in PolicySetups(q0)
        /\ q \in {q0, Clamp[q0]} =>
             [q |-> q, errAt |-> q, status |-> "running"] \in PolicySetups(q0)
  BY DEF PolicySetups
<1>2. CASE NativeSetup
  <2>1. PICK q0 \in Configs :
          SetupTo(IF ClampsStart THEN Clamp[q0] ELSE q0, IF ClampsStart THEN Clamp[q0] ELSE q0)
    BY <1>2 DEF NativeSetup
  <2> DEFINE q == IF ClampsStart THEN Clamp[q0] ELSE q0
  <2>2. q \in Configs /\ q \in {q0, Clamp[q0]} /\ (solver \in BoxSolvers => q \in InLimits)
    BY <1>0, <1>2 DEF ClampsStart, NativeSetup, NativeSolvers, BoxSolvers
  <2>. QED
    BY <1>1, <2>1, <2>2
<1>3. CASE AdapterSetup
  <2>1. SetupTo(m_q, NoConfig) /\ m_q \in Configs /\ solver \notin BoxSolvers
    BY <1>3, MembersType DEF AdapterSetup, Adapters, BoxSolvers
  <2>. QED
    BY <1>1, <2>1
<1>4. CASE RestartingSetup
  <2>1. PICK q \in Configs : SetupTo(q, NoConfig)
    BY <1>4, MembersType DEF RestartingSetup
  <2>2. solver \notin BoxSolvers
    BY <1>4 DEF RestartingSetup, AttemptSolvers, FilterSolvers, BoxSolvers
  <2>. QED
    BY <1>1, <2>1, <2>2
<1>5. CASE NloptSetup
  <2>1. PICK q0 \in Configs : SetupTo(q0, NoConfig)
    BY <1>5 DEF NloptSetup
  <2>. QED
    BY <1>1, <1>5, <2>1 DEF NloptSetup, NloptSolvers, BoxSolvers
<1>6. CASE ProjectedSetup
  <2>1. PICK q0 \in Configs : SetupTo(Clamp[q0], Clamp[q0])
    BY <1>6 DEF ProjectedSetup
  <2>. QED
    BY <1>0, <1>1, <2>1
<1>. QED
  BY <1>2, <1>3, <1>4, <1>5, <1>6 DEF Setup

\* The steps of a policy, one by one.
LEMMA NextCases ==
  ASSUME [Next]_vars
  PROVE  \/ Setup \/ Enter \/ EndedStep \/ AbortedStep \/ Return
         \/ Iterate \/ StallOnAbort \/ ProjectedAbort \/ UNCHANGED vars
BY DEF Next, Call, ProjectedEnter, Abort

\* Nothing tried yet, and nothing best.
LEMMA NothingTried == IsBestOf(NoConfig, {})
BY DEF IsBestOf

\* The best of what was tried is a configuration.
LEMMA BestType ==
  ASSUME NEW b, NEW T, T \subseteq Configs, IsBestOf(b, T)
  PROVE  /\ b \in Configs \cup {NoConfig}
         /\ b = NoConfig <=> T = {}
BY CanonicalType DEF IsBestOf

\* Nothing counted yet is within every bound.
LEMMA NothingBilled ==
  /\ 0 \in Nat /\ 0 \in 0..MaxUnits /\ 1 \in 0..MaxUnits /\ 0 \in 0..0 /\ 0 <= MaxRestarts
  /\ \A n \in 1..MaxUnits : n \in 0..MaxUnits /\ 0 \in 0..n
BY FrameAssumption

\* A policy before its first setup is well typed and counts nothing.
LEMMA InitCore == Init => Core
<1> SUFFICES ASSUME Init PROVE Core
  OBVIOUS
<1>1. shown \in Policy
  BY StatusType DEF Init, Policy
<1>2. TypeOK
  BY <1>1, NothingBilled, StatusType DEF Init, TypeOK
<1>. QED
  BY <1>2, NothingTried, NothingBilled
     DEF Init, Core, InCall, InBox, CachedError, RestartsLeft

\* Every step keeps the types, the box and the restarts.
LEMMA NextCore == Core /\ [Next]_vars => Core'
<1> SUFFICES ASSUME Core, [Next]_vars PROVE Core'
  OBVIOUS
<1>. TypeOK /\ BeforeRestart
  BY DEF Core, BeforeRestart, BeforePass
<1>1. CASE Setup
  <2>1. PICK q \in Configs, at \in Configs \cup {NoConfig} :
          /\ SetupTo(q, at)
          /\ solver \in BoxSolvers => q \in InLimits /\ at = q
    BY <1>1, SetupShape
  <2>2. shown' \in Policy
    BY <2>1, StatusType DEF SetupTo, Policy
  <2>3. InCall' /\ RestartsLeft' /\ units' = 0 /\ IsBestOf(m_best_q', tried')
    BY <2>1, NothingBilled, NothingTried DEF SetupTo, Core, InCall, RestartsLeft
  <2>5. TypeOK'
    BY <2>1, <2>2, <2>3, NothingBilled, StatusType DEF SetupTo, TypeOK
  <2>4. InBox' /\ CachedError'
    BY <2>1 DEF SetupTo, InBox, CachedError, solver, KeepsContract, BoxSolvers
  <2>. QED
    BY <2>3, <2>4, <2>5 DEF Core
<1>2. CASE Enter
  <2>1. TypeOK' /\ InCall'
    BY <1>2, NothingBilled DEF Enter, TypeOK, InCall, members, restarting, counters, best
  <2>. QED
    BY <1>2, <2>1 DEF Core, Enter, members, restarting, counters, best, InBox, CachedError,
         KeepsContract, solver, RestartsLeft
<1>3. CASE EndedStep
  <2>1. TypeOK'
    BY <1>3, NothingBilled DEF EndedStep, TypeOK, restarting, counters, best, Core, InCall
  <2>. QED
    BY <1>3, <2>1 DEF Core, EndedStep, restarting, counters, best, InBox, CachedError,
         KeepsContract, solver, RestartsLeft, InCall
<1>4. CASE AbortedStep
  <2>1. shown' \in Policy
    BY <1>4, StatusType DEF AbortedStep, TypeOK, Policy
  <2>2. TypeOK'
    BY <1>4, <2>1, NothingBilled
       DEF AbortedStep, TypeOK, members, restarting, counters, best, Core, InCall
  <2>. QED
    BY <1>4, <2>2 DEF Core, AbortedStep, members, restarting, counters, best, InBox,
         CachedError, KeepsContract, solver, RestartsLeft, InCall
<1>5. CASE Return
  <2>1. shown' \in Policy
    BY <1>5, BestType DEF Return, TypeOK, Policy, Core
  <2>2. TypeOK'
    <3>1. units \in 0..MaxUnits /\ spent + units \in Nat
      BY FrameAssumption DEF TypeOK
    <3>. QED
      BY <1>5, <2>1, <3>1, NothingBilled
         DEF Return, TypeOK, members, restarting, counters, best
  <2>. QED
    BY <1>5, <2>2 DEF Core, Return, members, restarting, counters, best, InBox,
         CachedError, KeepsContract, solver, RestartsLeft, InCall
<1>6. CASE Iterate
  <2>1. LoopStep /\ Moved /\ BoxKept /\ Honest /\ RestartKept /\ TriedKept
    BY <1>6, IteratePass
  <2>2. /\ units' \in 0..asked /\ m_iterations' \in Nat
    BY <2>1 DEF LoopStep, Looping, TypeOK
  <2>3. m_best_q' \in Configs \cup {NoConfig}
    BY <2>1, BestType DEF TriedKept
  <2>4. TypeOK'
    BY <2>1, <2>2, <2>3 DEF TypeOK, LoopStep, Moved, RestartKept, TriedKept
  <2>. QED
    BY <2>1, <2>4
       DEF Core, LoopStep, Looping, BoxKept, Honest, RestartKept, TriedKept, InCall, InBox,
           CachedError, KeepsContract, solver, RestartsLeft
<1>7. CASE StallOnAbort
  <2>1. shown' \in Policy
    BY <1>7, StatusType DEF StallOnAbort, TypeOK, Policy
  <2>2. TypeOK'
    BY <1>7, <2>1, StatusType DEF StallOnAbort, TypeOK, restarting, counters, best
  <2>. QED
    BY <1>7, <2>2 DEF Core, StallOnAbort, restarting, counters, best, InBox,
         CachedError, KeepsContract, solver, RestartsLeft, InCall
<1>8. CASE ProjectedAbort
  <2>1. TypeOK'
    BY <1>8 DEF ProjectedAbort, TypeOK, frame, members, counters, best
  <2>. QED
    BY <1>8, <2>1 DEF Core, ProjectedAbort, frame, members, counters, best, InBox,
         CachedError, KeepsContract, solver, RestartsLeft, InCall
<1>9. CASE UNCHANGED vars
  <2>1. TypeOK'
    BY <1>9 DEF vars, TypeOK, frame, members, restarting, counters, best
  <2>. QED
    BY <1>9, <2>1 DEF vars, Core, frame, members, restarting, counters, best, InBox,
         CachedError, KeepsContract, solver, RestartsLeft, InCall
<1>. QED
  BY <1>1, <1>2, <1>3, <1>4, <1>5, <1>6, <1>7, <1>8, <1>9, NextCases

\* What the other invariants rest on holds throughout.
THEOREM CoreHolds == Spec => []Core
BY InitCore, NextCore, PTL DEF Spec

\* The types of every policy's members and of what its calls return.
THEOREM TypeCorrect == Spec => []TypeOK
<1>1. Core => TypeOK
  BY DEF Core
<1>. QED
  BY <1>1, CoreHolds, PTL

------------------------------------------------------------------------------
(* What a call bills *)

\* A build is fixed.
LEMMA BuildFixed ==
  ASSUME TypeOK, [Next]_vars
  PROVE  build' = build /\ solver' = solver
<1>1. CASE Setup
  BY <1>1, SetupShape DEF SetupTo, solver
<1>2. CASE Iterate
  BY <1>2, IterateLoops DEF LoopStep, solver
<1>. QED
  BY <1>1, <1>2, NextCases
     DEF Enter, EndedStep, AbortedStep, Return, StallOnAbort, ProjectedAbort, frame, vars,
         solver

\* Iterations and units are counted together, except by an NLopt policy whose last
\* call ended without a result.
CountedTogether ==
  solver \notin NloptSolvers \/ m_status = "running" => m_iterations = spent + units

\* Between calls the driver has been told the policy's status, unless projected_lm
\* was aborted, which it only flags.
StatusShown ==
  /\ m_aborted => solver = "projected_lm"
  /\ pc # "loop" => \/ shown.status = m_status
                    \/ m_aborted /\ shown.status = "stalled"

\* What the accounts of a call say.
Accounts == CountedTogether /\ StatusShown /\ RunningUsedItsUnits

\* A policy before its first setup has billed nothing.
LEMMA InitAccounts == Init => Accounts
BY DEF Init, Accounts, CountedTogether, StatusShown, RunningUsedItsUnits

\* Every step keeps the accounts.
LEMMA NextAccounts == Core /\ Accounts /\ [Next]_vars => Accounts'
<1> SUFFICES ASSUME Core, Accounts, [Next]_vars PROVE Accounts'
  OBVIOUS
<1>. /\ TypeOK /\ BeforeRestart /\ InCall
     /\ build' = build /\ solver' = solver
     /\ CountedTogether /\ StatusShown /\ RunningUsedItsUnits
  BY BuildFixed DEF Core, BeforeRestart, BeforePass, Accounts
<1>. /\ m_iterations \in Nat /\ spent \in Nat /\ units \in Nat /\ asked \in Nat
     /\ units <= asked
  BY DEF TypeOK
<1>1. CASE Setup
  <2>1. PICK q \in Configs, at \in Configs \cup {NoConfig} : SetupTo(q, at)
    BY <1>1, SetupShape
  <2>. QED
    BY <2>1 DEF SetupTo, InCall, Accounts, CountedTogether, StatusShown, RunningUsedItsUnits
<1>2. CASE Enter
  BY <1>2 DEF Enter, members, restarting, InCall, Accounts, CountedTogether, StatusShown,
       RunningUsedItsUnits
<1>3. CASE EndedStep
  BY <1>3 DEF EndedStep, restarting, InCall, NloptSolvers, Accounts, CountedTogether,
       StatusShown, RunningUsedItsUnits
<1>4. CASE AbortedStep
  <2>1. shown'.status = "stalled"
    BY <1>4 DEF AbortedStep, TypeOK, Policy
  <2>. QED
    BY <1>4, <2>1 DEF AbortedStep, members, restarting, Accounts, CountedTogether,
         StatusShown, RunningUsedItsUnits
<1>5. CASE Return
  <2>1. /\ shown'.status = m_status /\ m_status' = m_status /\ m_aborted' = m_aborted
        /\ m_iterations' = m_iterations
        /\ billed' = units /\ spent' = spent + units /\ units' = 0 /\ asked' = asked
    BY <1>5 DEF Return, members, restarting
  <2>2. m_status = "running" => units = asked
    BY <1>5 DEF Return, Looping
  <2>. QED
    BY <2>1, <2>2 DEF Accounts, CountedTogether, StatusShown, RunningUsedItsUnits
<1>6. CASE Iterate
  <2>1. LoopStep /\ m_aborted' = m_aborted
    BY <1>6, IteratePass DEF Moved
  <2>. QED
    BY <2>1 DEF LoopStep, Looping, Accounts, CountedTogether, StatusShown,
         RunningUsedItsUnits
<1>7. CASE StallOnAbort
  <2>1. shown'.status = "stalled" /\ m_aborted' = m_aborted
    BY <1>7 DEF StallOnAbort, TypeOK, Policy, restarting
  <2>. QED
    BY <1>7, <2>1 DEF StallOnAbort, Accounts, CountedTogether, StatusShown,
         RunningUsedItsUnits
<1>8. CASE ProjectedAbort
  BY <1>8 DEF ProjectedAbort, frame, members, Accounts, CountedTogether, StatusShown,
       RunningUsedItsUnits
<1>9. CASE UNCHANGED vars
  BY <1>9 DEF vars, frame, members, restarting, Accounts, CountedTogether, StatusShown,
       RunningUsedItsUnits
<1>. QED
  BY <1>1, <1>2, <1>3, <1>4, <1>5, <1>6, <1>7, <1>8, <1>9, NextCases

\* The accounts hold throughout.
LEMMA AccountsHold == Spec => []Accounts
BY InitAccounts, NextAccounts, CoreHolds, PTL DEF Spec

\* Between calls the iterations a policy reports are the units it billed since setup.
THEOREM IterationsAreUnits == Spec => []IterationsAreBilled
<1>1. Core /\ Accounts => IterationsAreBilled
  BY DEF Core, TypeOK, InCall, Accounts, CountedTogether, IterationsAreBilled
<1>. QED
  BY <1>1, CoreHolds, AccountsHold, PTL

\* A step that answers running has used every unit it was given.
THEOREM RunningIsUsedUp == Spec => []RunningUsedItsUnits
<1>1. Accounts => RunningUsedItsUnits
  BY DEF Accounts
<1>. QED
  BY <1>1, AccountsHold, PTL

------------------------------------------------------------------------------
(* The joint limits *)

\* converged is a promise that the working configuration is in the limits, and a
\* running call that billed anything stands in the limits if they are enforced.
InLimitsWhen ==
  /\ ConvergedFeasible
  /\ /\ pc = "loop" /\ units > 0 /\ m_status = "running" /\ build[2] # "no_limits"
     => m_q \in InLimits
  /\ /\ pc = "idle" /\ shown.status = "running" /\ asked > 0
     /\ build[2] # "no_limits" /\ tried = {}
     => shown.q \in InLimits

\* A policy before its first setup has not converged and was asked for nothing.
LEMMA InitInLimits == Init => InLimitsWhen
BY DEF Init, InLimitsWhen, ConvergedFeasible

\* Every step keeps the promises about the limits.
LEMMA NextInLimits == Core /\ Accounts /\ InLimitsWhen /\ [Next]_vars => InLimitsWhen'
<1> SUFFICES ASSUME Core, Accounts, InLimitsWhen, [Next]_vars PROVE InLimitsWhen'
  OBVIOUS
<1>. /\ TypeOK /\ BeforeRestart /\ InCall
     /\ build' = build /\ solver' = solver
     /\ StatusShown
  BY BuildFixed DEF Core, BeforeRestart, BeforePass, Accounts
<1>1. CASE Setup
  <2>1. PICK q \in Configs, at \in Configs \cup {NoConfig} : SetupTo(q, at)
    BY <1>1, SetupShape
  <2>. QED
    BY <2>1 DEF SetupTo, InLimitsWhen, ConvergedFeasible
<1>2. CASE Enter
  BY <1>2 DEF Enter, members, InLimitsWhen, ConvergedFeasible
<1>3. CASE EndedStep
  BY <1>3 DEF EndedStep, InLimitsWhen, ConvergedFeasible, StatusShown
<1>4. CASE AbortedStep
  <2>1. shown'.status = "stalled"
    BY <1>4 DEF AbortedStep, TypeOK, Policy
  <2>. QED
    BY <1>4, <2>1 DEF AbortedStep, members, InLimitsWhen, ConvergedFeasible
<1>5. CASE Return
  <2>1. tried' = {} => m_best_q = NoConfig
    BY <1>5, BestType DEF Return, restarting, best, Core
  <2>2. m_status = "running" => units > 0
    BY <1>5 DEF Return, Looping, TypeOK, InCall
  <2>3. /\ shown'.status = m_status /\ m_status' = m_status /\ m_q' = m_q /\ pc = "loop"
        /\ m_best_q = NoConfig => shown'.q = m_q
        /\ pc' = "idle"
    BY <1>5 DEF Return, members
  <2>. QED
    BY <2>1, <2>2, <2>3 DEF InLimitsWhen, ConvergedFeasible
<1>6. CASE Iterate
  <2>1. LoopStep /\ BoxKept
    BY <1>6, IteratePass
  <2>. QED
    BY <2>1 DEF LoopStep, Looping, BoxKept, Promising, InLimitsWhen, ConvergedFeasible
<1>7. CASE StallOnAbort
  <2>1. shown'.status = "stalled"
    BY <1>7 DEF StallOnAbort, TypeOK, Policy
  <2>. QED
    BY <1>7, <2>1 DEF StallOnAbort, InLimitsWhen, ConvergedFeasible
<1>8. CASE ProjectedAbort
  BY <1>8 DEF ProjectedAbort, frame, members, best, InLimitsWhen, ConvergedFeasible
<1>9. CASE UNCHANGED vars
  BY <1>9 DEF vars, frame, members, restarting, best, InLimitsWhen, ConvergedFeasible
<1>. QED
  BY <1>1, <1>2, <1>3, <1>4, <1>5, <1>6, <1>7, <1>8, <1>9, NextCases

\* The promises about the limits hold throughout.
LEMMA InLimitsHold == Spec => []InLimitsWhen
BY InitInLimits, NextInLimits, CoreHolds, AccountsHold, PTL DEF Spec

\* The policies that promise a solution in the limits when they converge keep the
\* promise, under every limits policy.
THEOREM ConvergedIsFeasible == Spec => []ConvergedFeasible
<1>1. InLimitsWhen => ConvergedFeasible
  BY DEF InLimitsWhen
<1>. QED
  BY <1>1, InLimitsHold, PTL

\* The policies of the box never leave it, and a running step hands out nothing the
\* limits policy has not seen.
THEOREM BoxIsKept == Spec => []StaysInBox
<1>1. Core /\ InLimitsWhen => StaysInBox
  BY DEF Core, InBox, InLimitsWhen, StaysInBox
<1>. QED
  BY <1>1, CoreHolds, InLimitsHold, PTL

------------------------------------------------------------------------------
(* The best of what was tried *)

\* Between calls the driver is handed the best.
BestHandedOut ==
  pc = "idle" /\ tried # {} => shown.q = m_best_q /\ shown.errAt = m_best_q

\* No policy has tried anything before its first setup.
LEMMA InitBest == Init => BestHandedOut
BY DEF Init, BestHandedOut

\* Every step keeps what is handed out the best.
LEMMA NextBest == Core /\ BestHandedOut /\ [Next]_vars => BestHandedOut'
<1> SUFFICES ASSUME Core, BestHandedOut, [Next]_vars PROVE BestHandedOut'
  OBVIOUS
<1>. TypeOK /\ BeforeRestart /\ tried \subseteq Configs /\ IsBestOf(m_best_q, tried)
  BY DEF Core, BeforeRestart, BeforePass, TypeOK
<1>1. CASE Setup
  <2>1. PICK q \in Configs, at \in Configs \cup {NoConfig} : SetupTo(q, at)
    BY <1>1, SetupShape
  <2>. QED
    BY <2>1 DEF SetupTo, BestHandedOut
<1>2. CASE Enter
  BY <1>2 DEF Enter, BestHandedOut
<1>3. CASE EndedStep
  BY <1>3 DEF EndedStep, restarting, best, BestHandedOut
<1>4. CASE AbortedStep
  <2>1. shown'.q = shown.q /\ shown'.errAt = shown.errAt
    BY <1>4 DEF AbortedStep, TypeOK, Policy
  <2>. QED
    BY <1>4, <2>1 DEF AbortedStep, restarting, best, BestHandedOut
<1>5. CASE Return
  <2>1. tried # {} => m_best_q # NoConfig
    BY BestType
  <2>. QED
    BY <1>5, <2>1 DEF Return, restarting, best, BestHandedOut
<1>6. CASE Iterate
  BY <1>6, IteratePass DEF LoopStep, Looping, BestHandedOut
<1>7. CASE StallOnAbort
  <2>1. shown'.q = shown.q /\ shown'.errAt = shown.errAt
    BY <1>7 DEF StallOnAbort, TypeOK, Policy
  <2>. QED
    BY <1>7, <2>1 DEF StallOnAbort, restarting, best, BestHandedOut
<1>8. CASE ProjectedAbort
  BY <1>8 DEF ProjectedAbort, frame, best, BestHandedOut
<1>9. CASE UNCHANGED vars
  BY <1>9 DEF vars, frame, restarting, best, BestHandedOut
<1>. QED
  BY <1>1, <1>2, <1>3, <1>4, <1>5, <1>6, <1>7, <1>8, <1>9, NextCases

\* What a policy that keeps its best hands out is the best of all it tried since
\* setup, across its restarts.
THEOREM BestIsHandedOut == Spec => []BestOfTried
<1>1. Core /\ BestHandedOut => BestOfTried
  BY DEF Core, BestHandedOut, IsBestOf, BestOfTried
<1>. QED
  BY <1>1, InitBest, NextBest, CoreHolds, PTL DEF Spec

------------------------------------------------------------------------------
(* The caps *)

\* One attempt: a policy that goes on has units left below the cap.
OneBudget ==
  solver \notin ManyAttempts =>
    /\ spent + units <= AttemptCap
    /\ m_status = "running" => spent + units < AttemptCap

\* Several: every restart allows the units of one more attempt.  What projected_lm
\* bills once it has ended is not bounded.
ManyBudget ==
  solver \in ManyAttempts =>
    /\ m_status = "running" => /\ spent + units <= restarted * AttemptCap + m_attempt_iterations
                               /\ m_attempt_iterations < AttemptCap
    /\ solver \in AttemptSolvers => spent + units <= (restarted + 1) * AttemptCap

Budget == OneBudget /\ ManyBudget

\* The units of one restart more, or of fewer.
LEMMA AttemptUnits ==
  ASSUME NEW n \in Nat, NEW c \in Nat
  PROVE  n * c \in Nat /\ (n + 1) * c = n * c + c /\ 0 * c = 0
OBVIOUS

\* The units of so many attempts are no more than those of more attempts.
LEMMA FewerAttempts ==
  ASSUME NEW n \in Nat, NEW m \in Nat, n <= m, NEW c \in Nat
  PROVE  n * c <= m * c
<1>1. PICK d \in Nat : m = n + d
  <2>1. m - n \in Nat /\ m = n + (m - n)
    OBVIOUS
  <2>. QED
    BY <2>1
<1>2. (n + d) * c = n * c + d * c /\ n * c \in Nat /\ d * c \in Nat
  OBVIOUS
<1>. QED
  BY <1>1, <1>2

\* Nothing is billed before the first setup.
LEMMA InitBudget == Init => Budget
<1> SUFFICES ASSUME Init PROVE Budget
  OBVIOUS
<1>1. Core
  BY InitCore
<1>2. AttemptCap \in Nat \ {0} /\ 0 * AttemptCap = 0 /\ (0 + 1) * AttemptCap = AttemptCap
  BY <1>1, CountersType, AttemptUnits DEF Core
<1>. QED
  BY <1>2 DEF Init, Budget, OneBudget, ManyBudget

\* Every step keeps within the caps.
LEMMA NextBudget == Core /\ Accounts /\ Budget /\ [Next]_vars => Budget'
<1> SUFFICES ASSUME Core, Accounts, Budget, [Next]_vars PROVE Budget'
  OBVIOUS
<1>. /\ TypeOK /\ BeforeRestart /\ InCall
     /\ build' = build /\ solver' = solver
     /\ CountedTogether /\ OneBudget /\ ManyBudget
  BY BuildFixed DEF Core, BeforeRestart, BeforePass, Accounts, Budget
<1>. /\ spent \in Nat /\ units \in Nat /\ restarted \in Nat /\ m_attempt_iterations \in Nat
     /\ m_iterations \in Nat
  BY DEF TypeOK
<1>. AttemptCap \in Nat \ {0} /\ MaxIterations <= AttemptCap /\ MaxIterations \in Int /\ AttemptCap' = AttemptCap
  BY CountersType DEF AttemptCap
<1> DEFINE used == restarted * AttemptCap
<1>0. /\ used \in Nat /\ (restarted + 1) * AttemptCap = used + AttemptCap
      /\ 0 * AttemptCap = 0 /\ (0 + 1) * AttemptCap = AttemptCap
      /\ ((restarted + 1) + 1) * AttemptCap = used + AttemptCap + AttemptCap
  <2>1. used \in Nat /\ (restarted + 1) * AttemptCap = used + AttemptCap /\ restarted + 1 \in Nat
    BY AttemptUnits
  <2>2. ((restarted + 1) + 1) * AttemptCap = (restarted + 1) * AttemptCap + AttemptCap
    BY <2>1, AttemptUnits
  <2>3. 0 * AttemptCap = 0 /\ (0 + 1) * AttemptCap = AttemptCap
    BY AttemptUnits
  <2>. QED
    BY <2>1, <2>2, <2>3
<1>. ManyAttempts \cap NloptSolvers = {} /\ AttemptSolvers \subseteq ManyAttempts
  BY DEF ManyAttempts, NloptSolvers, AttemptSolvers
\* Steps that bill nothing and do not set the policy running.
<1>1. ASSUME spent' + units' = spent + units, restarted' = restarted,
             m_attempt_iterations' = m_attempt_iterations,
             m_status' # "running" \/ m_status' = m_status
      PROVE  Budget'
  <2>. spent' + units' <= restarted * AttemptCap + m_attempt_iterations <=> spent + units <= used + m_attempt_iterations
    BY <1>1
  <2>. QED
    BY <1>0, <1>1 DEF Budget, OneBudget, ManyBudget, AttemptCap
<1>2. CASE Setup
  <2>1. PICK q \in Configs, at \in Configs \cup {NoConfig} : SetupTo(q, at)
    BY <1>2, SetupShape
  <2>2. spent' + units' = 0 /\ restarted' = 0 /\ m_attempt_iterations' = 0
    BY <2>1 DEF SetupTo, InCall
  <2>. QED
    BY <1>0, <2>2 DEF Budget, OneBudget, ManyBudget, AttemptCap
<1>3. CASE Enter
  BY <1>1, <1>3 DEF Enter, InCall, members, restarting, counters
<1>4. CASE EndedStep
  <2>1. solver = "projected_lm" /\ m_status' # "running"
    BY <1>4 DEF EndedStep
  <2>. QED
    BY <2>1 DEF Budget, OneBudget, ManyBudget, ManyAttempts, AttemptSolvers
<1>5. CASE AbortedStep
  BY <1>1, <1>5 DEF AbortedStep, members, restarting, counters
<1>6. CASE Return
  BY <1>1, <1>6 DEF Return, members, restarting, counters
<1>7. CASE StallOnAbort
  BY <1>1, <1>7 DEF StallOnAbort, InCall, restarting, counters
<1>8. CASE ProjectedAbort
  BY <1>1, <1>8 DEF ProjectedAbort, frame, members, counters
<1>9. CASE UNCHANGED vars
  BY <1>1, <1>9 DEF vars, frame, members, restarting, counters
<1>10. CASE Iterate
  <2>1. LoopStep /\ RestartKept /\ (solver \notin ManyAttempts => CapKept)
    BY <1>10, IteratePass
  <2>2. /\ m_status = "running" /\ m_iterations = spent + units /\ spent' = spent
        /\ units' = units \/ units' = units + 1
    BY <2>1 DEF LoopStep, Looping, CountedTogether
  <2>3. spent' + units' \in Nat /\ spent' + units' <= spent + units + 1
    <3>1. CASE units' = units
      BY <2>2, <3>1
    <3>2. CASE units' = units + 1
      BY <2>2, <3>2
    <3>. QED
      BY <2>2, <3>1, <3>2
  <2>4. ASSUME solver \notin ManyAttempts PROVE OneBudget'
    <3>1. ASSUME m_status' = "running" PROVE spent' + units' < AttemptCap
      <4>1. m_iterations' = m_iterations + 1 /\ m_iterations' < MaxIterations
        BY <2>1, <2>4, <3>1 DEF CapKept
      <4>2. units' = units + 1
        BY <2>1, <4>1 DEF LoopStep
      <4>. QED
        BY <2>2, <4>1, <4>2
    <3>2. spent' + units' <= AttemptCap
      <4>1. spent + units < AttemptCap /\ spent + units + 1 <= AttemptCap
        BY <2>2, <2>4 DEF OneBudget
      <4>. QED
        BY <2>3, <4>1
    <3>. QED
      BY <3>1, <3>2 DEF OneBudget
  <2>5. ASSUME solver \in ManyAttempts PROVE ManyBudget'
    <3>1. spent + units <= used + m_attempt_iterations /\ m_attempt_iterations < AttemptCap
      BY <2>2, <2>5 DEF ManyBudget
    <3>2. spent' + units' <= used + m_attempt_iterations + 1 /\ spent' + units' <= used + AttemptCap
      BY <1>0, <2>3, <3>1
    <3>3. /\ restarted' \in {restarted, restarted + 1}
          /\ m_status' = "running" =>
               \/ /\ restarted' = restarted
                  /\ m_attempt_iterations' = m_attempt_iterations + 1
                  /\ m_attempt_iterations' < AttemptCap
               \/ restarted' = restarted + 1 /\ m_attempt_iterations' = 0
      BY <2>1, <2>5 DEF RestartKept
    <3>4. CASE restarted' = restarted
      <4>1. restarted' * AttemptCap = used /\ (restarted' + 1) * AttemptCap = used + AttemptCap
        BY <1>0, <3>4
      <4>2. m_status' = "running" => m_attempt_iterations' = m_attempt_iterations + 1
                                     /\ m_attempt_iterations' < AttemptCap
        BY <3>3, <3>4
      <4>. HIDE DEF used
      <4>. QED
        BY <1>0, <3>2, <4>1, <4>2 DEF ManyBudget
    <3>5. CASE restarted' = restarted + 1
      <4>1. restarted' * AttemptCap = used + AttemptCap /\ (restarted' + 1) * AttemptCap = used + AttemptCap + AttemptCap
            /\ used + AttemptCap \in Nat
        BY <1>0, <3>5
      <4>2. m_status' = "running" => m_attempt_iterations' = 0
        BY <3>3, <3>5
      <4>. HIDE DEF used
      <4>3. spent' + units' <= restarted' * AttemptCap + 0 /\ spent' + units' <= (restarted' + 1) * AttemptCap
        BY <1>0, <2>3, <3>2, <4>1
      <4>4. m_status' = "running" => /\ spent' + units' <= restarted' * AttemptCap + m_attempt_iterations'
                                     /\ m_attempt_iterations' < AttemptCap
        BY <4>2, <4>3
      <4>. QED
        BY <4>3, <4>4 DEF ManyBudget
    <3>. QED
      BY <3>3, <3>4, <3>5
  <2>. QED
    BY <2>4, <2>5 DEF Budget, OneBudget, ManyBudget
<1>. QED
  BY <1>2, <1>3, <1>4, <1>5, <1>6, <1>7, <1>8, <1>9, <1>10, NextCases

\* The caps hold throughout.
LEMMA BudgetHolds == Spec => []Budget
BY InitBudget, NextBudget, CoreHolds, AccountsHold, PTL DEF Spec

\* Restarting is no way around the caps: no more restarts are made than max_restarts,
\* and the units used since setup are within the caps of the attempts that allows.
THEOREM CapsHold == Spec => []WorkIsBounded
<1>1. ASSUME Core, Budget PROVE WorkIsBounded
  <2>. TypeOK /\ restarted <= MaxRestarts /\ OneBudget /\ ManyBudget
    BY <1>1 DEF Core, RestartsLeft, Budget
  <2>. /\ spent \in Nat /\ units \in Nat /\ restarted \in Nat /\ m_attempt_iterations \in Nat
       /\ AttemptCap \in Nat /\ MaxRestarts \in Nat
    BY CountersType DEF TypeOK
  <2>1. /\ restarted * AttemptCap \in Nat /\ (restarted + 1) * AttemptCap = restarted * AttemptCap + AttemptCap
        /\ (restarted + 1) * AttemptCap \in Nat /\ (MaxRestarts + 1) * AttemptCap \in Nat
        /\ (restarted + 1) * AttemptCap <= (MaxRestarts + 1) * AttemptCap
    <3>1. restarted + 1 \in Nat /\ MaxRestarts + 1 \in Nat /\ restarted + 1 <= MaxRestarts + 1
      OBVIOUS
    <3>. QED
      BY <3>1, AttemptUnits, FewerAttempts
  <2>2. CASE solver \notin ManyAttempts
    <3>1. Attempts * AttemptCap = AttemptCap
      BY <2>2 DEF Attempts, ManyAttempts
    <3>. QED
      BY <2>2, <3>1 DEF OneBudget, WorkIsBounded, AttemptCap
  <2>3. CASE solver \in ManyAttempts /\ ~(solver = "projected_lm" /\ m_status # "running")
    <3>1. Attempts * AttemptCap = (MaxRestarts + 1) * AttemptCap
      BY <2>3 DEF Attempts, ManyAttempts
    <3>2. spent + units <= (restarted + 1) * AttemptCap
      <4>1. CASE solver \in AttemptSolvers
        BY <2>3, <4>1 DEF ManyBudget
      <4>2. CASE m_status = "running"
        BY <2>1, <2>3, <4>2 DEF ManyBudget
      <4>. QED
        BY <2>3, <4>1, <4>2 DEF ManyAttempts
    <3>3. spent + units <= Attempts * AttemptCap
      BY <2>1, <3>1, <3>2
    <3>. QED
      BY <3>3 DEF WorkIsBounded, AttemptCap
  <2>4. CASE solver = "projected_lm" /\ m_status # "running"
    BY <2>4 DEF WorkIsBounded
  <2>. QED
    BY <2>2, <2>3, <2>4
<1>. QED
  BY <1>1, CoreHolds, BudgetHolds, PTL

------------------------------------------------------------------------------
(* The solve_policy contract *)

\* A policy under the contract keeps no best, stands where it met the pose once it has
\* converged, and shows its own members to the driver until a call changes them, which
\* a call of an ended policy does not.
UnderContract ==
  KeepsContract =>
    /\ tried = {}
    /\ m_status = "converged" => PoseMet(m_q) /\ m_error_at = m_q
    /\ pc # "loop" \/ shown.status # "running" =>
         /\ units = 0
         /\ shown = [q |-> m_q, errAt |-> m_error_at, status |-> m_status]

\* A policy before its first setup shows what its storage holds.
LEMMA InitUnderContract == Init => UnderContract
BY DEF Init, UnderContract

\* Every step keeps the policies under the contract there.
LEMMA NextUnderContract ==
  Core /\ Accounts /\ UnderContract /\ [Next]_vars => UnderContract'
<1> SUFFICES ASSUME Core, Accounts, UnderContract, [Next]_vars, KeepsContract'
             PROVE  UnderContract'
  BY DEF UnderContract
<1>. KeepsContract
  BY BuildFixed DEF KeepsContract, Core
<1>. /\ TypeOK /\ BeforeRestart /\ InCall /\ StatusShown /\ tried = {}
     /\ solver # "projected_lm"
     /\ ~m_aborted
  BY DEF Core, BeforeRestart, BeforePass, Accounts, StatusShown, UnderContract, KeepsContract
<1>0. m_best_q = NoConfig
  BY BestType DEF Core
<1>1. CASE Setup
  <2>1. PICK q \in Configs, at \in Configs \cup {NoConfig} : SetupTo(q, at)
    BY <1>1, SetupShape
  <2>. QED
    BY <2>1 DEF SetupTo, InCall, UnderContract
<1>2. CASE Enter
  BY <1>2 DEF Enter, members, restarting, best, UnderContract
<1>3. CASE EndedStep
  BY <1>3 DEF EndedStep
<1>4. CASE AbortedStep
  BY <1>4 DEF AbortedStep
<1>5. CASE Return
  BY <1>0, <1>5 DEF Return, members, restarting, best, UnderContract
<1>6. CASE Iterate
  <2>1. LoopStep /\ Honest /\ TriedKept
    BY <1>6, IteratePass
  <2>2. shown.status = "running"
    BY <2>1 DEF LoopStep, Looping, UnderContract
  <2>. QED
    BY <2>1, <2>2 DEF LoopStep, Looping, Honest, TriedKept, UnderContract
<1>7. CASE StallOnAbort
  <2>1. shown' = [shown EXCEPT !.status = "stalled"]
        /\ shown = [q |-> m_q, errAt |-> m_error_at, status |-> m_status]
    BY <1>7 DEF StallOnAbort, UnderContract
  <2>. QED
    BY <1>7, <2>1 DEF StallOnAbort, InCall, restarting, best, UnderContract
<1>8. CASE ProjectedAbort
  BY <1>8 DEF ProjectedAbort
<1>9. CASE UNCHANGED vars
  BY <1>9 DEF vars, frame, members, restarting, best, UnderContract
<1>. QED
  BY <1>1, <1>2, <1>3, <1>4, <1>5, <1>6, <1>7, <1>8, <1>9, NextCases

\* Every policy under the contract stays so.
LEMMA UnderContractHolds == Spec => []UnderContract
BY InitUnderContract, NextUnderContract, CoreHolds, AccountsHold, PTL DEF Spec

\* The contract's vocabulary is the one the policies are written in.
LEMMA ContractVocabulary ==
  /\ Contract!Policy = Policy
  /\ \A q0 : Contract!PolicySetups(q0) = PolicySetups(q0)
  /\ \A p : /\ Contract!PolicySteps(p) = PolicySteps(p)
            /\ Contract!AbortOutcomes(p) = AbortOutcomes(p)
            /\ \A n : Contract!UnitsBilled(p, n) = UnitsBilled(p, n)
<1>1. Contract!Policy = Policy
  BY DEF Contract!Policy, Contract!IkStatus, Policy, IkStatus
<1>2. \A q0 : Contract!PolicySetups(q0) = PolicySetups(q0)
  BY DEF Contract!PolicySetups, PolicySetups
<1>3. Contract!HonestPolicies = HonestPolicies
  BY <1>1 DEF Contract!HonestPolicies, Contract!HonestConvergence, Contract!PoseMet,
       HonestPolicies, HonestConvergence, PoseMet
<1>. QED
  BY <1>1, <1>2, <1>3 DEF Contract!PolicySteps, Contract!AbortOutcomes, Contract!UnitsBilled,
       PolicySteps, AbortOutcomes, UnitsBilled

\* A policy before its first setup is one of the contract's.
LEMMA InitContract == Init => Contract!Init
<1> SUFFICES ASSUME Init PROVE Contract!Init
  OBVIOUS
<1>1. shown \in Policy /\ shown.status = "running"
  BY StatusType DEF Init, Policy
<1>. QED
  BY <1>1, ContractVocabulary DEF Init, Contract!Init

\* A call of a policy under the contract is a step of the contract, its iterations are
\* not seen by the driver.
LEMMA NextContract ==
  ASSUME Core, Accounts, UnderContract, KeepsContract, Next, Core'
  PROVE  Contract!Next \/ UNCHANGED Contract!vars
<1>. [Next]_vars /\ KeepsContract'
  BY BuildFixed DEF KeepsContract, Core
<1>. /\ TypeOK /\ TypeOK' /\ BeforeRestart /\ InCall /\ StatusShown /\ tried = {}
     /\ solver # "projected_lm"
     /\ ~m_aborted
  BY DEF Core, BeforeRestart, BeforePass, Accounts, StatusShown, UnderContract, KeepsContract
<1>0. m_best_q = NoConfig
  BY BestType DEF Core
<1>1. CASE Setup
  <2>1. PICK q0 \in Configs, q \in Configs, at \in Configs \cup {NoConfig} :
          /\ SetupTo(q, at)
          /\ [q |-> q, errAt |-> at, status |-> "running"] \in PolicySetups(q0)
    BY <1>1, SetupShape
  <2>2. shown' \in PolicySetups(q0) /\ billed' = 0
    BY <2>1 DEF SetupTo
  <2>. QED
    BY <2>2, ContractVocabulary DEF Contract!Next, Contract!Setup
<1>2. CASE Return
  <2>1. /\ shown' = [q |-> m_q, errAt |-> m_error_at, status |-> m_status]
        /\ billed' = units /\ asked \in 1..MaxUnits /\ units \in 0..asked
    BY <1>0, <1>2 DEF Return, InCall, TypeOK
  <2>2. shown' \in PolicySteps(shown) /\ billed' \in UnitsBilled(shown, asked)
    <3>1. CASE shown.status = "running"
      <4>1. shown' \in HonestPolicies
        BY <2>1 DEF UnderContract, HonestPolicies, HonestConvergence, TypeOK
      <4>. QED
        BY <2>1, <3>1, <4>1 DEF PolicySteps, UnitsBilled
    <3>2. CASE shown.status # "running"
      BY <2>1, <3>2 DEF UnderContract, PolicySteps, UnitsBilled
    <3>. QED
      BY <3>1, <3>2
  <2>. QED
    BY <2>1, <2>2, ContractVocabulary DEF Contract!Next, Contract!Step
<1>3. CASE Iterate
  BY <1>3, IterateLoops DEF LoopStep, Contract!vars
<1>4. CASE StallOnAbort
  <2>1. shown'.status = "stalled" /\ shown' \in Policy /\ billed' = billed
    BY <1>4 DEF StallOnAbort, TypeOK, Policy
  <2>. QED
    BY <2>1, ContractVocabulary DEF AbortOutcomes, Contract!Next, Contract!Abort
<1>5. CASE Enter \/ UNCHANGED vars
  BY <1>5 DEF Enter, vars, frame, Contract!vars
<1>6. ~EndedStep /\ ~AbortedStep /\ ~ProjectedAbort
  BY DEF EndedStep, AbortedStep, ProjectedAbort
<1>. QED
  BY <1>1, <1>2, <1>3, <1>4, <1>5, <1>6, NextCases

\* What the driver sees of a policy is a behaviour of the solve_policy contract, for
\* every build that keeps it.
THEOREM PoliciesKeepContract == Spec => RefinesContract
<1>1. Init => (KeepsContract => Contract!Init)
  BY InitContract
<1>2. Core /\ Accounts /\ UnderContract /\ [Next]_vars /\ Core'
        => [KeepsContract => Contract!Next \/ UNCHANGED Contract!vars]_vars
  BY NextContract
<1>. QED
  BY <1>1, <1>2, CoreHolds, AccountsHold, UnderContractHolds, PTL DEF Spec, RefinesContract

------------------------------------------------------------------------------
(* The ring of error norms that their stall checks share *)

\* Until the ring is full nothing is overwritten: the head has not moved.
HeadRests == m_size < Cap => m_head = 0

RingInv == RingTypeOK /\ HoldsLatest /\ HeadRests /\ DecidesAsUnbounded

\* An index below the capacity is its own slot.
LEMMA SlotOfSmall ==
  ASSUME NEW i \in Nat, i < Cap
  PROVE  i % Cap = i
BY RingAssumption

\* An index past the last slot wraps around once.
LEMMA SlotOfLarge ==
  ASSUME NEW i \in Nat, Cap <= i, i < Cap + Cap
  PROVE  i % Cap = i - Cap
BY RingAssumption

\* Every index operator[] and push() compute is a slot.
LEMMA SlotInRange ==
  ASSUME NEW i \in Nat
  PROVE  i % Cap \in Slots
BY RingAssumption DEF Slots

\* The window is between zero and the capacity, whatever the option says.
LEMMA WindowInRange == Window \in 0..Cap
BY RingAssumption DEF Window

\* The ring starts, and is cleared, empty.
LEMMA RingStarts == RingInit => RingInv
<1>. SUFFICES ASSUME RingInit PROVE RingInv
  OBVIOUS
<1>. USE RingAssumption DEF RingInit
<1>1. RingTypeOK
  BY DEF RingTypeOK, Slots
<1>2. HoldsLatest
  BY DEF HoldsLatest
<1>3. HeadRests /\ DecidesAsUnbounded
  BY DEF HeadRests, DecidesAsUnbounded
<1>. QED
  BY <1>1, <1>2, <1>3 DEF RingInv

\* Clearing keeps the invariant: an empty ring holds an empty history.
LEMMA ClearKeepsRing == RingInv /\ Clear => RingInv'
<1>. SUFFICES ASSUME RingInv, Clear PROVE RingInv'
  OBVIOUS
<1>. USE RingAssumption DEF Clear
<1>1. RingTypeOK'
  BY DEF RingInv, RingTypeOK, Slots
<1>2. HoldsLatest'
  BY DEF HoldsLatest
<1>3. HeadRests' /\ DecidesAsUnbounded'
  BY DEF HeadRests, DecidesAsUnbounded
<1>. QED
  BY <1>1, <1>2, <1>3 DEF RingInv

\* A push keeps the types.
LEMMA CheckType ==
  ASSUME RingInv, NEW e \in Errors, Check(e)
  PROVE  RingTypeOK'
<1>. USE RingAssumption DEF RingInv, RingTypeOK, Check
<1>1. m_data' \in [Slots -> Errors] /\ m_size' \in 0..Cap
  BY DEF Push
<1>2. m_head' \in Slots
  <2>1. m_head + 1 \in Nat
    BY DEF Slots
  <2>2. (m_head + 1) % Cap \in Slots
    BY <2>1, SlotInRange
  <2>. QED
    BY <2>2 DEF Push
<1>3. pushed' \in Seq(Errors) /\ initial' \in Errors
  OBVIOUS
<1>4. verdict' \in {"running", "stalled", "diverged"}
  OBVIOUS
<1>. QED
  BY <1>1, <1>2, <1>3, <1>4

\* What the lemmas below use of the types.
LEMMA RingTypes ==
  ASSUME RingInv
  PROVE  /\ m_data \in [Slots -> Errors] /\ m_head \in Slots
         /\ m_head \in 0..(Cap - 1) /\ m_size \in 0..Cap
         /\ pushed \in Seq(Errors) /\ Len(pushed) \in Nat
         /\ m_size <= Len(pushed)
         /\ Cap \in Nat \ {0} /\ Slots = 0..(Cap - 1)
BY RingAssumption DEF RingInv, RingTypeOK, HoldsLatest, Slots

\* operator[] reads the history, one value at a time.
LEMMA RingReads ==
  ASSUME RingInv, NEW i \in 0..(m_size - 1)
  PROVE  At(i) = pushed[Len(pushed) - m_size + i + 1]
BY DEF RingInv, HoldsLatest

\* A check appends its error to the history.
LEMMA CheckAppends ==
  ASSUME RingInv, NEW e \in Errors, Check(e)
  PROVE  /\ Len(pushed') = Len(pushed) + 1
         /\ pushed'[Len(pushed) + 1] = e
         /\ \A k \in 1..Len(pushed) : pushed'[k] = pushed[k]
BY RingTypes DEF Check

\* A push into a ring that is not full puts the error behind the values held.
LEMMA PushBehind ==
  ASSUME RingInv, NEW e \in Errors, Check(e), m_size < Cap
  PROVE  HoldsLatest' /\ HeadRests'
<1>1. m_head = 0 /\ m_head' = 0 /\ m_size' = m_size + 1
  BY DEF RingInv, Check, Push, HeadRests
<1>2. m_data' = [m_data EXCEPT ![m_size] = e]
  <2>1. m_size \in Nat /\ m_head + m_size = m_size
    BY <1>1, RingTypes
  <2>2. (m_head + m_size) % Cap = m_size
    BY <2>1, SlotOfSmall
  <2>. QED
    BY <2>2 DEF Check, Push
<1>3. m_size = Len(pushed)
  BY RingTypes DEF RingInv, HoldsLatest
<1>4. ASSUME NEW i \in 0..(m_size' - 1)
      PROVE  At(i)' = pushed'[Len(pushed') - m_size' + i + 1]
  <2>1. i \in Nat /\ i < Cap /\ i \in Slots /\ 0 + i = i
    BY <1>1, RingTypes
  <2>2. i % Cap = i
    BY <2>1, SlotOfSmall
  <2>3. At(i)' = m_data'[i] /\ At(i) = m_data[i]
    BY <2>1, <2>2, <1>1 DEF At
  <2>4. Len(pushed') - m_size' + i + 1 = i + 1
    BY <2>1, <1>1, <1>3, CheckAppends, RingTypes
  <2>5. CASE i = m_size
    <3>1. m_data'[i] = e
      BY <2>1, <2>5, <1>2, RingTypes
    <3>2. pushed'[i + 1] = e
      BY <2>5, <1>3, CheckAppends
    <3>. QED
      BY <2>3, <2>4, <3>1, <3>2
  <2>6. CASE i < m_size
    <3>1. i \in 0..(m_size - 1)
      BY <2>1, <2>6, RingTypes
    <3>2. Len(pushed) - m_size + i + 1 = i + 1
      BY <2>1, <1>3, RingTypes
    <3>3. m_data[i] = pushed[i + 1]
      BY <2>3, <3>1, <3>2, RingReads
    <3>4. m_data'[i] = m_data[i]
      BY <2>1, <2>6, <1>2, RingTypes
    <3>5. pushed'[i + 1] = pushed[i + 1]
      BY <2>1, <2>6, <1>3, CheckAppends, RingTypes
    <3>. QED
      BY <2>3, <2>4, <3>3, <3>4, <3>5
  <2>. QED
    BY <2>1, <2>5, <2>6, <1>1, RingTypes
<1>5. m_size' = IF Len(pushed') < Cap THEN Len(pushed') ELSE Cap
  BY <1>1, <1>3, CheckAppends, RingTypes
<1>. QED
  BY <1>1, <1>4, <1>5 DEF HoldsLatest, HeadRests

\* A push into a full ring drops the oldest value and shifts the others by one.
LEMMA PushOver ==
  ASSUME RingInv, NEW e \in Errors, Check(e), m_size = Cap
  PROVE  HoldsLatest' /\ HeadRests'
<1>1. /\ m_head' = (m_head + 1) % Cap /\ m_size' = Cap
      /\ m_data' = [m_data EXCEPT ![m_head] = e]
  BY RingTypes DEF Check, Push
<1>2. Len(pushed) >= Cap
  BY RingTypes
<1>3. m_head' = IF m_head + 1 < Cap THEN m_head + 1 ELSE 0
  <2>1. CASE m_head + 1 < Cap
    <3>1. (m_head + 1) % Cap = m_head + 1
      BY <2>1, SlotOfSmall, RingTypes
    <3>. QED
      BY <2>1, <3>1, <1>1
  <2>2. CASE ~(m_head + 1 < Cap)
    <3>1. m_head + 1 = Cap /\ Cap < Cap + Cap /\ Cap \in Nat
      BY <2>2, RingTypes
    <3>2. Cap % Cap = Cap - Cap
      BY <3>1, SlotOfLarge
    <3>. QED
      BY <2>2, <3>1, <3>2, <1>1
  <2>. QED
    BY <2>1, <2>2
<1>4. ASSUME NEW i \in 0..(Cap - 1)
      PROVE  At(i)' = pushed'[Len(pushed') - Cap + i + 1]
  <2>1. At(i)' = m_data'[(m_head' + i) % Cap]
    BY DEF At
  <2>2. CASE i = Cap - 1
    <3>1. (m_head' + i) % Cap = m_head
      <4>1. CASE m_head + 1 < Cap
        <5>1. m_head' = m_head + 1 /\ m_head \in 0..(Cap - 1) /\ Cap \in Nat
          BY <4>1, <1>3, RingTypes
        <5>2. /\ m_head' + i = m_head + Cap /\ m_head + Cap \in Nat
              /\ Cap <= m_head + Cap /\ m_head + Cap < Cap + Cap
          BY <5>1, <2>2
        <5>3. (m_head + Cap) % Cap = m_head + Cap - Cap
          BY <5>2, SlotOfLarge, RingTypes
        <5>. QED
          BY <5>1, <5>2, <5>3
      <4>2. CASE ~(m_head + 1 < Cap)
        <5>1. m_head' + i = m_head /\ m_head \in Nat /\ m_head < Cap
          BY <4>2, <2>2, <1>3, RingTypes
        <5>. QED
          BY <5>1, SlotOfSmall
      <4>. QED
        BY <4>1, <4>2
    <3>2. m_data'[m_head] = e
      BY <1>1, RingTypes
    <3>3. Len(pushed') - Cap + i + 1 = Len(pushed) + 1
      BY <2>2, CheckAppends, RingTypes
    <3>. QED
      BY <2>1, <3>1, <3>2, <3>3, CheckAppends
  <2>3. CASE i < Cap - 1
    <3>. DEFINE slot == (m_head + (i + 1)) % Cap
    <3>1. (m_head' + i) % Cap = slot /\ slot \in Slots /\ slot # m_head
      <4>1. CASE m_head + (i + 1) < Cap
        <5>1. /\ m_head' + i = m_head + (i + 1)
              /\ m_head + (i + 1) \in Nat /\ m_head + (i + 1) # m_head
          BY <4>1, <1>3, RingTypes
        <5>2. slot = m_head + (i + 1)
          BY <5>1, <4>1, SlotOfSmall
        <5>. QED
          BY <4>1, <5>1, <5>2, RingTypes
      <4>2. CASE ~(m_head + (i + 1) < Cap) /\ m_head + 1 < Cap
        <5>1. m_head' + i = m_head + (i + 1)
          BY <4>2, <1>3, RingTypes
        <5>2. /\ m_head + (i + 1) \in Nat
              /\ Cap <= m_head + (i + 1) /\ m_head + (i + 1) < Cap + Cap
          BY <4>2, <2>3, RingTypes
        <5>3. slot = m_head + (i + 1) - Cap
          BY <5>2, SlotOfLarge, RingTypes
        <5>4. m_head + (i + 1) - Cap \in Slots /\ m_head + (i + 1) - Cap # m_head
          BY <5>2, <2>3, RingTypes
        <5>. QED
          BY <5>1, <5>3, <5>4
      <4>3. CASE ~(m_head + 1 < Cap)
        <5>1. m_head' + i = i /\ m_head = Cap - 1 /\ i \in Nat /\ i < Cap
          BY <4>3, <1>3, RingTypes
        <5>2. /\ m_head + (i + 1) \in Nat
              /\ Cap <= m_head + (i + 1) /\ m_head + (i + 1) < Cap + Cap
          BY <5>1, <2>3, RingTypes
        <5>3. slot = m_head + (i + 1) - Cap
          BY <5>2, SlotOfLarge, RingTypes
        <5>4. i % Cap = i
          BY <5>1, SlotOfSmall
        <5>5. m_head + (i + 1) - Cap = i /\ i \in Slots /\ i # m_head
          BY <5>1, <2>3, RingTypes
        <5>. QED
          BY <5>1, <5>3, <5>4, <5>5
      <4>. QED
        BY <4>1, <4>2, <4>3
    <3>. HIDE DEF slot
    <3>2. m_data'[slot] = m_data[slot]
      BY <3>1, <1>1, RingTypes
    <3>3. i + 1 \in 0..(m_size - 1)
      BY <2>3, RingTypes
    <3>4. At(i + 1) = pushed[Len(pushed) - m_size + (i + 1) + 1]
      BY <3>3, RingReads
    <3>5. At(i + 1) = m_data[slot]
      BY DEF At, slot
    <3>6. Len(pushed') = Len(pushed) + 1 /\ Len(pushed) \in Nat /\ Cap \in Nat
      BY CheckAppends, RingTypes
    <3>7. Len(pushed) - m_size + (i + 1) + 1 = Len(pushed') - Cap + i + 1
      BY <3>6
    <3>8. Len(pushed') - Cap + i + 1 \in 1..Len(pushed)
      BY <3>6, <2>3, <1>2
    <3>. QED
      BY <2>1, <3>1, <3>2, <3>4, <3>5, <3>7, <3>8, CheckAppends
  <2>. QED
    BY <2>2, <2>3, RingTypes
<1>5. Len(pushed') >= Cap
  BY <1>2, CheckAppends, RingTypes
<1>. QED
  BY <1>1, <1>4, <1>5, CheckAppends, RingTypes DEF HoldsLatest, HeadRests

\* A ring that holds the latest errors sees a stall exactly when the history does.
LEMMA SameStall ==
  ASSUME RingTypeOK, HoldsLatest
  PROVE  StallSeen <=> StallInHistory
<1>. USE RingAssumption, WindowInRange DEF RingTypeOK
<1>. DEFINE n == Len(pushed)
<1>1. n \in Nat /\ m_size \in Nat /\ m_size <= n
  BY DEF HoldsLatest
<1>2. m_size >= Window <=> n >= Window
  BY DEF HoldsLatest
<1>3. ASSUME m_size >= Window
      PROVE  (\A i \in (m_size - Window + 1)..(m_size - 1) : Small(At(i - 1), At(i)))
               <=> (\A k \in (n - Window + 2)..n : Small(pushed[k - 1], pushed[k]))
  <2>1. ASSUME NEW i \in (m_size - Window + 1)..(m_size - 1)
        PROVE  At(i) = pushed[n - m_size + i + 1] /\ At(i - 1) = pushed[n - m_size + i]
    <3>1. i \in 0..(m_size - 1) /\ i - 1 \in 0..(m_size - 1)
      BY <1>1, <1>3
    <3>2. At(i) = pushed[n - m_size + i + 1]
      BY <3>1 DEF HoldsLatest
    <3>3. At(i - 1) = pushed[n - m_size + (i - 1) + 1]
      BY <3>1 DEF HoldsLatest
    <3>4. n - m_size + (i - 1) + 1 = n - m_size + i
      BY <1>1, <3>1
    <3>. QED
      BY <3>2, <3>3, <3>4
  <2>2. ASSUME \A i \in (m_size - Window + 1)..(m_size - 1) : Small(At(i - 1), At(i)),
               NEW k \in (n - Window + 2)..n
        PROVE  Small(pushed[k - 1], pushed[k])
    <3>. DEFINE i == k - n + m_size - 1
    <3>1. i \in (m_size - Window + 1)..(m_size - 1)
      BY <1>1, <1>3
    <3>2. n - m_size + i + 1 = k /\ n - m_size + i = k - 1
      BY <1>1
    <3>3. Small(At(i - 1), At(i))
      BY <2>2, <3>1
    <3>. HIDE DEF i
    <3>4. At(i) = pushed[k] /\ At(i - 1) = pushed[k - 1]
      BY <2>1, <3>1, <3>2
    <3>. QED
      BY <3>3, <3>4
  <2>3. ASSUME \A k \in (n - Window + 2)..n : Small(pushed[k - 1], pushed[k]),
               NEW i \in (m_size - Window + 1)..(m_size - 1)
        PROVE  Small(At(i - 1), At(i))
    <3>. DEFINE k == n - m_size + i + 1
    <3>1. k \in (n - Window + 2)..n /\ k - 1 = n - m_size + i
      BY <1>1, <1>3
    <3>2. Small(pushed[k - 1], pushed[k])
      BY <2>3, <3>1
    <3>3. At(i) = pushed[k] /\ At(i - 1) = pushed[k - 1]
      BY <2>1, <3>1
    <3>. QED
      BY <3>2, <3>3
  <2>. QED
    BY <2>2, <2>3
<1>. QED
  BY <1>2, <1>3 DEF StallSeen, StallInHistory

\* A check keeps the invariant.
LEMMA CheckKeepsRing ==
  ASSUME RingInv, NEW e \in Errors, Check(e)
  PROVE  RingInv'
<1>1. RingTypeOK'
  BY CheckType
<1>2. HoldsLatest' /\ HeadRests'
  <2>1. m_size < Cap \/ m_size = Cap
    BY RingAssumption DEF RingInv, RingTypeOK
  <2>. QED
    BY <2>1, PushBehind, PushOver
<1>3. DecidesAsUnbounded'
  <2>1. StallSeen' <=> StallInHistory'
    BY <1>1, <1>2, SameStall, PTL
  <2>2. pushed'[Len(pushed')] = e
    BY DEF Check, RingInv, RingTypeOK
  <2>3. Diverged(pushed[Len(pushed)])' <=> Diverged(e)
    BY <2>2 DEF Diverged, Check
  <2>. QED
    BY <2>1, <2>2, <2>3 DEF DecidesAsUnbounded, Check
<1>. QED
  BY <1>1, <1>2, <1>3 DEF RingInv

\* A stuttering step changes nothing the invariant speaks of.
LEMMA StutterKeepsRing == RingInv /\ UNCHANGED ringVars => RingInv'
BY DEF RingInv, RingTypeOK, HoldsLatest, HeadRests, DecidesAsUnbounded, Diverged, StallInHistory,
       At, Small, ringVars, ring

\* The invariant holds throughout.
THEOREM RingInvariance == RingSpec => []RingInv
<1>1. RingInv /\ [RingNext]_ringVars => RingInv'
  BY ClearKeepsRing, CheckKeepsRing, StutterKeepsRing DEF RingNext
<1>. QED
  BY <1>1, RingStarts, PTL DEF RingSpec

\* Type correctness: the head stays a slot and the size within the capacity.
THEOREM RingTypeCorrect == RingSpec => []RingTypeOK
BY RingInvariance, PTL DEF RingInv

\* The ring holds the latest errors of the attempt, oldest first (error_ring).
THEOREM RingHoldsLatest == RingSpec => []HoldsLatest
BY RingInvariance, PTL DEF RingInv

\* The verdict of check_stall_divergence is that of an unbounded history.
THEOREM RingDecidesAsUnbounded == RingSpec => []DecidesAsUnbounded
BY RingInvariance, PTL DEF RingInv
===============================================================================
