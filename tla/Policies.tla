------------------------------- MODULE Policies -------------------------------
(***************************************************************************)
(* Every concrete solve policy behind one interface, as the runner sees    *)
(* them: setup, step with a budget of units, abort, and what step and the  *)
(* getters answer.  Which policy is running is the first half of build.    *)
(***************************************************************************)
EXTENDS NativePolicies, ArgminPolicies, RestartingPolicies, NloptPolicies, ProjectedLm

Solvers == NativeSolvers \cup Adapters \cup {"argmin_lm"} \cup AttemptSolvers
             \cup FilterSolvers \cup NloptSolvers \cup {"projected_lm"}

ASSUME BuildsAssumption == MaxSpent \in Nat /\ \A b \in Builds : b[1] \in Solvers

Setup ==
  NativeSetup \/ AdapterSetup \/ RestartingSetup \/ NloptSetup \/ ProjectedSetup

\* abort() of the native policies is empty.
Abort ==
  \/ solver \notin NativeSolvers \cup {"projected_lm"} /\ StallOnAbort
  \/ ProjectedAbort

Call == \/ solver # "projected_lm" /\ Enter
        \/ ProjectedEnter \/ EndedStep \/ AbortedStep

Iterate ==
  \/ NativeIterate \/ AdapterIterate \/ RestartingIterate \/ NloptIterate
  \/ ProjectedIterate

Next == Setup \/ Call \/ Iterate \/ Return \/ Abort

\* The code inside a call runs; nothing makes the driver call.
Fairness == WF_vars(Iterate) /\ WF_vars(Return)

Spec == Init /\ [][Next]_vars /\ Fairness

(***************************************************************************)
(* Properties.                                                             *)
(***************************************************************************)

\* Every member keeps its type, and no step uses more units than it was given.
TypeOK ==
  /\ build \in Builds
  /\ pc \in {"new", "idle", "loop"}
  /\ asked \in 0..MaxUnits /\ units \in 0..asked
  /\ m_q \in Configs
  /\ m_error_at \in Configs \cup {NoConfig}
  /\ m_iterations \in Nat
  /\ m_status \in IkStatus
  /\ shown \in Policy
  /\ billed \in 0..MaxUnits /\ spent \in Nat
  /\ m_attempt_iterations \in Nat
  /\ m_restart_count \in Nat /\ restarted \in Nat
  /\ m_aborted \in BOOLEAN
  /\ m_best_q \in Configs \cup {NoConfig}
  /\ tried \subseteq Configs

\* The builds that keep the contract: null-space centering moves an iterate that has
\* been judged, and the policies that keep their best hand out another one.
KeepsContract ==
  /\ solver \notin AttemptSolvers \cup FilterSolvers \cup {"projected_lm"}
       \/ solver = "argmin_projected_gradient_gn"
  /\ build[2] = "null_space_limits" => solver \notin NloptSolvers \cup {"lbfgsb"}

\* What the driver sees of a policy is a behaviour of the solve_policy contract: setup
\* starts a fresh running attempt, a policy that says converged stands on a
\* configuration that meets both tolerances and reports the error of that very
\* configuration, and an ended policy stays as it is until abort or setup.  (A build
\* never changes, so a premise on it may be moved into the initial state and the step.)
Contract == INSTANCE PolicyContract
RefinesContract ==
  /\ KeepsContract => Contract!Init
  /\ [][KeepsContract => Contract!Next \/ UNCHANGED Contract!vars]_vars

\* converged means that both errors are below tolerance at the solution handed out.
ConvergedMeetsPose == pc = "idle" /\ shown.status = "converged" => PoseMet(shown.q)

\* Policies whose working configuration never leaves the box.
BoxSolvers == {"newton_raphson", "lbfgsb", "projected_lm"}

\* A policy that promises a solution within the joint limits when it reports converged
\* keeps the promise: the unconstrained ones by the canonicalizing gate, the bounded
\* ones because no trial or optimizer call of theirs leaves the box, whatever the
\* limits policy does.
ConvergedFeasible ==
  /\ solver \in NativeSolvers \cup {"argmin_lm", "projected_lm"} \cup NloptSolvers
  /\ m_status = "converged"
  => m_q \in InLimits

\* The iteration counter a policy reports is the number of units it billed to the
\* runner since setup: every path through the loop body, early exits and restarts
\* included, counts both or neither.  (A call of NLopt that throws is billed alone.)
IterationsAreBilled ==
  pc = "idle" /\ solver \notin NloptSolvers => m_iterations = spent

\* The attempts a policy may make without the runner, each with a cap of its own.
Attempts ==
  IF solver \in AttemptSolvers \cup {"projected_lm"} THEN MaxRestarts + 1 ELSE 1

\* Restarting is no way around the caps: no more restarts are made than max_restarts,
\* although the NLopt policies count them before they decide, and the units used since
\* setup stay within the caps of the attempts that allows (a cap below one still allows
\* the iteration that notices it).  Only projected_lm bills more, once it has ended.
WorkIsBounded ==
  /\ restarted <= MaxRestarts
  /\ ~(solver = "projected_lm" /\ m_status # "running") =>
       spent + units <= Attempts * (IF MaxIterations > 1 THEN MaxIterations ELSE 1)

\* A step that returns running has used every unit it was given, which is what
\* the runner's zero-unit guard takes for granted.
RunningUsedItsUnits ==
  pc = "idle" /\ shown.status = "running" => billed = asked

\* The working configuration of the policies that clamp their start never leaves the
\* box: neither a trial, a limits policy nor a restart moves it out.  What any other
\* policy hands out of a running first attempt the limits policy was applied to,
\* whichever path the last iteration took: a rejected trial and the copy of an
\* optimizer's iterate that ignores the limits included.
StaysInBox ==
  /\ pc # "new" /\ solver \in BoxSolvers => m_q \in InLimits
  /\ /\ pc = "idle" /\ shown.status = "running" /\ asked > 0
     /\ build[2] # "no_limits" /\ tried = {}
     => shown.q \in InLimits

\* What a policy that keeps its best hands out is the best of all it tried since
\* setup, across restarts: within the limits if anything tried had a representative
\* there, and with the smallest error among those of its kind.
BestOfTried ==
  pc = "idle" /\ tried # {} =>
    /\ \E x \in tried : shown.q = Canonical[x] /\ shown.errAt = Canonical[x]
    /\ \A x \in tried :
         /\ Canonical[x] \in InLimits => shown.q \in InLimits
         /\ (Canonical[x] \in InLimits) = (shown.q \in InLimits)
              => ErrorNorm(shown.q) <= ErrorNorm(x)

\* step() comes back: every path through the loop body bills a unit or ends the
\* attempt, the line search that fails forever and the optimizer that does no work
\* included.
StepReturns == pc = "loop" ~> pc = "idle"
===============================================================================
