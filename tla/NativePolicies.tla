---------------------------- MODULE NativePolicies ----------------------------
(***************************************************************************)
(* The policies cartan implements itself and that keep one attempt:        *)
(* builtin_lm, dls, newton_raphson and builtin_lbfgsb.  Each is setup()    *)
(* and the body of the loop in step(); their numerics decide only which    *)
(* configuration a trial lands on.                                         *)
(***************************************************************************)
EXTENDS PolicyFrame

NativeSolvers == {"lm", "dls", "newton_raphson", "lbfgsb"}

\* newton_raphson and builtin_lbfgsb stay inside the box from setup on.
ClampsStart == solver \in {"newton_raphson", "lbfgsb"}

NativeSetup ==
  /\ solver \in NativeSolvers
  /\ \E q0 \in Configs :
       LET q == IF ClampsStart THEN Clamp[q0] ELSE q0
       IN  SetupTo(q, q)

\* The iteration ends the attempt (or not) with the error as given; m_q as given.
Settle(q, at, status) ==
  /\ m_q' = q /\ m_error_at' = at /\ m_status' = status
  /\ UNCHANGED <<frame, pc, restarting>>

\* Accepting a trial whose error was computed at `at`: the stall check may end the
\* attempt, and only if it does not are the limits enforced.
SettleTrial(trial, at) ==
  \E check \in StallChecks :
    \E q \in IF check = "running" THEN Enforced(trial) ELSE {trial} :
      Settle(q, at, check)

\* Slip: convergence without the gate.
SlipSkipGate == Settle(m_q, m_q, "converged")

\* The gate of the unconstrained policies: a converged pose counts only if its
\* representative inside the limits exists, and that representative is stored.
\* The error was computed before the turns were unwound; it is the same error.
SettleThroughGate ==
  LET q == Canonical[m_q]
  IN  Settle(q, q, IF q \in InLimits THEN "converged" ELSE "joint_limit_hit")

AtCap == CapReached /\ Bills /\ Settle(m_q, m_q, "iteration_limit")

(***************************************************************************)
(* builtin_lm::step.  A trial is accepted when it lowers the error; only   *)
(* then is the stall check made.  A rejected trial leaves the error at m_q *)
(* and the limits are enforced all the same.                               *)
(***************************************************************************)
LmConverged == PoseMet(m_q) /\ BillsNothing /\ SettleThroughGate

\* The damping or the increment overflowed.
LmOverflow == ~CapReached /\ Bills /\ Settle(m_q, m_q, "diverged")

LmAccepted ==
  /\ ~CapReached /\ Bills
  /\ \E trial \in Configs : /\ ErrorNorm(trial) < ErrorNorm(m_q)
                            /\ SettleTrial(trial, trial)

LmRejected ==
  /\ ~CapReached /\ Bills
  /\ \E q \in Enforced(m_q) : Settle(q, m_q, "running")

Lm ==
  /\ solver = "lm" /\ Looping
  /\ \/ LmConverged
     \/ ~PoseMet(m_q) /\ (AtCap \/ LmOverflow \/ LmAccepted \/ LmRejected)

(***************************************************************************)
(* dls::step.  Convergence bills the unit it took to notice, the step is   *)
(* taken unconditionally, and the error stays that of the configuration    *)
(* the step was computed from.                                             *)
(***************************************************************************)
\* Slip: the unit of the convergence test is not counted as an iteration.
SlipHalfBilled ==
  PoseMet(m_q) /\ units' = units + 1 /\ UNCHANGED m_iterations /\ SettleThroughGate

DlsConverged == PoseMet(m_q) /\ Bills /\ SettleThroughGate

\* Slip: the step is not billed.
SlipFreeMove ==
  ~CapReached /\ BillsNothing /\ \E trial \in Configs : SettleTrial(trial, m_q)

DlsMoved ==
  /\ ~CapReached /\ Bills
  /\ \E trial \in Configs : SettleTrial(trial, m_q)

Dls ==
  /\ solver = "dls" /\ Looping
  /\ \/ DlsConverged
     \/ ~PoseMet(m_q) /\ (AtCap \/ DlsMoved)

(***************************************************************************)
(* newton_raphson::step.  The line search tries configurations in the box  *)
(* and takes its last one when none is good enough.                        *)
(***************************************************************************)
NewtonConverged == PoseMet(m_q) /\ BillsNothing /\ Settle(m_q, m_q, "converged")

NewtonMoved ==
  /\ ~CapReached /\ Bills
  /\ \E trial \in InLimits : SettleTrial(trial, trial)

Newton ==
  /\ solver = "newton_raphson" /\ Looping
  /\ \/ NewtonConverged
     \/ ~PoseMet(m_q) /\ (AtCap \/ NewtonMoved)

(***************************************************************************)
(* builtin_lbfgsb::step.  It tests the error it cached when it last moved  *)
(* (m_body_error and m_error_norm change together), so a limits policy     *)
(* that moves m_q afterwards goes unnoticed.  Without a descent direction, *)
(* or when the line search fails, it makes the stall check and tries       *)
(* again; a trial it takes is followed by the stall check and, whatever    *)
(* that says, by the limits.                                               *)
(***************************************************************************)
LbfgsbConverged ==
  PoseMet(m_error_at) /\ BillsNothing /\ Settle(m_q, m_error_at, "converged")

LbfgsbAtCap == CapReached /\ Bills /\ Settle(m_q, m_error_at, "iteration_limit")

LbfgsbNoDescent ==
  /\ ~CapReached /\ Bills
  /\ \E check \in StallChecks : Settle(m_q, m_error_at, check)

LbfgsbMoved ==
  /\ ~CapReached /\ Bills
  /\ \E trial \in InLimits, check \in StallChecks :
       \E q \in Enforced(trial) : Settle(q, trial, check)

Lbfgsb ==
  /\ solver = "lbfgsb" /\ Looping
  /\ \/ LbfgsbConverged
     \/ ~PoseMet(m_error_at) /\ (LbfgsbAtCap \/ LbfgsbNoDescent \/ LbfgsbMoved)

NativeIterate == Lm \/ Dls \/ Newton \/ Lbfgsb
===============================================================================
