---------------------------- MODULE PolicyContract ----------------------------
(***************************************************************************)
(* The solve_policy concept as a specification of its own: what a driver   *)
(* sees of a policy from call to call.  SingleRunner and RaceRunner are    *)
(* checked against every policy that behaves like this; the modules of the *)
(* concrete policies show that they do.                                    *)
(***************************************************************************)
EXTENDS SolvePolicy

CONSTANT MaxUnits  \* bound: the largest n a step is asked for

VARIABLES
  shown,  \* solution(), the configuration behind error_norm(), and status()
  billed  \* the work units the last step returned

vars == <<shown, billed>>

Init == /\ shown \in {p \in Policy : p.status = "running"}
        /\ billed = 0

Setup == \E q0 \in Configs : /\ shown' \in PolicySetups(q0)
                             /\ billed' = 0

Step == \E n \in 1..MaxUnits : /\ shown' \in PolicySteps(shown)
                               /\ billed' \in UnitsBilled(shown, n)

Abort == shown' \in AbortOutcomes(shown) /\ UNCHANGED billed

Next == Setup \/ Step \/ Abort

Spec == Init /\ [][Next]_vars
=============================================================================
