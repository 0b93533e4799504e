----------------------------- MODULE MCRaceRunner -----------------------------
(* Two policies racing for two solutions, with every policy behaviour: both may *)
(* also fail, at a solution's configuration too, and either solution may be met *)
(* first.                                                                       *)
EXTENDS RaceRunner, SmallSpace

\* The second policy starts where the error is larger.
SeedGoal == [i \in 0..1 |-> "goal"]

\* One failing status of the policies' own; abort() adds stalled.
SomeEnds == {"converged", "joint_limit_hit"}

TwoObjectives == {"speed", "min_distance"}
=============================================================================
