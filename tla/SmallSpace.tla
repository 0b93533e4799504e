------------------------------ MODULE SmallSpace ------------------------------
(***************************************************************************)
(* Small instances of IkSpace for the MC modules.                          *)
(*   split    has a small error norm but misses the linear tolerance       *)
(*   goal     meets both tolerances, with a larger norm than split         *)
(*   best     is the better of the two solutions                           *)
(*   wound    is goal a full turn away, outside the joint limits           *)
(*   outside  meets the pose, but only outside the joint limits            *)
(*   astray   misses the pose outside the joint limits                     *)
(***************************************************************************)
EXTENDS Naturals

SAng == [split |-> 0, goal |-> 2, best |-> 0, wound |-> 2, outside |-> 0,
         astray |-> 3]
SLin == [split |-> 2, goal |-> 1, best |-> 1, wound |-> 1, outside |-> 0,
         astray |-> 1]
SAngTol == 3
SLinTol == 2
SScalarMax == 99

\* The runners decide nothing by the limits nor by the pose test, only by what a policy
\* says of itself: two solutions, of different error, and no limit.
SGoalsConfigs == {"goal", "best"}
SGoalsAng == [q \in SGoalsConfigs |-> SAng[q]]
SGoalsLin == [q \in SGoalsConfigs |-> SLin[q]]
SGoalsUnlimited == [q \in SGoalsConfigs |-> q]

\* The policies do: spaces with configurations outside the limits.
SBoxConfigs == {"split", "goal", "wound", "outside", "astray"}
SBoxAng == [q \in SBoxConfigs |-> SAng[q]]
SBoxLin == [q \in SBoxConfigs |-> SLin[q]]
SBoxInLimits == {"split", "goal"}
SBoxCanonical == [q \in SBoxConfigs |-> IF q = "wound" THEN "goal" ELSE q]
SBoxClamp == [q \in SBoxConfigs |-> IF q \in SBoxInLimits THEN q ELSE "split"]

\* One solution, one miss, and one configuration outside the limits.
SEdgeConfigs == {"split", "goal", "astray"}
SEdgeAng == [q \in SEdgeConfigs |-> SAng[q]]
SEdgeLin == [q \in SEdgeConfigs |-> SLin[q]]
SEdgeInLimits == {"split", "goal"}
SEdgeCanonical == [q \in SEdgeConfigs |-> q]
SEdgeClamp == [q \in SEdgeConfigs |-> IF q \in SEdgeInLimits THEN q ELSE "split"]
=============================================================================
