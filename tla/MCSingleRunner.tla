---------------------------- MODULE MCSingleRunner ----------------------------
(* A single-policy runner between two solutions, with every policy behaviour.  *)
EXTENDS SingleRunner, SmallSpace

\* Positive at both solutions, and larger at the one with the larger error.
MetricPositive == [goal |-> 2, best |-> 1]

\* The two metric objectives run the same code over a different metric.
AllObjectives == {"speed", "min_distance", "max_isotropy"}
=============================================================================
