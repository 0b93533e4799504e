------------------------------ MODULE MCPolicies ------------------------------
(* Every policy over a space with configurations outside the limits. *)
EXTENDS Policies, SmallSpace

\* Every policy with every limits policy.
AllBuilds == Solvers \X LimitsPolicies

BestBuild == {<<"filter_slsqp", "clamp_limits">>}
=============================================================================
