----------------------------- MODULE MCPyIkCalls ------------------------------
(* One thread that solves, while the statements of Next are those of the others. *)
EXTENDS PyIkCalls

Arc(lo, hi) == [lo |-> lo, hi |-> hi]

MCNegInf == -1000
MCBudgets == {-1, 2}
MCBoxes == {<<Arc(-1, 3)>>, <<Arc(NegInf, PosInf)>>}
MCPoints == {<<0>>, <<1>>, <<2>>, <<3>>}
MCNorms == [q \in MCPoints |-> IF q[1] = 1 THEN {0, 1} ELSE {q[1] % 2}]
MCVerified == MCPoints \ {<<3>>}

Ask(thread, kind, max_restarts, ranking, tolSq) ==
  [thread |-> thread, kind |-> kind, max_restarts |-> max_restarts, ranking |-> ranking,
   tolSq |-> tolSq, finite |-> TRUE, fits |-> TRUE, given |-> TRUE]

MCAsks ==
  {[Ask("t1", "exhaustive", 3, "mid_range", 4) EXCEPT !.given = FALSE],
   Ask("t1", "exhaustive", 2, "distance_to_seed", 1),
   Ask("t1", "exhaustive", 2, "min_error", 0),
   Ask("t1", "exhaustive", -1, "min_error", 0),
   [Ask("t1", "exhaustive", 1, "min_error", 0) EXCEPT !.fits = FALSE],
   Ask("t1", "solve_ik", 0, "min_error", 0),
   [Ask("t1", "solve_ik_speed", 0, "min_error", 0) EXCEPT !.finite = FALSE],
   [Ask("t1", "solve_ik_robust", 0, "min_error", 0) EXCEPT !.fits = FALSE]}
===============================================================================
