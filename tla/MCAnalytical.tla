----------------------------- MODULE MCAnalytical -----------------------------
(* Eight units to the turn; the arms differ in geometry, conventions and limits. *)
EXTENDS UnwrappedSolver

Arc(lo, hi) == [lo |-> lo, hi |-> hi]
Free == Arc(NegInf, PosInf)

Arm ==
  [revolutes |-> TRUE, ortho |-> TRUE, shoulder |-> 0, wrist |-> 0, links |-> <<2, 1>>,
   bend |-> 0, finite |-> TRUE, offsets |-> <<0, 0, 0, 0>>, signs |-> <<1, 1, 1, 1>>,
   zeroPitch |-> <<TRUE, TRUE, TRUE, TRUE>>,
   limits |-> <<Arc(-4, 4), Arc(0, 7), Free, Arc(-4, 12)>>]

MCChains ==
  {Arm,
   [Arm EXCEPT !.links = <<1, 1>>, !.wrist = 1, !.shoulder = 1, !.bend = 1,
               !.offsets = <<1, -4, 0, 4>>, !.signs = <<1, -1, -1, 1>>,
               !.zeroPitch = <<TRUE, FALSE, TRUE, TRUE>>,
               !.limits = <<Arc(5, 12), Arc(-2, 4), Arc(-9, 2), Arc(NegInf, 3)>>],
   [Arm EXCEPT !.links = <<1, 2>>, !.wrist = 3,
               !.limits = <<Arc(6, PosInf), Arc(-12, 1), Arc(-4, 4), Free>>],
   [Arm EXCEPT !.links = <<1, 0>>, !.wrist = 1, !.finite = FALSE],
   [Arm EXCEPT !.links = <<0, 1>>, !.wrist = 3],
   [Arm EXCEPT !.ortho = FALSE, !.revolutes = FALSE]}

\* Two links of one length: the target may be the base.
MCEqualLinks == {[Arm EXCEPT !.links = <<1, 1>>]}

MCNegInf == -1000
MCPairs == {0, 4, -4}
MCSeeds == {<<0, 0, 0, 0>>, <<6, -7, 9, -5>>}
MCWrists == {<<0, 0>>, <<0, 4>>, <<0, 2>>}
MCTurns == -2..2
===============================================================================
