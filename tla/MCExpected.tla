------------------------------ MODULE MCExpected ------------------------------
(* Three objects and two payloads, none of them special. *)
EXTENDS Expected, TLC

Symmetry == Permutations(Objects) \cup Permutations(Payloads)
=============================================================================
