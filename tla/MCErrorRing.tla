----------------------------- MODULE MCErrorRing -----------------------------
(* A ring of three that wraps around twice in an attempt. *)
EXTENDS ErrorRing

SomeErrors == 0..3
=============================================================================
