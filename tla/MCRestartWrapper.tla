--------------------------- MODULE MCRestartWrapper ---------------------------
(* The wrapper around every inner policy, over a space with configurations *)
(* outside the limits.                                                     *)
EXTENDS RestartWrapper, SmallSpace
=============================================================================
