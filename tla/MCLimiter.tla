------------------------------ MODULE MCLimiter ------------------------------
(* Model values and symmetry for the runs of Limiter. *)
EXTENDS Limiter, TLC

CONSTANTS k1, k2

Symmetry == Permutations(Keys)
=============================================================================
