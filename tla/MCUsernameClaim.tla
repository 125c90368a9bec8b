--------------------------- MODULE MCUsernameClaim ---------------------------
(* Model values and symmetry for the runs of UsernameClaim. *)
EXTENDS UsernameClaim, TLC

CONSTANTS m1, m2, n1, n2, q1, q2

\* Members, names and requests are only ever compared.
Symmetry == Permutations(Members) \cup Permutations(Names) \cup Permutations(Requests)
=============================================================================
