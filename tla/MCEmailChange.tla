---------------------------- MODULE MCEmailChange ----------------------------
(* Model values and symmetry for the runs of EmailChange. *)
EXTENDS EmailChange, TLC

CONSTANTS m1, m2, a1, a2, a3, q1, q2

\* Members, addresses and requests are only ever compared.
Symmetry == Permutations(Members) \cup Permutations(Addresses) \cup Permutations(Requests)
=============================================================================
