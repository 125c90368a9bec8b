------------------------------ MODULE MCSignUp ------------------------------
(* Model values and symmetry for the runs of SignUp. *)
EXTENDS SignUp, TLC

CONSTANTS e1, e2, r1, r2, q1, q2, c1, c2

\* Row ids, requests and codes are only ever compared: permuting them changes nothing.
Symmetry == Permutations(Rows) \cup Permutations(Requests) \cup Permutations(Codes)
=============================================================================
