------------------------------ MODULE MCSignIn ------------------------------
(* Two browsers of one member. *)
EXTENDS SignIn, TLC

CONSTANTS b1, b2

MCBrowsers == {b1, b2}
Symmetric == Permutations(MCBrowsers)
=============================================================================
