--------------------------- MODULE MCDiscordRoles ---------------------------
(***************************************************************************)
(* Instances of DiscordRoles for TLC.                                      *)
(***************************************************************************)
EXTENDS DiscordRoles, TLC

CONSTANTS m1, m2, d1, d2, q1, q2
=============================================================================
