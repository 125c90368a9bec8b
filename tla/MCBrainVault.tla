---------------------------- MODULE MCBrainVault ----------------------------
(* One member with two pictures, and two runs of the export. *)
EXTENDS BrainVault, TLC

CONSTANTS v1, v2, q1, q2, r1, r2

MCVersions == {v1, v2}
MCRequests == {q1, q2}
MCRuns == {r1, r2}
Symmetric == Permutations(MCVersions) \cup Permutations(MCRequests) \cup Permutations(MCRuns)
=============================================================================
