------------------------------ MODULE MCBackup ------------------------------
(* Three tables, the last of which, and a column of the first, come with a migration. *)
EXTENDS Backup, TLC

CONSTANTS users, sessions, twoFactors, k1, f1, b1, b2

MCTables == {users, sessions, twoFactors}
MCRefs == {<<sessions, users>>, <<twoFactors, users>>}
MCCreates == <<{users, sessions}, {twoFactors}>>
MCWidens == <<{}, {users}>>
MCKeys == {k1}
MCNames == {f1}
MCBackups == {b1, b2}
Symmetric == Permutations(MCBackups)
=============================================================================
