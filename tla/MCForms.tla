------------------------------- MODULE MCForms -------------------------------
(* Every form in a tab by itself, and the settings of two-factor in two tabs. *)
EXTENDS Forms, TLC

CONSTANTS t1, t2, e1, e2

MCTabs == {t1, t2}
MCEntries == {e1, e2}
Alone == {"signin", "signup", "forgot", "reset", "password", "delete", "devices", "discord", "lesson",
          "email", "avatar", "onboarding", "settings", "checkpoint"}
MCOpenings ==
    {[t \in MCTabs |-> IF t = t1 THEN form ELSE "closed"] : form \in Alone}
        \cup {[t \in MCTabs |-> "factor"]}
Symmetric == Permutations(MCEntries)
=============================================================================
