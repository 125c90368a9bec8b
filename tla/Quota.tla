-------------------------------- MODULE Quota --------------------------------
(***************************************************************************)
(* What the abuse limiter promises its callers, without its table: a key   *)
(* has a window or none; the first use opens one that closes by itself     *)
(* after Window, and the uses beyond MaxUses within it are refused.        *)
(* Limiter implements this specification.                                  *)
(***************************************************************************)
EXTENDS Integers

CONSTANTS
    Keys,     \* the hashed keys, one per rule and identifier
    None,     \* no window
    Window,   \* the rule's window
    MaxUses   \* the rule's maximum

VARIABLES
    time,     \* the clock
    window,   \* each key's open window, if it has one
    verdict   \* what the last use of each key was told

quota == <<time, window, verdict>>

Init ==
    /\ time = 0
    /\ window = [k \in Keys |-> None]
    /\ verdict = [k \in Keys |-> None]

\* The window after one more use.
Used(k) ==
    IF window[k] = None THEN [used |-> 1, closes |-> time + Window]
    ELSE [used |-> window[k].used + 1, closes |-> window[k].closes]

Use(k) ==
    /\ window' = [window EXCEPT ![k] = Used(k)]
    /\ verdict' = [verdict EXCEPT ![k] =
                     [allowed |-> Used(k).used <= MaxUses, wait |-> Used(k).closes - time]]
    /\ UNCHANGED time

\* Time closes the windows it reaches.
Pass ==
    /\ time' = time + 1
    /\ window' = [k \in Keys |->
         IF window[k] # None /\ window[k].closes <= time + 1 THEN None ELSE window[k]]
    /\ UNCHANGED verdict

Next == Pass \/ \E k \in Keys : Use(k)

Spec == Init /\ [][Next]_quota
=============================================================================
