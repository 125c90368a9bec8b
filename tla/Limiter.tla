------------------------------- MODULE Limiter -------------------------------
(***************************************************************************)
(* The abuse limiter of src/lib/auth/limits.ts: one row of abuse_counters  *)
(* per rule and identifier, one atomic upsert per use, and a daily cleanup *)
(* of the rows that have run out.  Nothing closes a window when its time   *)
(* comes: the next use finds the row expired and starts over, unless the   *)
(* cleanup has removed the row before.                                     *)
(*                                                                         *)
(* The rule is fixed (Window, MaxUses); a key stands for one rule and one  *)
(* identifier.                                                             *)
(***************************************************************************)
EXTENDS Integers, FiniteSets, Sequences

CONSTANTS
    Keys,      \* the hashed keys, one per rule and identifier
    None,      \* no row
    Window,    \* the rule's window
    MaxUses,   \* the rule's maximum
    MaxTime,   \* bound of the model: the clock stops here
    MaxCount   \* bound of the model: a counter stops here

CounterRecord == [count : Nat, startedAt : Nat, expiresAt : Nat]

VerdictRecord == [allowed : BOOLEAN, wait : 1..Window]

\* A use that was allowed: when, and the row it wrote.
UseRecord == [at : Nat, row : CounterRecord]

ASSUME LimiterAssumption ==
    /\ None \notin CounterRecord
    /\ None \notin VerdictRecord
    /\ None \notin [used : Nat, closes : Nat]
    /\ Window \in Nat \ {0}
    /\ MaxUses \in Nat \ {0}
    /\ MaxTime \in Nat
    /\ MaxCount \in Nat

VARIABLES
    now,        \* the clock of the database
    counter,    \* the table abuse_counters, by key
    verdict,    \* what the last use of each key was told
    permitted,  \* history: the uses of each key that were allowed, in their order
    promised    \* history: when a refused caller of a key was told to come back

vars == <<now, counter, verdict, permitted, promised>>

-----------------------------------------------------------------------------
(* The upsert *)

\* Slip, off by one: a row that runs out now still counts.
SlipFresh(row, t) == row = None \/ row.expiresAt < t

\* There is no row, or its window has run out: the use starts a new one.
Fresh(row, t) == row = None \/ row.expiresAt <= t

\* Slip, missing reset: a new window starts with the count of the last.
SlipReset(row, t) ==
    IF row = None THEN [count |-> 1, startedAt |-> t, expiresAt |-> t + Window]
    ELSE IF Fresh(row, t) THEN [count |-> row.count + 1, startedAt |-> t, expiresAt |-> t + Window]
    ELSE [row EXCEPT !.count = @ + 1]

\* The row after one more use at time t.
Bumped(row, t) ==
    IF Fresh(row, t) THEN [count |-> 1, startedAt |-> t, expiresAt |-> t + Window]
    ELSE [row EXCEPT !.count = @ + 1]

\* Slip, off by one: the use that reaches the maximum is refused.
SlipVerdict(row, t) ==
    [allowed |-> row.count < MaxUses,
     wait |-> IF row.expiresAt - t > 1 THEN row.expiresAt - t ELSE 1]

\* What hit returns of the row it wrote: whether the use is within the limit, and in
\* how long the window is over, one unit at least.
Verdict(row, t) ==
    [allowed |-> row.count <= MaxUses,
     wait |-> IF row.expiresAt - t > 1 THEN row.expiresAt - t ELSE 1]

-----------------------------------------------------------------------------
Init ==
    /\ now = 0
    /\ counter = [k \in Keys |-> None]
    /\ verdict = [k \in Keys |-> None]
    /\ permitted = [k \in Keys |-> <<>>]
    /\ promised = [k \in Keys |-> 0]

\* One use: the caller hears the verdict on the row it wrote.  A caller who is refused
\* and told to come back is remembered until its time has come.
Hit(k) ==
    LET row == Bumped(counter[k], now)
        told == Verdict(row, now) IN
    /\ row.count <= MaxCount
    /\ counter' = [counter EXCEPT ![k] = row]
    /\ verdict' = [verdict EXCEPT ![k] = told]
    /\ permitted' = IF told.allowed
                     THEN [permitted EXCEPT ![k] = Append(@, [at |-> now, row |-> row])]
                     ELSE permitted
    /\ promised' = IF told.allowed \/ promised[k] > now THEN promised
                   ELSE [promised EXCEPT ![k] = now + told.wait]
    /\ UNCHANGED now

\* Slip: the cleanup judges a window by its start.
SlipStale(k) == counter[k] # None /\ counter[k].startedAt < now

\* The rows the cleanup removes.
Stale(k) == counter[k] # None /\ counter[k].expiresAt < now

Cleanup ==
    /\ \E k \in Keys : Stale(k)
    /\ counter' = [k \in Keys |-> IF Stale(k) THEN None ELSE counter[k]]
    /\ UNCHANGED <<now, verdict, permitted, promised>>

Tick ==
    /\ now < MaxTime
    /\ now' = now + 1
    /\ UNCHANGED <<counter, verdict, permitted, promised>>

\* The clock has reached the bound of the model: nothing more is asked of it.
Horizon == now = MaxTime /\ UNCHANGED vars

Next == Tick \/ Horizon \/ Cleanup \/ \E k \in Keys : Hit(k)

Spec == Init /\ [][Next]_vars

-----------------------------------------------------------------------------
(* Properties *)

TypeOK ==
    /\ now \in 0..MaxTime
    /\ counter \in [Keys -> CounterRecord \cup {None}]
    /\ verdict \in [Keys -> VerdictRecord \cup {None}]
    /\ permitted \in [Keys -> Seq(UseRecord)]
    /\ promised \in [Keys -> Nat]

\* The uses of a key that were allowed between two times.
UsesIn(k, from, to) ==
    {i \in DOMAIN permitted[k] : from <= permitted[k][i].at /\ permitted[k][i].at <= to}

AllowedIn(k, from, to) == Cardinality(UsesIn(k, from, to))

\* Windows follow one another and do not slide, so that any stretch of time of their
\* length meets two of them at most: no more than 2 * MaxUses uses are allowed in it,
\* with or without the cleanup.
BurstBounded ==
    \A k \in Keys, t \in 0..MaxTime : AllowedIn(k, t, t + Window - 1) <= 2 * MaxUses

\* retryAfterSeconds is honest: when the time a refused caller was told to come back at
\* is reached, the key is refused again only after MaxUses new uses were allowed.
RetryHonest ==
    [][\A k \in Keys :
          /\ counter'[k] # counter[k]
          /\ counter'[k] # None
          /\ ~verdict'[k].allowed
          /\ promised[k] <= now
          => AllowedIn(k, promised[k], now) >= MaxUses]_vars

\* A window is open as long as its row has not run out.
OpenWindow(k) ==
    IF Fresh(counter[k], now) THEN None
    ELSE [used |-> counter[k].count, closes |-> counter[k].expiresAt]

Promise ==
    INSTANCE Quota WITH time <- now, window <- [k \in Keys |-> OpenWindow(k)]

\* The table, its lazy expiry and the cleanup keep what Quota promises.
KeepsQuota == Promise!Spec
=============================================================================
