---------------------------- MODULE UsernameClaim ----------------------------
(***************************************************************************)
(* Claiming and changing a username: setUsername of                        *)
(* src/lib/auth/username-claim.ts, called by saveProfile of                *)
(* profile-plugin.ts, and the part of the daily cleanup that lets go of    *)
(* held names.                                                             *)
(*                                                                         *)
(* A request is a process; a step is one SQL statement.  The transaction   *)
(* runs under READ COMMITTED and holds the lock of the member's row from   *)
(* its first statement.  Time is counted in days.                          *)
(***************************************************************************)
EXTENDS Integers, FiniteSets

CONSTANTS
    Members,       \* accounts
    Names,         \* names that pass checkUsername, lower-cased
    Requests,      \* saves being handled
    None,          \* SQL NULL
    HoldDays,      \* HOLD_DAYS
    CooldownDays,  \* COOLDOWN_DAYS
    MaxTime        \* bound of the model: the clock stops here

\* The hold on a name is kept in one column of the member's row: a second change
\* would overwrite it, so the wait between changes must outlast it.
ASSUME UsernameAssumption ==
    /\ None \notin Members \cup Names \cup Requests \cup Nat
    /\ HoldDays \in Nat
    /\ CooldownDays \in Nat
    /\ HoldDays <= CooldownDays
    /\ MaxTime \in Nat

VARIABLES
    now,       \* the clock
    account,   \* the users table, the columns that names live in
    rowOwner,  \* the transaction that has locked a member's row
    pc,        \* where each request stands
    who,       \* the member it acts for
    wants,     \* the name asked for
    at,        \* the time it took when it began
    answer,    \* what it was answered
    left       \* history: the names that members who are still here have left

local == <<pc, who, wants, at, answer>>
vars == <<now, account, rowOwner, local, left>>

AccountRecord ==
    [here: BOOLEAN, username: Names \cup {None}, previous: Names \cup {None},
     changedAt: Nat \cup {None}]

InTransaction == {"judged", "unheld", "written"}

NewAccount ==
    [here |-> TRUE, username |-> None, previous |-> None, changedAt |-> None]

Init ==
    /\ now = 0
    /\ account = [m \in Members |-> NewAccount]
    /\ rowOwner = [m \in Members |-> None]
    /\ pc = [q \in Requests |-> "idle"]
    /\ who = [q \in Requests |-> None]
    /\ wants = [q \in Requests |-> None]
    /\ at = [q \in Requests |-> 0]
    /\ answer = [q \in Requests |-> "none"]
    /\ left = {}

-----------------------------------------------------------------------------
(* What the statements read *)

\* After the first change there is a wait.
TooSoon(m, t) ==
    account[m].changedAt # None /\ account[m].changedAt + CooldownDays > t

\* Slip: a name is free again on the last day of its hold.
SlipHeldByAnother(n, m, t) ==
    \E o \in Members \ {m} :
        /\ account[o].here
        /\ account[o].previous = n
        /\ account[o].changedAt + HoldDays > t + 1

\* Somebody else left the name less than HOLD_DAYS ago.
HeldByAnother(n, m, t) ==
    \E o \in Members \ {m} :
        /\ account[o].here
        /\ account[o].previous = n
        /\ account[o].changedAt + HoldDays > t

InUse(n) == \E o \in Members : account[o].here /\ account[o].username = n

\* The unique index holds an entry whose fate is open: another transaction has
\* written the name, or has written another one over it.
Pending(n) ==
    \E p \in Requests : pc[p] = "written" /\ n \in {wants[p], account[who[p]].username}

\* Slip: the cleanup lets go of every hold.
SlipLapsed(m) == account[m].here /\ account[m].previous # None

\* A hold that has run out.
Lapsed(m) ==
    /\ account[m].here
    /\ account[m].previous # None
    /\ account[m].changedAt + HoldDays <= now

-----------------------------------------------------------------------------
(* POST /profile/save *)

Step(q, next) == pc' = [pc EXCEPT ![q] = next]

Answer(q, what) ==
    /\ Step(q, "answered")
    /\ answer' = [answer EXCEPT ![q] = what]
    /\ UNCHANGED <<who, wants, at>>

\* Slip: the end of a transaction leaves its row lock behind.
SlipUnlock(q) == UNCHANGED rowOwner

Unlock(q) ==
    rowOwner' = [m \in Members |-> IF rowOwner[m] = q THEN None ELSE rowOwner[m]]

Rollback(q, what) ==
    /\ Unlock(q)
    /\ Answer(q, what)
    /\ UNCHANGED <<now, account, left>>

\* The caller takes the time before the transaction opens.
Begin(q, m, n) ==
    /\ pc[q] = "idle"
    /\ account[m].here
    /\ Step(q, "arrived")
    /\ who' = [who EXCEPT ![q] = m]
    /\ wants' = [wants EXCEPT ![q] = n]
    /\ at' = [at EXCEPT ![q] = now]
    /\ UNCHANGED <<now, account, rowOwner, answer, left>>

\* Slip: a SELECT without FOR UPDATE.
SlipLockRow(q) ==
    /\ pc[q] = "arrived"
    /\ account[who[q]].here
    /\ account[who[q]].username # wants[q]
    /\ ~TooSoon(who[q], at[q])
    /\ Step(q, "judged")
    /\ UNCHANGED <<now, account, rowOwner, who, wants, at, answer, left>>

\* SELECT ... FOR UPDATE, and the wait judged on what it returned.
LockRow(q) ==
    /\ pc[q] = "arrived"
    /\ rowOwner[who[q]] = None
    /\ account[who[q]].here
    /\ account[who[q]].username # wants[q]
    /\ ~TooSoon(who[q], at[q])
    /\ rowOwner' = [rowOwner EXCEPT ![who[q]] = q]
    /\ Step(q, "judged")
    /\ UNCHANGED <<now, account, who, wants, at, answer, left>>

\* The same statement where the transaction ends at once.
NoAccount(q) ==
    /\ pc[q] = "arrived"
    /\ rowOwner[who[q]] = None
    /\ ~account[who[q]].here
    /\ Rollback(q, "invalid")

AlreadyTheirs(q) ==
    /\ pc[q] = "arrived"
    /\ rowOwner[who[q]] = None
    /\ account[who[q]].here
    /\ account[who[q]].username = wants[q]
    /\ Step(q, "named")
    /\ UNCHANGED <<now, account, rowOwner, who, wants, at, answer, left>>

\* Slip: the refusal looks at the clock again.
SlipChangeTooSoon(q) ==
    /\ pc[q] = "arrived"
    /\ rowOwner[who[q]] = None
    /\ account[who[q]].here
    /\ account[who[q]].username # wants[q]
    /\ TooSoon(who[q], now)
    /\ Rollback(q, "too-soon")

ChangeTooSoon(q) ==
    /\ pc[q] = "arrived"
    /\ rowOwner[who[q]] = None
    /\ account[who[q]].here
    /\ account[who[q]].username # wants[q]
    /\ TooSoon(who[q], at[q])
    /\ Rollback(q, "too-soon")

\* The one thing the index cannot see is looked up; the SELECT takes no lock.
CheckHold(q) ==
    /\ pc[q] = "judged"
    /\ ~HeldByAnother(wants[q], who[q], at[q])
    /\ Step(q, "unheld")
    /\ UNCHANGED <<now, account, rowOwner, who, wants, at, answer, left>>

NameHeld(q) ==
    /\ pc[q] = "judged"
    /\ HeldByAnother(wants[q], who[q], at[q])
    /\ Rollback(q, "taken")

\* Slip: no unique index.
SlipWrite(q) ==
    /\ pc[q] = "unheld"
    /\ Step(q, "written")
    /\ UNCHANGED <<now, account, rowOwner, who, wants, at, answer, left>>

\* The UPDATE waits while the entry's fate is open, then the index decides.
Write(q) ==
    /\ pc[q] = "unheld"
    /\ ~Pending(wants[q])
    /\ ~InUse(wants[q])
    /\ Step(q, "written")
    /\ UNCHANGED <<now, account, rowOwner, who, wants, at, answer, left>>

NameInUse(q) ==
    /\ pc[q] = "unheld"
    /\ ~Pending(wants[q])
    /\ InUse(wants[q])
    /\ Rollback(q, "taken")

\* Slip: the end of the last hold is stored in place of the date of the change.
SlipWritten(m, n, t) ==
    [account[m] EXCEPT !.username = n, !.previous = account[m].username,
                       !.changedAt = t - HoldDays]

\* A first claim is not a change: it sets no date, so one correction is still free.
Written(m, n, t) ==
    IF account[m].username = None
    THEN [account[m] EXCEPT !.username = n]
    ELSE [account[m] EXCEPT !.username = n, !.previous = account[m].username,
                            !.changedAt = t]

Commit(q) ==
    LET m == who[q] IN
    /\ pc[q] = "written"
    /\ account' = [account EXCEPT ![m] = Written(m, wants[q], at[q])]
    /\ left' = left \cup
         (IF account[m].username = None THEN {}
          ELSE {[by |-> m, name |-> account[m].username, at |-> at[q]]})
    /\ Unlock(q)
    /\ Step(q, "named")
    /\ UNCHANGED <<now, who, wants, at, answer>>

\* The display name, a column no rule here reads, follows in a statement of its own.
SaveDisplayName(q) ==
    /\ pc[q] = "named"
    /\ rowOwner[who[q]] = None
    /\ Answer(q, "ok")
    /\ UNCHANGED <<now, account, rowOwner, left>>

-----------------------------------------------------------------------------
(* The surroundings *)

\* Deleting an account frees its name and forgets what it held.
DeleteAccount(m) ==
    /\ account[m].here
    /\ rowOwner[m] = None
    /\ account' = [account EXCEPT ![m].here = FALSE]
    /\ left' = {l \in left : l.by # m}
    /\ UNCHANGED <<now, rowOwner, local>>

\* A new account; ids are fresh, so no request in flight knows it.
Register(m) ==
    /\ ~account[m].here
    /\ \A q \in Requests : who[q] # m
    /\ account' = [account EXCEPT ![m] = NewAccount]
    /\ UNCHANGED <<now, rowOwner, local, left>>

\* The daily cleanup lets go of the holds that have run out.
CleanupHolds ==
    LET lapsed == {m \in Members : Lapsed(m)} IN
    /\ lapsed # {}
    /\ \A m \in lapsed : rowOwner[m] = None
    /\ account' = [m \in Members |-> IF m \in lapsed
                     THEN [account[m] EXCEPT !.previous = None] ELSE account[m]]
    /\ UNCHANGED <<now, rowOwner, local, left>>

Forget(q) ==
    /\ Step(q, "idle")
    /\ who' = [who EXCEPT ![q] = None]
    /\ wants' = [wants EXCEPT ![q] = None]
    /\ at' = [at EXCEPT ![q] = 0]
    /\ answer' = [answer EXCEPT ![q] = "none"]

\* The server handling q dies: an open transaction is undone.
Crash(q) ==
    /\ pc[q] \notin {"idle", "answered"}
    /\ Unlock(q)
    /\ Forget(q)
    /\ UNCHANGED <<now, account, left>>

Finish(q) ==
    /\ pc[q] = "answered"
    /\ Forget(q)
    /\ UNCHANGED <<now, account, rowOwner, left>>

Tick ==
    /\ now < MaxTime
    /\ now' = now + 1
    /\ UNCHANGED <<account, rowOwner, local, left>>

Progress(q) ==
    \/ LockRow(q) \/ NoAccount(q) \/ AlreadyTheirs(q) \/ ChangeTooSoon(q)
    \/ CheckHold(q) \/ NameHeld(q)
    \/ Write(q) \/ NameInUse(q)
    \/ Commit(q) \/ SaveDisplayName(q)

Next ==
    \/ \E q \in Requests :
         \/ \E m \in Members, n \in Names : Begin(q, m, n)
         \/ Progress(q) \/ Crash(q) \/ Finish(q)
    \/ \E m \in Members : DeleteAccount(m) \/ Register(m)
    \/ CleanupHolds
    \/ Tick

Spec == Init /\ [][Next]_vars

-----------------------------------------------------------------------------
(* Properties *)

TypeOK ==
    /\ now \in Nat
    /\ account \in [Members -> AccountRecord]
    /\ rowOwner \in [Members -> Requests \cup {None}]
    /\ pc \in [Requests -> {"idle", "arrived", "named", "answered"} \cup InTransaction]
    /\ who \in [Requests -> Members \cup {None}]
    /\ wants \in [Requests -> Names \cup {None}]
    /\ at \in [Requests -> Nat]
    /\ answer \in [Requests -> {"none", "ok", "invalid", "taken", "too-soon"}]
    /\ \A l \in left : l.by \in Members /\ l.name \in Names /\ l.at \in Nat

\* "Two people cannot end up with one name", whichever of their claims comes first.
NamesUnique ==
    \A m, o \in Members :
        account[m].here /\ account[o].here /\ account[m].username = account[o].username
          /\ account[m].username # None => m = o

\* "Two requests at once cannot both pass": changes of one member's name are
\* COOLDOWN_DAYS apart, however many of their saves run at once.
ChangesSpaced ==
    \A k, l \in left :
        k.by = l.by /\ k # l => \/ k.at + CooldownDays <= l.at
                                \/ l.at + CooldownDays <= k.at

\* A look-up of the hold never misses a name that somebody else still here had left by
\* then, whatever they, the cleanup and the clock have done since.
HoldSeen ==
    [][\A q \in Requests :
          pc[q] = "judged" /\ pc'[q] = "unheld" =>
            \A l \in left : l.name = wants[q] /\ l.by # who[q] => l.at + HoldDays <= now]_vars

UnderWay == {q \in Requests : pc[q] \notin {"idle", "answered"}}

\* The next statement of a save waits for the lock of its member's row, or for the fate
\* of the entry of its name.
Waits(q) ==
    \/ pc[q] \in {"arrived", "named"} /\ rowOwner[who[q]] # None
    \/ pc[q] = "unheld" /\ Pending(wants[q])

\* Row locks and index waits never end in a circle: while saves are under way, one of them
\* does not wait.
NoStandstill == UnderWay # {} => \E q \in UnderWay : ~Waits(q)

\* The state is well formed, the locks and the index keep names apart, and no save waits
\* for ever.
LocksSound == TypeOK /\ NamesUnique /\ NoStandstill

\* A save whose statement waits for nobody is always answered or led on: what it has read
\* meets one of the code's conditions.
SavesGoOn == \A q \in UnderWay : Waits(q) \/ ENABLED Progress(q)
=============================================================================
