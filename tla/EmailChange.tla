----------------------------- MODULE EmailChange -----------------------------
(***************************************************************************)
(* Changing the email address of an account: the endpoints start and       *)
(* verify of src/lib/auth/email-change.ts, the rows of `verifications` and *)
(* `users` they write, the guess counters they keep in abuse_counters, and *)
(* the cleanup of all three.                                               *)
(*                                                                         *)
(* A request is a process; a step is one SQL statement, and a transaction  *)
(* runs under READ COMMITTED: a DELETE picks its rows by what is committed *)
(* when it begins and then locks them one by one.  What it has changed is  *)
(* written here when it commits.  Rows are numbered in the order in which  *)
(* they were inserted.  The code of a row is known to whoever reads the    *)
(* mail it was sent in, and a code guessed by luck is left out.            *)
(***************************************************************************)
EXTENDS Integers, FiniteSets

CONSTANTS
    Members,     \* accounts
    Addresses,   \* normalised email addresses
    Requests,    \* requests being handled
    None,        \* SQL NULL: no row, no lock, no account yet
    Gone,        \* the account has been deleted
    Wrong,       \* a code of no row
    TTL,         \* EMAIL_CHANGE_TTL_SECONDS
    Window,      \* the window of emailChangeCodePerChange
    MaxGuesses,  \* the maximum of emailChangeCodePerChange
    MaxRows,     \* bound of the model: pending changes ever started
    MaxTime,     \* bound of the model: the clock stops here
    Leap         \* how far the clock moves at once

Rows == 1..MaxRows

\* The counter of a row outlives the row: both last 15 minutes, and it begins later.
ASSUME EmailChangeAssumption ==
    /\ {None, Gone} \cap (Members \cup Addresses \cup Requests \cup Rows) = {}
    /\ None # Gone
    /\ Wrong \notin Rows \cup {None}
    /\ None \notin [count : Nat, expiresAt : Nat]
    /\ IsFiniteSet(Requests)
    /\ TTL \in Nat \ {0}
    /\ Window \in Nat \ {0}
    /\ TTL <= Window
    /\ MaxGuesses \in Nat \ {0}
    /\ MaxRows \in Nat
    /\ MaxTime \in Nat
    /\ Leap \in Nat \ {0}

VARIABLES
    now,        \* the clock of the database
    email,      \* users.email, by member
    pending,    \* the rows of verifications
    guesses,    \* the counters in abuse_counters, by row
    issued,     \* how many rows have been inserted
    rowOwner,   \* the transaction that has locked a row of verifications
    userOwner,  \* the transaction that has written a member's row of users
    pc,         \* where each request stands
    req,        \* what it knows
    mailed,     \* rows whose code reached the address it was sent to
    lapses,     \* history: when each row runs out
    judged,     \* history: guesses compared with a row's code before it ran out
    spent       \* history: how often the code of a row moved an address

locks == <<rowOwner, userOwner>>
tables == <<email, pending, guesses, issued>>
history == <<mailed, lapses, judged, spent>>
vars == <<now, tables, locks, pc, req, history>>

PendingRecord == [member : Members, address : Addresses, coded : BOOLEAN, expiresAt : Nat]

CounterRecord == [count : Nat, expiresAt : Nat]

\* What a request knows: who sent it and with which address or code, what it has read,
\* and the rows its DELETE has still to lock.
RequestRecord ==
    [member : Members \cup {None}, address : Addresses \cup {None},
     typed : Rows \cup {Wrong, None}, coded : BOOLEAN, row : Rows \cup {None},
     todo : SUBSET Rows]

Nothing ==
    [member |-> None, address |-> None, typed |-> None, coded |-> FALSE, row |-> None,
     todo |-> {}]

Init ==
    /\ now = 0
    /\ email \in [Members -> Addresses \cup {None}]
    /\ \A m, l \in Members : email[m] = email[l] /\ email[m] # None => m = l
    /\ pending = [r \in Rows |-> None]
    /\ guesses = [r \in Rows |-> None]
    /\ issued = 0
    /\ rowOwner = [r \in Rows |-> None]
    /\ userOwner = [m \in Members |-> None]
    /\ pc = [q \in Requests |-> "idle"]
    /\ req = [q \in Requests |-> Nothing]
    /\ mailed = {}
    /\ lapses = [r \in Rows |-> 0]
    /\ judged = [r \in Rows |-> 0]
    /\ spent = [r \in Rows |-> 0]

-----------------------------------------------------------------------------
(* What the statements read *)

HasAccount(m) == email[m] \in Addresses

\* Slip: the pending change of any member will do.
SlipLive(m) == {r \in Rows : pending[r] # None /\ pending[r].expiresAt > now}

\* The pending changes a member's code may be compared with.
Live(m) ==
    {r \in Rows : pending[r] # None /\ pending[r].member = m /\ pending[r].expiresAt > now}

\* Slip: the window starts again with every guess.
SlipCounted(counter) == [count |-> 1, expiresAt |-> now + Window]

\* The counter of a row after one more guess.  Beyond the maximum all counts are alike
\* to the code, and one stands for them (bound of the model).
Counted(counter) ==
    IF counter = None \/ counter.expiresAt <= now
    THEN [count |-> 1, expiresAt |-> now + Window]
    ELSE IF counter.count > MaxGuesses THEN counter
    ELSE [counter EXCEPT !.count = @ + 1]

\* The open transactions that have written a new address of their member.
Movers == {q \in Requests : pc[q] = "moved" /\ userOwner[req[q].member] = q}

\* The unique index holds an entry for a that an open transaction has written or is
\* about to remove: an insertion of a has to wait for it.
Unsettled(m, a) ==
    \E q \in Movers :
        req[q].member # m /\ (req[q].address = a \/ email[req[q].member] = a)

\* Another account has the address.
InUse(m, a) == \E l \in Members \ {m} : email[l] = a

-----------------------------------------------------------------------------
(* Control *)

Step(q, at) == pc' = [pc EXCEPT ![q] = at]

\* The request is answered, with a refusal or not, and over.
Answer(q) ==
    /\ Step(q, "idle")
    /\ req' = [req EXCEPT ![q] = Nothing]

\* From here on the request needs no more than a row, and whether it has a code.
Keep(q, r, coded) ==
    req' = [req EXCEPT ![q] = [Nothing EXCEPT !.row = r, !.coded = coded]]

\* Slip: the rows of verifications stay locked.
SlipUnlock(q) ==
    /\ userOwner' = [m \in Members |-> IF userOwner[m] = q THEN None ELSE userOwner[m]]
    /\ UNCHANGED rowOwner

Unlock(q) ==
    /\ rowOwner' = [r \in Rows |-> IF rowOwner[r] = q THEN None ELSE rowOwner[r]]
    /\ userOwner' = [m \in Members |-> IF userOwner[m] = q THEN None ELSE userOwner[m]]

-----------------------------------------------------------------------------
(* POST /account/email/start *)

\* The password was right, the address looks like one and is not the member's own, and
\* the limits let the request pass; a request they refuse changes nothing here.
Start(q, m, a) ==
    /\ pc[q] = "idle"
    /\ HasAccount(m)
    /\ email[m] # a
    /\ issued + Cardinality({p \in Requests : pc[p] \in {"start", "replace", "insert"}})
         < MaxRows
    /\ req' = [req EXCEPT ![q] = [Nothing EXCEPT !.member = m, !.address = a]]
    /\ Step(q, "start")
    /\ UNCHANGED <<now, tables, locks, history>>

\* Does the address have an account?  Then the row will have no code.
LookUp(q) ==
    /\ pc[q] = "start"
    /\ req' = [req EXCEPT ![q].coded = \A m \in Members : email[m] # req[q].address]
    /\ Step(q, "replace")
    /\ UNCHANGED <<now, tables, locks, history>>

\* The DELETE begins: these are the rows it will remove.
Replace(q) ==
    /\ pc[q] = "replace"
    /\ req' = [req EXCEPT ![q].todo =
                 {r \in Rows : pending[r] # None /\ pending[r].member = req[q].member}]
    /\ Step(q, "insert")
    /\ UNCHANGED <<now, tables, locks, history>>

\* It locks the next of them, or passes over one that is gone by now.
ReplaceNext(q) ==
    /\ pc[q] = "insert"
    /\ \E r \in req[q].todo :
         /\ \A s \in req[q].todo : r <= s
         /\ rowOwner[r] = None
         /\ rowOwner' = IF pending[r] = None THEN rowOwner ELSE [rowOwner EXCEPT ![r] = q]
         /\ req' = [req EXCEPT ![q].todo = @ \ {r}]
    /\ UNCHANGED <<now, tables, userOwner, pc, history>>

\* The new row is inserted and the transaction commits.
Insert(q) ==
    /\ pc[q] = "insert"
    /\ req[q].todo = {}
    /\ issued' = issued + 1
    /\ pending' = [r \in Rows |->
         IF r = issued + 1
         THEN [member |-> req[q].member, address |-> req[q].address, coded |-> req[q].coded,
               expiresAt |-> now + TTL]
         ELSE IF rowOwner[r] = q THEN None ELSE pending[r]]
    /\ Keep(q, issued + 1, req[q].coded)
    /\ Unlock(q)
    /\ Step(q, "mail")
    /\ lapses' = [lapses EXCEPT ![issued + 1] = now + TTL]
    /\ UNCHANGED <<now, email, guesses, mailed, judged, spent>>

\* A code goes to the new address, if it is within its daily budget and the mail is
\* accepted; an address with an account gets a note without one.
Mail(q) ==
    /\ pc[q] = "mail"
    /\ mailed' \in {mailed, IF req[q].coded THEN mailed \cup {req[q].row} ELSE mailed}
    /\ Answer(q)
    /\ UNCHANGED <<now, tables, locks, lapses, judged, spent>>

-----------------------------------------------------------------------------
(* POST /account/email/verify *)

\* The session middleware has found the account.
Verify(q, m, code) ==
    /\ pc[q] = "idle"
    /\ HasAccount(m)
    /\ req' = [req EXCEPT ![q] = [Nothing EXCEPT !.member = m, !.typed = code]]
    /\ Step(q, "verify")
    /\ UNCHANGED <<now, tables, locks, history>>

\* Slip: a member without a pending change is not answered.
SlipFind(q) ==
    /\ pc[q] = "verify"
    /\ \E r \in Live(req[q].member) :
         /\ req' = [req EXCEPT ![q].row = r, ![q].address = pending[r].address,
                               ![q].coded = pending[r].coded]
         /\ Step(q, "count")
    /\ UNCHANGED <<now, tables, locks, history>>

\* Some pending change of the member that has not run out, or none.
Find(q) ==
    /\ pc[q] = "verify"
    /\ \/ \E r \in Live(req[q].member) :
            /\ req' = [req EXCEPT ![q].row = r, ![q].address = pending[r].address,
                                  ![q].coded = pending[r].coded]
            /\ Step(q, "count")
       \/ Live(req[q].member) = {} /\ Answer(q)
    /\ UNCHANGED <<now, tables, locks, history>>

\* The guess is counted first, then compared with what was read.
Count(q) ==
    LET r == req[q].row
        counter == Counted(guesses[r])
        allowed == counter.count <= MaxGuesses
        matches == req[q].coded /\ req[q].typed = r IN
    /\ pc[q] = "count"
    /\ guesses' = [guesses EXCEPT ![r] = counter]
    /\ judged' = IF allowed /\ now < lapses[r]
                 THEN [judged EXCEPT ![r] = @ + 1] ELSE judged
    /\ \/ ~allowed /\ Step(q, "burn") /\ Keep(q, r, FALSE)
       \/ allowed /\ matches /\ Step(q, "consume") /\ UNCHANGED req
       \/ allowed /\ ~matches /\ counter.count >= MaxGuesses /\ Step(q, "burn") /\ Keep(q, r, FALSE)
       \/ allowed /\ ~matches /\ counter.count < MaxGuesses /\ Answer(q)
    /\ UNCHANGED <<now, email, pending, issued, locks, mailed, lapses, spent>>

\* The last wrong guess removes the pending change, in a statement of its own.
Burn(q) ==
    /\ pc[q] = "burn"
    /\ rowOwner[req[q].row] = None
    /\ pending' = [pending EXCEPT ![req[q].row] = None]
    /\ Answer(q)
    /\ UNCHANGED <<now, email, guesses, issued, locks, history>>

\* Slip: whether the DELETE removed a row is not looked at.
SlipConsume(q) ==
    /\ pc[q] = "consume"
    /\ rowOwner[req[q].row] = None
    /\ rowOwner' = [rowOwner EXCEPT ![req[q].row] = q]
    /\ Step(q, "move")
    /\ UNCHANGED <<now, tables, userOwner, req, history>>

\* The transaction begins by removing the pending change, which somebody else may have
\* used, replaced or burnt.
Consume(q) ==
    /\ pc[q] = "consume"
    /\ rowOwner[req[q].row] = None
    /\ \/ /\ pending[req[q].row] # None
          /\ rowOwner' = [rowOwner EXCEPT ![req[q].row] = q]
          /\ Step(q, "move")
          /\ UNCHANGED req
       \/ /\ pending[req[q].row] = None
          /\ Answer(q)
          /\ UNCHANGED rowOwner
    /\ UNCHANGED <<now, tables, userOwner, history>>

\* Then it writes the new address, waiting for the member's row and for the entries of
\* the unique index.  A member who is gone has no row: nothing is written.  The two waits
\* are one step.  They could only form a circle if two members moved to each other's
\* address, and an address in use is never sent a code.
Move(q) ==
    /\ pc[q] = "move"
    /\ userOwner[req[q].member] = None
    /\ HasAccount(req[q].member) => /\ ~Unsettled(req[q].member, req[q].address)
                                    /\ ~InUse(req[q].member, req[q].address)
    /\ userOwner' = IF HasAccount(req[q].member)
                    THEN [userOwner EXCEPT ![req[q].member] = q] ELSE userOwner
    /\ Step(q, "moved")
    /\ UNCHANGED <<now, tables, rowOwner, req, history>>

\* The address got an account since the code was sent: rolled back.
MoveRefused(q) ==
    /\ pc[q] = "move"
    /\ HasAccount(req[q].member)
    /\ userOwner[req[q].member] = None
    /\ ~Unsettled(req[q].member, req[q].address)
    /\ InUse(req[q].member, req[q].address)
    /\ Unlock(q)
    /\ Answer(q)
    /\ UNCHANGED <<now, tables, history>>

Commit(q) ==
    LET m == req[q].member  r == req[q].row IN
    /\ pc[q] = "moved"
    /\ pending' = [pending EXCEPT ![r] = None]
    /\ email' = IF userOwner[m] = q THEN [email EXCEPT ![m] = req[q].address] ELSE email
    /\ spent' = IF userOwner[m] = q THEN [spent EXCEPT ![r] = @ + 1] ELSE spent
    /\ req' = [req EXCEPT ![q] = Nothing]
    /\ Unlock(q)
    /\ Step(q, "notify")
    /\ UNCHANGED <<now, guesses, issued, mailed, lapses, judged>>

\* A notice goes out, to the address the session had at the beginning.
Notify(q) ==
    /\ pc[q] = "notify"
    /\ Answer(q)
    /\ UNCHANGED <<now, tables, locks, history>>

-----------------------------------------------------------------------------
(* The surroundings *)

\* Somebody signs up.
Register(m, a) ==
    /\ email[m] = None
    /\ ~Unsettled(m, a)
    /\ ~InUse(m, a)
    /\ email' = [email EXCEPT ![m] = a]
    /\ UNCHANGED <<now, pending, guesses, issued, locks, pc, req, history>>

\* A member deletes their account; pending changes are not tied to it.
DeleteAccount(m) ==
    /\ HasAccount(m)
    /\ userOwner[m] = None
    /\ email' = [email EXCEPT ![m] = Gone]
    /\ UNCHANGED <<now, pending, guesses, issued, locks, pc, req, history>>

\* The daily cleanup removes what has run out.
Cleanup ==
    LET old(row) == row # None /\ row.expiresAt < now IN
    /\ \E r \in Rows : old(pending[r]) \/ old(guesses[r])
    /\ \A r \in Rows : old(pending[r]) => rowOwner[r] = None
    /\ pending' = [r \in Rows |-> IF old(pending[r]) THEN None ELSE pending[r]]
    /\ guesses' = [r \in Rows |-> IF old(guesses[r]) THEN None ELSE guesses[r]]
    /\ UNCHANGED <<now, email, issued, locks, pc, req, history>>

\* The server handling q dies: an open transaction is undone, and the browser hears of it.
Crash(q) ==
    /\ pc[q] # "idle"
    /\ Unlock(q)
    /\ Answer(q)
    /\ UNCHANGED <<now, tables, history>>

Tick ==
    /\ now + Leap <= MaxTime
    /\ now' = now + Leap
    /\ UNCHANGED <<tables, locks, pc, req, history>>

\* The clock has reached the bound of the model and nobody is being served.
Horizon ==
    /\ now + Leap > MaxTime
    /\ \A q \in Requests : pc[q] = "idle"
    /\ UNCHANGED vars

Progress(q) ==
    \/ LookUp(q) \/ Replace(q) \/ ReplaceNext(q) \/ Insert(q) \/ Mail(q)
    \/ Find(q) \/ Count(q) \/ Burn(q) \/ Consume(q)
    \/ Move(q) \/ MoveRefused(q) \/ Commit(q) \/ Notify(q)

Next ==
    \/ \E q \in Requests :
         \/ \E m \in Members, a \in Addresses : Start(q, m, a)
         \/ \E m \in Members, code \in mailed \cup {Wrong} : Verify(q, m, code)
         \/ Progress(q) \/ Crash(q)
    \/ \E m \in Members : DeleteAccount(m) \/ \E a \in Addresses : Register(m, a)
    \/ Cleanup
    \/ Tick
    \/ Horizon

Spec == Init /\ [][Next]_vars

-----------------------------------------------------------------------------
(* Properties *)

\* Types, and locks belong to open transactions.
TypeOK ==
    /\ now \in Nat
    /\ email \in [Members -> Addresses \cup {None, Gone}]
    /\ pending \in [Rows -> PendingRecord \cup {None}]
    /\ guesses \in [Rows -> CounterRecord \cup {None}]
    /\ issued \in 0..MaxRows
    /\ rowOwner \in [Rows -> Requests \cup {None}]
    /\ userOwner \in [Members -> Requests \cup {None}]
    /\ pc \in [Requests -> {"idle", "start", "replace", "insert", "mail", "verify", "count",
                            "burn", "consume", "move", "moved", "notify"}]
    /\ req \in [Requests -> RequestRecord]
    /\ mailed \subseteq Rows
    /\ lapses \in [Rows -> Nat]
    /\ judged \in [Rows -> Nat]
    /\ spent \in [Rows -> Nat]
    /\ \A r \in Rows : rowOwner[r] # None => pc[rowOwner[r]] \in {"insert", "move", "moved"}
    /\ \A m \in Members : userOwner[m] # None => pc[userOwner[m]] = "moved"

\* "The address changes only when that code is typed back, in the same account": an
\* account moves only to an address that was sent a code this member asked for.
ChangeIsProven ==
    [][\A m \in Members :
          HasAccount(m) /\ email'[m] \in Addresses /\ email'[m] # email[m]
            => \E r \in mailed : pending[r] # None /\ pending[r].member = m
                                   /\ pending[r].address = email'[m]]_vars

\* "A code works once": however many requests carry it.
CodeWorksOnce == \A r \in Rows : spent[r] <= 1

\* "Any number of concurrent guesses still gets five in total": for one pending change.
GuessesBounded == \A r \in Rows : judged[r] <= MaxGuesses

\* No two accounts have one address, whatever sign-ups and moves race for it.
EmailsUnique ==
    \A m, l \in Members : HasAccount(m) /\ email[m] = email[l] => m = l

UnderWay == {q \in Requests : pc[q] # "idle"}

\* The next statement of a request waits for a row somebody has locked, for the row of its
\* member, or for the fate of an entry.
Waits(q) ==
    \/ /\ pc[q] = "insert"
       /\ \E r \in req[q].todo : (\A s \in req[q].todo : r <= s) /\ rowOwner[r] # None
    \/ pc[q] \in {"burn", "consume"} /\ rowOwner[req[q].row] # None
    \/ /\ pc[q] = "move"
       /\ \/ userOwner[req[q].member] # None
          \/ HasAccount(req[q].member) /\ Unsettled(req[q].member, req[q].address)

\* The waits for rows and for entries of the unique index never form a circle: while
\* requests are under way, one of them does not wait.
NoStandstill == UnderWay # {} => \E q \in UnderWay : ~Waits(q)

\* The state is well formed, the locks keep addresses apart, and no request waits for ever.
LocksSound == TypeOK /\ EmailsUnique /\ NoStandstill

\* A request whose statement waits for nobody is always answered or led on: what it has
\* read meets one of the code's conditions.
RequestsGoOn == \A q \in UnderWay : Waits(q) \/ ENABLED Progress(q)

\* However many requests guess at a pending change or carry its code, one of them uses it,
\* and no more than MaxGuesses are judged.
CodesLimited == GuessesBounded /\ CodeWorksOnce
=============================================================================
