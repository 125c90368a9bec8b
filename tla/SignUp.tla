------------------------------- MODULE SignUp -------------------------------
(***************************************************************************)
(* The email-code sign-up of src/lib/auth/email-code-signup.ts: the table  *)
(* of pending sign-ups, the endpoints that write to it, and the one        *)
(* transaction that turns a pending sign-up into an account.               *)
(*                                                                         *)
(* A request is a process of its own.  Every SQL statement is one step, so *)
(* requests interleave exactly where the handlers await the database.  The *)
(* transaction runs under Postgres READ COMMITTED: what it deletes or      *)
(* inserts is invisible until it commits, and the locks it takes on rows   *)
(* and on the unique index of users.email make other statements wait.      *)
(*                                                                         *)
(* Time is one clock, for the database and the server alike.  A code is a  *)
(* member of Codes: its keyed hash is bound to the row it is stored in, so *)
(* comparing hashes is comparing codes of one row.  The password a browser *)
(* sent when it started sign-up r is written r itself.                     *)
(*                                                                         *)
(* A definition named Slip... is a broken variant of the one after it.  No *)
(* action uses one; the README says which property each would violate.     *)
(***************************************************************************)
EXTENDS Integers, FiniteSets

CONSTANTS
    Emails,          \* addresses
    Invited,         \* those the sign-up mode lets in (all of them when open)
    Rows,            \* ids a pending sign-up may be given
    Requests,        \* requests being handled, on any number of servers
    Codes,           \* the codes a row may be given or a person may type
    None,            \* SQL NULL, and "no one"
    CodeTTL,         \* CODE_TTL_SECONDS
    MaxAttempts,     \* MAX_ATTEMPTS
    MaxSends,        \* MAX_SENDS
    ResendCooldown,  \* RESEND_COOLDOWN_SECONDS
    MaxTime          \* bound of the model: the clock stops here

ASSUME SignUpAssumption ==
    /\ Invited \subseteq Emails
    /\ None \notin Emails \cup Rows \cup Requests \cup Codes
    /\ CodeTTL \in Nat
    /\ MaxAttempts \in Nat \ {0}
    /\ MaxSends \in Nat \ {0}
    /\ ResendCooldown \in Nat
    /\ MaxTime \in Nat

VARIABLES
    now,         \* the clock
    pending,     \* the table pending_signups, by row id
    users,       \* the accounts: address, password, and the code that proved it
    rowOwner,    \* the transaction that holds the lock on a pending row
    emailOwner,  \* the transaction whose insert holds an entry of the unique index
    pc,          \* where each request stands
    cookie,      \* the row id the request came with, or is about to be given
    typed,       \* the code the person typed
    seen,        \* the row as the request last read it, or is about to insert it
    todo,        \* the rows its deleteMany has still to lock
    answer,      \* the code of its answer
    judged,      \* history: the numbers of the guesses compared with a row's code
    sends        \* history: the codes generated for a row, when and which number

tables == <<pending, users>>
locks  == <<rowOwner, emailOwner>>
local  == <<pc, cookie, typed, seen, todo, answer>>
vars   == <<now, tables, locks, local, judged, sends>>

-----------------------------------------------------------------------------
(* Types *)

RowRecord ==
    [status: {"unused", "live", "gone"}, email: Emails \cup {None},
     password: Rows \cup {None}, code: Codes \cup {None},
     attempts: 0..MaxAttempts, sendCount: 0..MaxSends,
     lastSentAt: Nat, expiresAt: Nat]

Account == [email: Emails, password: Rows, proof: Codes]

Send == [n: 1..MaxSends, at: Nat, code: Codes]

InTransaction == {"consumed", "created", "deleting"}

Steps == {"idle", "admitted", "counted", "matched", "verifyRefused",
          "resendRefused", "answered"} \cup InTransaction

Answers ==
    {"none", "SIGNUP_NOT_INVITED", "TOO_MANY_REQUESTS", "started", "resent", "ok",
     "NO_PENDING_SIGNUP", "CODE_EXPIRED", "TOO_MANY_ATTEMPTS", "INVALID_CODE",
     "RESEND_TOO_SOON", "RESEND_LIMIT", "ALREADY_REGISTERED",
     "INTERNAL_SERVER_ERROR", "UNREACHABLE"}

UnusedRow ==
    [status |-> "unused", email |-> None, password |-> None, code |-> None,
     attempts |-> 0, sendCount |-> 0, lastSentAt |-> 0, expiresAt |-> 0]

Init ==
    /\ now = 0
    /\ pending = [r \in Rows |-> UnusedRow]
    /\ users = {}
    /\ rowOwner = [r \in Rows |-> None]
    /\ emailOwner = [e \in Emails |-> None]
    /\ pc = [q \in Requests |-> "idle"]
    /\ cookie = [q \in Requests |-> None]
    /\ typed = [q \in Requests |-> None]
    /\ seen = [q \in Requests |-> UnusedRow]
    /\ todo = [q \in Requests |-> {}]
    /\ answer = [q \in Requests |-> "none"]
    /\ judged = [r \in Rows |-> {}]
    /\ sends = [r \in Rows |-> {}]

-----------------------------------------------------------------------------
(* What the statements read *)

Live(r) == pending[r].status = "live"

\* A cookie names a row that was inserted once; the row may be gone by now.
Issued(r) == pending[r].status # "unused"

Expired(r) == pending[r].expiresAt <= now

\* Slip, off by one: the last attempt cannot be used.
SlipUsable(r) == Live(r) /\ pending[r].attempts + 1 < MaxAttempts /\ ~Expired(r)

\* Slip: the attempts are counted but never checked.
SlipUnlimited(r) == Live(r) /\ ~Expired(r)

\* The guard of the UPDATE that counts a guess.
Usable(r) == Live(r) /\ pending[r].attempts < MaxAttempts /\ ~Expired(r)

\* Slip: a resend without its cooldown.
SlipResendable(r) == Usable(r) /\ pending[r].sendCount < MaxSends

\* The guard of the UPDATE that replaces the code.
Resendable(r) ==
    /\ Usable(r)
    /\ pending[r].sendCount < MaxSends
    /\ pending[r].lastSentAt + ResendCooldown <= now

\* A committed account holds the address.
Registered(e) == \E u \in users : u.email = e

Outdated == {r \in Rows : Live(r) /\ pending[r].expiresAt < now}

-----------------------------------------------------------------------------
(* How a request moves *)

Step(q, next) == pc' = [pc EXCEPT ![q] = next]

\* The request is answered; it keeps what it has read for the properties to see.
Answer(q, code) ==
    /\ Step(q, "answered")
    /\ answer' = [answer EXCEPT ![q] = code]
    /\ todo' = [todo EXCEPT ![q] = {}]
    /\ UNCHANGED <<cookie, typed, seen>>

Forget(q) ==
    /\ Step(q, "idle")
    /\ cookie' = [cookie EXCEPT ![q] = None]
    /\ typed' = [typed EXCEPT ![q] = None]
    /\ seen' = [seen EXCEPT ![q] = UnusedRow]
    /\ todo' = [todo EXCEPT ![q] = {}]
    /\ answer' = [answer EXCEPT ![q] = "none"]

\* Ends q's transaction: every lock it holds is released.
ReleaseLocks(q) ==
    /\ rowOwner' = [r \in Rows |-> IF rowOwner[r] = q THEN None ELSE rowOwner[r]]
    /\ emailOwner' = [e \in Emails |->
                        IF emailOwner[e] = q THEN None ELSE emailOwner[e]]

\* Slip: a rollback that leaves the index entry of the insert behind.
SlipRollback(q, code) ==
    /\ rowOwner' = [r \in Rows |-> IF rowOwner[r] = q THEN None ELSE rowOwner[r]]
    /\ Answer(q, code)
    /\ UNCHANGED <<now, tables, emailOwner, judged, sends>>

Rollback(q, code) ==
    /\ ReleaseLocks(q)
    /\ Answer(q, code)
    /\ UNCHANGED <<now, tables, judged, sends>>

-----------------------------------------------------------------------------
(* POST /email-signup/start *)

\* Deletes the expired rows; it waits for a transaction that has locked one.
DeleteOutdated ==
    /\ \A r \in Outdated : rowOwner[r] = None
    /\ pending' = [r \in Rows |->
         IF r \in Outdated THEN [pending[r] EXCEPT !.status = "gone"] ELSE pending[r]]

\* The allowlist or the limiter turns the request away.
StartRefused(q, e) ==
    /\ pc[q] = "idle"
    /\ \/ e \notin Invited /\ Answer(q, "SIGNUP_NOT_INVITED")
       \/ e \in Invited /\ Answer(q, "TOO_MANY_REQUESTS")
    /\ UNCHANGED <<now, tables, locks, judged, sends>>

\* Housekeeping, then the lookup that decides whether the row will be a decoy: a
\* password is kept only for an address that is free.  The id is a fresh UUID.
StartLookup(q, e, r, c) ==
    /\ pc[q] = "idle"
    /\ e \in Invited
    /\ ~Issued(r)
    /\ \A p \in Requests : pc[p] = "admitted" => cookie[p] # r
    /\ DeleteOutdated
    /\ Step(q, "admitted")
    /\ cookie' = [cookie EXCEPT ![q] = r]
    /\ seen' = [seen EXCEPT ![q] =
         [status |-> "live", email |-> e,
          password |-> IF Registered(e) THEN None ELSE r, code |-> c,
          attempts |-> 0, sendCount |-> 1, lastSentAt |-> 0, expiresAt |-> 0]]
    /\ UNCHANGED <<now, users, locks, typed, todo, answer, judged, sends>>

\* Slip: a new sign-up cancels the earlier ones for its address.
SlipInserted(q) ==
    [r \in Rows |->
        IF r = cookie[q]
        THEN [seen[q] EXCEPT !.lastSentAt = now, !.expiresAt = now + CodeTTL]
        ELSE IF Live(r) /\ pending[r].email = seen[q].email
             THEN [pending[r] EXCEPT !.status = "gone"] ELSE pending[r]]

\* Sign-ups are independent: the others stay as they are.
Inserted(q) ==
    [pending EXCEPT ![cookie[q]] =
        [seen[q] EXCEPT !.lastSentAt = now, !.expiresAt = now + CodeTTL]]

StartInsert(q) ==
    /\ pc[q] = "admitted"
    /\ pending' = Inserted(q)
    /\ sends' = [sends EXCEPT ![cookie[q]] =
                    {[n |-> 1, at |-> now, code |-> seen[q].code]}]
    /\ Answer(q, "started")
    /\ UNCHANGED <<now, users, locks, judged>>

-----------------------------------------------------------------------------
(* POST /email-signup/verify *)

\* The guess is counted before it is compared, in one guarded UPDATE whose
\* RETURNING row the handler keeps.  A row that satisfies the guard and is locked
\* makes the statement wait; one that does not is passed over at once.
VerifyCount(q, r, c) ==
    /\ pc[q] = "idle"
    /\ rowOwner[r] = None
    /\ Usable(r)
    /\ pending' = [pending EXCEPT ![r].attempts = @ + 1]
    /\ Step(q, "counted")
    /\ cookie' = [cookie EXCEPT ![q] = r]
    /\ typed' = [typed EXCEPT ![q] = c]
    /\ seen' = [seen EXCEPT ![q] = pending'[r]]
    /\ UNCHANGED <<now, users, locks, todo, answer, judged, sends>>

VerifyRefused(q, r) ==
    /\ pc[q] = "idle"
    /\ Issued(r) /\ ~Usable(r)
    /\ Step(q, "verifyRefused")
    /\ cookie' = [cookie EXCEPT ![q] = r]
    /\ UNCHANGED <<now, tables, locks, typed, seen, todo, answer, judged, sends>>

\* whyUnusable: a second read, in a statement of its own, that takes no lock.
WhyUnusable(r) ==
    IF ~Live(r) THEN "NO_PENDING_SIGNUP"
    ELSE IF Expired(r) THEN "CODE_EXPIRED"
    ELSE IF pending[r].attempts >= MaxAttempts THEN "TOO_MANY_ATTEMPTS"
    ELSE "UNREACHABLE"

VerifyExplain(q) ==
    /\ pc[q] = "verifyRefused"
    /\ Answer(q, WhyUnusable(cookie[q]))
    /\ UNCHANGED <<now, tables, locks, judged, sends>>

\* Slip: any six digits will do.
SlipMatches(q) == seen[q].password # None

\* The comparison, on the row as it was when the guess was counted.
Matches(q) == typed[q] = seen[q].code /\ seen[q].password # None

VerifyJudge(q) ==
    /\ pc[q] = "counted"
    /\ judged' = [judged EXCEPT ![cookie[q]] = @ \cup {seen[q].attempts}]
    /\ \/ /\ Matches(q)
          /\ Step(q, "matched")
          /\ UNCHANGED <<cookie, typed, seen, todo, answer>>
       \/ /\ ~Matches(q)
          /\ Answer(q, IF seen[q].attempts >= MaxAttempts
                       THEN "TOO_MANY_ATTEMPTS" ELSE "INVALID_CODE")
    /\ UNCHANGED <<now, tables, locks, sends>>

\* The transaction opens and deletes the row it was given...
TxConsume(q) ==
    /\ pc[q] = "matched"
    /\ rowOwner[cookie[q]] = None
    /\ Live(cookie[q]) /\ pending[cookie[q]].password # None
    /\ rowOwner' = [rowOwner EXCEPT ![cookie[q]] = q]
    /\ seen' = [seen EXCEPT ![q] = pending[cookie[q]]]
    /\ Step(q, "consumed")
    /\ UNCHANGED <<now, tables, emailOwner, cookie, typed, todo, answer, judged, sends>>

\* ...or finds it gone: PendingSignUpGone.
TxGone(q) ==
    /\ pc[q] = "matched"
    /\ rowOwner[cookie[q]] = None
    /\ ~(Live(cookie[q]) /\ pending[cookie[q]].password # None)
    /\ Rollback(q, "NO_PENDING_SIGNUP")

\* Slip: an index that does not see an insert that is not committed yet.
SlipTxCreateUser(q) ==
    /\ pc[q] = "consumed"
    /\ ~Registered(seen[q].email)
    /\ Step(q, "created")
    /\ UNCHANGED <<now, tables, locks, cookie, typed, seen, todo, answer, judged, sends>>

\* createUser and linkAccount: the insert waits for one of the same address that is
\* not committed yet...
TxCreateUser(q) ==
    /\ pc[q] = "consumed"
    /\ ~Registered(seen[q].email)
    /\ emailOwner[seen[q].email] = None
    /\ emailOwner' = [emailOwner EXCEPT ![seen[q].email] = q]
    /\ Step(q, "created")
    /\ UNCHANGED <<now, tables, rowOwner, cookie, typed, seen, todo, answer, judged,
                   sends>>

\* Slip: a lost conflict is reported as success.
SlipTxConflict(q) ==
    pc[q] = "consumed" /\ Registered(seen[q].email) /\ Rollback(q, "ok")

\* ...and the unique index refuses one that is.
TxConflict(q) ==
    /\ pc[q] = "consumed"
    /\ Registered(seen[q].email)
    /\ Rollback(q, "ALREADY_REGISTERED")

\* deleteMany by address: the statement sees the rows committed when it starts...
TxDeleteSiblings(q) ==
    /\ pc[q] = "created"
    /\ todo' = [todo EXCEPT ![q] = {r \in Rows \ {cookie[q]} :
                    Live(r) /\ pending[r].email = seen[q].email}]
    /\ Step(q, "deleting")
    /\ UNCHANGED <<now, tables, locks, cookie, typed, seen, answer, judged, sends>>

\* ...and locks them one after the other, waiting where one is locked.
TxLockSibling(q, r) ==
    /\ pc[q] = "deleting"
    /\ r \in todo[q]
    /\ rowOwner[r] = None
    /\ rowOwner' = IF Live(r) THEN [rowOwner EXCEPT ![r] = q] ELSE rowOwner
    /\ todo' = [todo EXCEPT ![q] = @ \ {r}]
    /\ UNCHANGED <<now, tables, emailOwner, pc, cookie, typed, seen, answer, judged,
                   sends>>

\* The known device, the session, and COMMIT.
TxCommit(q) ==
    /\ pc[q] = "deleting"
    /\ todo[q] = {}
    /\ pending' = [r \in Rows |-> IF rowOwner[r] = q
                     THEN [pending[r] EXCEPT !.status = "gone"] ELSE pending[r]]
    /\ users' = users \cup {[email |-> seen[q].email, password |-> seen[q].password,
                             proof |-> typed[q]]}
    /\ ReleaseLocks(q)
    /\ Answer(q, "ok")
    /\ UNCHANGED <<now, judged, sends>>

-----------------------------------------------------------------------------
(* POST /email-signup/resend *)

\* Slip: a resend gives the attempts back.
SlipResent(r, c) ==
    [pending[r] EXCEPT !.code = c, !.sendCount = @ + 1, !.lastSentAt = now,
                       !.attempts = 0]

\* A new code replaces the old one; the attempts are not given back.
Resent(r, c) ==
    [pending[r] EXCEPT !.code = c, !.sendCount = @ + 1, !.lastSentAt = now]

ResendUpdate(q, r, c) ==
    /\ pc[q] = "idle"
    /\ rowOwner[r] = None
    /\ Resendable(r)
    /\ pending' = [pending EXCEPT ![r] = Resent(r, c)]
    /\ sends' = [sends EXCEPT ![r] =
         @ \cup {[n |-> pending[r].sendCount + 1, at |-> now, code |-> c]}]
    /\ Answer(q, "resent")
    /\ UNCHANGED <<now, users, locks, judged>>

ResendRefused(q, r) ==
    /\ pc[q] = "idle"
    /\ Issued(r) /\ ~Resendable(r)
    /\ Step(q, "resendRefused")
    /\ cookie' = [cookie EXCEPT ![q] = r]
    /\ UNCHANGED <<now, tables, locks, typed, seen, todo, answer, judged, sends>>

WhyNotResent(r) ==
    IF ~Live(r) \/ Expired(r) THEN WhyUnusable(r)
    ELSE IF pending[r].attempts >= MaxAttempts THEN "TOO_MANY_ATTEMPTS"
    ELSE IF pending[r].sendCount >= MaxSends THEN "RESEND_LIMIT"
    ELSE "RESEND_TOO_SOON"

ResendExplain(q) ==
    /\ pc[q] = "resendRefused"
    /\ Answer(q, WhyNotResent(cookie[q]))
    /\ UNCHANGED <<now, tables, locks, judged, sends>>

-----------------------------------------------------------------------------
(* The surroundings: the database, the daily job, the server, the clock *)

\* p waits for a pending row q has consumed, q waits for the address p has taken.
Deadlocked(p, q) ==
    /\ pc[p] = "deleting" /\ pc[q] = "consumed"
    /\ emailOwner[seen[q].email] = p
    /\ \E r \in todo[p] : rowOwner[r] = q

\* Postgres breaks the cycle by failing either transaction with 40P01, which is
\* no unique violation, so the handler rethrows it.
DeadlockVictim(q) ==
    /\ \E p \in Requests : Deadlocked(p, q) \/ Deadlocked(q, p)
    /\ Rollback(q, "INTERNAL_SERVER_ERROR")

\* The daily cleanup, between requests.
Cleanup ==
    /\ Outdated # {}
    /\ DeleteOutdated
    /\ UNCHANGED <<now, users, locks, local, judged, sends>>

\* The server handling q dies: the connection drops and an open transaction is undone.
Crash(q) ==
    /\ pc[q] \notin {"idle", "answered"}
    /\ ReleaseLocks(q)
    /\ Forget(q)
    /\ UNCHANGED <<now, tables, judged, sends>>

\* The response is delivered and the process may serve another request.
Finish(q) ==
    /\ pc[q] = "answered"
    /\ Forget(q)
    /\ UNCHANGED <<now, tables, locks, judged, sends>>

Tick ==
    /\ now < MaxTime
    /\ now' = now + 1
    /\ UNCHANGED <<tables, locks, local, judged, sends>>

Arrive(q) ==
    \/ \E e \in Emails : StartRefused(q, e)
    \/ \E e \in Emails, r \in Rows, c \in Codes : StartLookup(q, e, r, c)
    \/ \E r \in Rows, c \in Codes : VerifyCount(q, r, c) \/ ResendUpdate(q, r, c)
    \/ \E r \in Rows : VerifyRefused(q, r) \/ ResendRefused(q, r)

\* The steps of one request once it is under way, and the detector that unblocks it.
Progress(q) ==
    \/ StartInsert(q)
    \/ VerifyJudge(q) \/ VerifyExplain(q)
    \/ TxConsume(q) \/ TxGone(q) \/ TxCreateUser(q) \/ TxConflict(q)
    \/ TxDeleteSiblings(q) \/ TxCommit(q)
    \/ \E r \in Rows : TxLockSibling(q, r)
    \/ ResendExplain(q)
    \/ DeadlockVictim(q)

Next ==
    \/ \E q \in Requests : Arrive(q) \/ Progress(q) \/ Crash(q) \/ Finish(q)
    \/ Cleanup
    \/ Tick

Spec == Init /\ [][Next]_vars

\* The server runs a handler it has begun to its end, and Postgres looks for
\* deadlocks (deadlock_timeout); nobody has to send a request, and no server has to die.
FairSpec == Spec /\ \A q \in Requests : WF_vars(Progress(q))

-----------------------------------------------------------------------------
(* Properties *)

TypeOK ==
    /\ now \in Nat
    /\ pending \in [Rows -> RowRecord]
    /\ users \subseteq Account
    /\ rowOwner \in [Rows -> Requests \cup {None}]
    /\ emailOwner \in [Emails -> Requests \cup {None}]
    /\ pc \in [Requests -> Steps]
    /\ cookie \in [Requests -> Rows \cup {None}]
    /\ typed \in [Requests -> Codes \cup {None}]
    /\ seen \in [Requests -> RowRecord]
    /\ todo \in [Requests -> SUBSET Rows]
    /\ answer \in [Requests -> Answers]
    /\ judged \in [Rows -> SUBSET (1..MaxAttempts)]
    /\ sends \in [Rows -> SUBSET Send]

\* No two guesses in flight share a number, and none has a number already spent.
GuessesApart ==
    \A q \in Requests : pc[q] = "counted" =>
        /\ seen[q].attempts \notin judged[cookie[q]]
        /\ \A p \in Requests \ {q} :
             pc[p] = "counted" /\ cookie[p] = cookie[q]
                => seen[p].attempts # seen[q].attempts

\* Any number of concurrent guesses at one sign-up gets MAX_ATTEMPTS comparisons in all:
\* the numbers that were compared are at most MAX_ATTEMPTS (TypeOK), and no two guesses
\* have one number.
EveryGuessPaid == TypeOK /\ GuessesApart

\* Two sign-ups for one address, finished in any order, leave one account.
OneAccountPerAddress ==
    \A u, v \in users : u.email = v.email => u = v

\* An account is made from a sign-up for the same address, with the password sent
\* when that sign-up was started and against a code generated for it; the sign-up is
\* used up by it and by no other account.
AccountIsProven ==
    \A u \in users :
        /\ pending[u.password].status = "gone"
        /\ pending[u.password].email = u.email
        /\ pending[u.password].password = u.password
        /\ \E s \in sends[u.password] : s.code = u.proof
        /\ \A v \in users : v.password = u.password => v = u

\* However many resends race, a sign-up sends at most MAX_SENDS codes, one number
\* each, and two of them are RESEND_COOLDOWN_SECONDS apart.
SendsSpaced ==
    \A r \in Rows : \A s, t \in sends[r] :
        /\ s.n = t.n => s = t
        /\ s.n < t.n => s.at + ResendCooldown <= t.at

\* What a refusal says is so: a sign-up reported gone is gone, an address reported
\* registered is registered, attempts reported spent are spent, and the last line of
\* whyUnusable is never reached.
RefusalsAreTrue ==
    \A q \in Requests :
        /\ answer[q] # "UNREACHABLE"
        /\ answer[q] = "NO_PENDING_SIGNUP" => ~Live(cookie[q])
        /\ answer[q] = "ALREADY_REGISTERED" => Registered(seen[q].email)
        /\ answer[q] = "TOO_MANY_ATTEMPTS" => pending[cookie[q]].attempts = MaxAttempts

\* A browser told "ok" has an account, made with the password it sent.
OkMeansOwnAccount ==
    \A q \in Requests : answer[q] = "ok" =>
        \E u \in users : u.email = seen[q].email /\ u.password = cookie[q]

\* What a browser is told of its sign-up is so, whatever happened since it was read.
AnswersAreTrue == RefusalsAreTrue /\ OkMeansOwnAccount

\* The one thing that ends a sign-up before it is used or out of time is its own
\* address being registered: starting or finishing another never cancels it.
OnlyOwnAddressEndsASignUp ==
    [][\A r \in Rows : Live(r) /\ ~Live(r)' =>
          \/ pending[r].expiresAt < now
          \/ ~Registered(pending[r].email) /\ Registered(pending[r].email)']_vars

\* A request that has begun is answered, deadlocks and crashes included.
RequestsEnd ==
    \A q \in Requests :
        pc[q] \notin {"idle", "answered"} ~> pc[q] \in {"idle", "answered"}

-----------------------------------------------------------------------------
(* The inductive invariant: what makes the properties above hold *)

\* A row keeps what it was inserted with, and its counters never run backwards.
RowSound(r) ==
    /\ pending[r].lastSentAt <= now
    /\ judged[r] \subseteq 1..pending[r].attempts
    /\ \A s \in sends[r] :
         s.n <= pending[r].sendCount /\ s.at <= pending[r].lastSentAt
    /\ Issued(r) =>
         /\ pending[r].email \in Emails
         /\ pending[r].password \in {None, r}
         /\ \E s \in sends[r] : s.code = pending[r].code
    /\ ~Issued(r) => sends[r] = {} /\ judged[r] = {}

RowsSound == \A r \in Rows : RowSound(r)

\* What a request has read of its row is still true of it.
ReadSound(q) ==
    /\ pc[q] = "admitted" =>
         /\ cookie[q] \in Rows
         /\ ~Issued(cookie[q])
         /\ seen[q].status = "live"
         /\ seen[q].email \in Emails
         /\ seen[q].code \in Codes
         /\ seen[q].password \in {None, cookie[q]}
         /\ seen[q].sendCount = 1
    /\ pc[q] \in {"verifyRefused", "resendRefused"} =>
         cookie[q] \in Rows /\ Issued(cookie[q])
    /\ pc[q] = "verifyRefused" => ~Usable(cookie[q])
    /\ pc[q] \in {"counted", "matched"} \cup InTransaction =>
         /\ cookie[q] \in Rows
         /\ typed[q] \in Codes
         /\ Issued(cookie[q])
         /\ seen[q].email = pending[cookie[q]].email
         /\ seen[q].password = pending[cookie[q]].password
    /\ pc[q] = "counted" =>
         /\ seen[q].attempts \in 1..pending[cookie[q]].attempts
         /\ \E s \in sends[cookie[q]] : s.code = seen[q].code
    /\ pc[q] \in {"matched"} \cup InTransaction =>
         /\ seen[q].password = cookie[q]
         /\ \E s \in sends[cookie[q]] : s.code = typed[q]

ReadsSound ==
    /\ \A q \in Requests : ReadSound(q)
    /\ \A p, q \in Requests :
         pc[p] = "admitted" /\ pc[q] = "admitted" /\ cookie[p] = cookie[q] => p = q

\* An open transaction holds the row it consumed and, once it has inserted the
\* account, the address; what it has still to lock are sign-ups for that address.
HoldsLocks(q) ==
    /\ pc[q] \in InTransaction => rowOwner[cookie[q]] = q
    /\ pc[q] \in {"created", "deleting"} =>
         emailOwner[seen[q].email] = q /\ ~Registered(seen[q].email)
    /\ \A r \in todo[q] :
         pc[q] = "deleting" /\ Issued(r) /\ pending[r].email = seen[q].email

\* A row's lock belongs to an open transaction of its address, and the row is there.
Owns(q, r) ==
    /\ Live(r)
    /\ pc[q] \in InTransaction
    /\ seen[q].email = pending[r].email
    /\ r # cookie[q] => pc[q] = "deleting"

LocksSound ==
    /\ \A q \in Requests : HoldsLocks(q)
    /\ \A q \in Requests, r \in Rows : rowOwner[r] = q => Owns(q, r)

IInv ==
    /\ TypeOK
    /\ RowsSound
    /\ ReadsSound
    /\ LocksSound
    /\ GuessesApart
    /\ OneAccountPerAddress
    /\ AccountIsProven
    /\ SendsSpaced
=============================================================================
