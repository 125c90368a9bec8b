---------------------------- MODULE SignUpProofs ----------------------------
(***************************************************************************)
(* Theorems about the email-code sign-up, for any number of addresses,     *)
(* rows, requests and codes and for every value of the limits.             *)
(*                                                                         *)
(* IInv of SignUp is inductive; each of its parts is preserved by a lemma  *)
(* of its own (TypePreserved, RowsPreserved, ...), with one step per       *)
(* action.  Two facts about the table carry most of the weight:            *)
(* RowsOnlyMove, what any step may do to a pending row, and the locks,     *)
(* because of which a row that a transaction has consumed is still there   *)
(* when the transaction commits.                                           *)
(***************************************************************************)
EXTENDS SignUp, TLAPS

USE SignUpAssumption

-----------------------------------------------------------------------------
(* Updates of a row record *)

LEMMA StatusUpdate ==
    ASSUME NEW x \in RowRecord, NEW s \in {"unused", "live", "gone"}
    PROVE  /\ [x EXCEPT !.status = s] \in RowRecord
           /\ [x EXCEPT !.status = s].status = s
           /\ [x EXCEPT !.status = s].email = x.email
           /\ [x EXCEPT !.status = s].password = x.password
           /\ [x EXCEPT !.status = s].code = x.code
           /\ [x EXCEPT !.status = s].attempts = x.attempts
           /\ [x EXCEPT !.status = s].sendCount = x.sendCount
           /\ [x EXCEPT !.status = s].lastSentAt = x.lastSentAt
           /\ [x EXCEPT !.status = s].expiresAt = x.expiresAt
  BY DEF RowRecord

LEMMA AttemptsUpdate ==
    ASSUME NEW x \in RowRecord, x.attempts < MaxAttempts
    PROVE  /\ [x EXCEPT !.attempts = @ + 1] \in RowRecord
           /\ x.attempts \in Nat
  BY DEF RowRecord

LEMMA SendUpdate ==
    ASSUME NEW x \in RowRecord, NEW c \in Codes, NEW t \in Nat, x.sendCount < MaxSends
    PROVE  /\ [x EXCEPT !.code = c, !.sendCount = @ + 1, !.lastSentAt = t] \in RowRecord
           /\ [n |-> x.sendCount + 1, at |-> t, code |-> c] \in Send
<1>1. x.sendCount + 1 \in 1..MaxSends
  BY DEF RowRecord
<1>2. [n |-> x.sendCount + 1, at |-> t, code |-> c] \in Send
  BY <1>1 DEF Send
<1> DEFINE k == x.sendCount + 1
<1>3. [x EXCEPT !.code = c, !.sendCount = k, !.lastSentAt = t] \in RowRecord
  <2>1. k \in 0..MaxSends
    BY <1>1
  <2> HIDE DEF k
  <2>. QED
    BY <2>1 DEF RowRecord
<1>. QED
  BY <1>2, <1>3

LEMMA StampUpdate ==
    ASSUME NEW x \in RowRecord, NEW t \in Nat, NEW u \in Nat
    PROVE  [x EXCEPT !.lastSentAt = t, !.expiresAt = u] \in RowRecord
  BY DEF RowRecord

-----------------------------------------------------------------------------
(* Some pending rows are deleted and the others stay as they are: what the      *)
(* housekeeping, the daily cleanup and COMMIT do to the table.                  *)
RetiresRows ==
    /\ pending' \in [Rows -> RowRecord]
    /\ \A r \in Rows :
         /\ pending'[r].email = pending[r].email
         /\ pending'[r].password = pending[r].password
         /\ pending'[r].code = pending[r].code
         /\ pending'[r].attempts = pending[r].attempts
         /\ pending'[r].sendCount = pending[r].sendCount
         /\ pending'[r].lastSentAt = pending[r].lastSentAt
         /\ pending'[r].expiresAt = pending[r].expiresAt
         /\ pending'[r].status = pending[r].status
              \/ (Live(r) /\ pending'[r].status = "gone")

LEMMA RetiringASet ==
    ASSUME TypeOK, NEW S \in SUBSET Rows, \A r \in S : Live(r),
           pending' = [r \in Rows |-> IF r \in S
                         THEN [pending[r] EXCEPT !.status = "gone"] ELSE pending[r]]
    PROVE  RetiresRows /\ \A r \in Rows : pending'[r].status
                             = IF r \in S THEN "gone" ELSE pending[r].status
<1>1. ASSUME NEW r \in Rows
      PROVE  [pending[r] EXCEPT !.status = "gone"] \in RowRecord
  <2>1. pending[r] \in RowRecord
    BY DEF TypeOK
  <2> HIDE DEF TypeOK
  <2>. QED BY <2>1, StatusUpdate
<1>2. pending' \in [Rows -> RowRecord]
  BY <1>1 DEF TypeOK
<1>3. ASSUME NEW r \in Rows
      PROVE  /\ pending[r] \in RowRecord
             /\ pending'[r] = IF r \in S THEN [pending[r] EXCEPT !.status = "gone"]
                                         ELSE pending[r]
  BY DEF TypeOK
<1>4. ASSUME NEW r \in Rows
      PROVE  /\ pending'[r].email = pending[r].email
             /\ pending'[r].password = pending[r].password
             /\ pending'[r].code = pending[r].code
             /\ pending'[r].attempts = pending[r].attempts
             /\ pending'[r].sendCount = pending[r].sendCount
             /\ pending'[r].lastSentAt = pending[r].lastSentAt
             /\ pending'[r].expiresAt = pending[r].expiresAt
             /\ pending'[r].status = IF r \in S THEN "gone" ELSE pending[r].status
  <2>1. CASE r \in S
    BY <1>3, <2>1, StatusUpdate
  <2>2. CASE r \notin S
    BY <1>3, <2>2
  <2>. QED
    BY <2>1, <2>2
<1>5. ASSUME NEW r \in Rows
      PROVE  pending'[r].status = pending[r].status
               \/ (Live(r) /\ pending'[r].status = "gone")
  BY <1>4
<1>. QED
  BY <1>2, <1>4, <1>5 DEF RetiresRows

LEMMA DeleteOutdatedRetires ==
    ASSUME TypeOK, DeleteOutdated
    PROVE  /\ RetiresRows
           /\ \A r \in Rows : Live(r) => Live(r)' \/ (pending[r].expiresAt < now /\ rowOwner[r] = None)
<1>1. Outdated \in SUBSET Rows /\ \A r \in Outdated : Live(r)
  BY DEF Outdated
<1>2. /\ RetiresRows
      /\ \A r \in Rows : pending'[r].status
                            = IF r \in Outdated THEN "gone" ELSE pending[r].status
  BY <1>1, RetiringASet DEF DeleteOutdated
<1>3. ASSUME NEW r \in Outdated
      PROVE  pending[r].expiresAt < now /\ rowOwner[r] = None
  <2>1. pending[r] \in RowRecord
    BY DEF Outdated, TypeOK
  <2>. QED
    BY <2>1 DEF Outdated, DeleteOutdated, TypeOK, RowRecord
<1>4. ASSUME NEW r \in Rows, Live(r)
      PROVE  Live(r)' \/ (pending[r].expiresAt < now /\ rowOwner[r] = None)
  <2>1. CASE r \in Outdated
    BY <1>3, <2>1
  <2>2. CASE r \notin Outdated
    BY <1>2, <1>4, <2>2 DEF Live
  <2>. QED
    BY <2>1, <2>2
<1>. QED
  BY <1>2, <1>4

\* COMMIT deletes the rows the transaction has locked.
LEMMA CommitRetires ==
    ASSUME IInv, NEW q \in Requests, TxCommit(q)
    PROVE  /\ RetiresRows
           /\ \A r \in Rows : pending'[r].status
                                = IF rowOwner[r] = q THEN "gone" ELSE pending[r].status
<1> DEFINE S == {r \in Rows : rowOwner[r] = q}
<1>1. S \in SUBSET Rows /\ \A r \in S : Live(r)
  BY DEF IInv, LocksSound, Owns
<1>2. pending' = [r \in Rows |-> IF r \in S
                    THEN [pending[r] EXCEPT !.status = "gone"] ELSE pending[r]]
  BY DEF TxCommit
<1>3. \A r \in Rows : r \in S <=> rowOwner[r] = q
  OBVIOUS
<1> HIDE DEF S
<1>. QED
  BY <1>1, <1>2, <1>3, RetiringASet DEF IInv

LEMMA TypePreserved ==
    ASSUME IInv, [Next]_vars
    PROVE  TypeOK'
<1> USE DEF IInv, TypeOK, Steps, InTransaction, Answers
<1>1. ASSUME NEW q \in Requests, NEW e \in Emails, StartRefused(q, e)
      PROVE  TypeOK'
  BY <1>1 DEF StartRefused, Answer, Step, tables, locks
<1>2. ASSUME NEW q \in Requests, NEW e \in Emails, NEW r \in Rows, NEW c \in Codes, StartLookup(q, e, r, c)
      PROVE  TypeOK'
  <2>1. seen'[q] \in RowRecord /\ seen' = [seen EXCEPT ![q] = seen'[q]]
    BY <1>2 DEF StartLookup, RowRecord, TypeOK
  <2>. QED
    BY <1>2, <2>1, DeleteOutdatedRetires DEF StartLookup, RetiresRows, Step, locks
<1>3. ASSUME NEW q \in Requests, StartInsert(q)
      PROVE  TypeOK'
  <2>1. cookie[q] \in Rows /\ seen[q] \in RowRecord /\ seen[q].code \in Codes
    BY <1>3 DEF StartInsert, ReadsSound, ReadSound
  <2>2. [seen[q] EXCEPT !.lastSentAt = now, !.expiresAt = now + CodeTTL] \in RowRecord
    <3>1. now + CodeTTL \in Nat
      OBVIOUS
    <3>. QED
      BY <2>1, <3>1, StampUpdate
  <2>3. pending' \in [Rows -> RowRecord]
    BY <1>3, <2>1, <2>2 DEF StartInsert, Inserted
  <2>4. sends' \in [Rows -> SUBSET Send]
    BY <1>3, <2>1 DEF StartInsert, Send
  <2>. QED
    BY <1>3, <2>3, <2>4 DEF StartInsert, Answer, Step, locks
<1>4. ASSUME NEW q \in Requests, NEW r \in Rows, NEW c \in Codes, VerifyCount(q, r, c)
      PROVE  TypeOK'
  <2>1. pending[r] \in RowRecord /\ pending[r].attempts < MaxAttempts
    BY <1>4 DEF VerifyCount, Usable
  <2>2. [pending[r] EXCEPT !.attempts = @ + 1] \in RowRecord
    BY <2>1, AttemptsUpdate
  <2>3. pending' \in [Rows -> RowRecord] /\ pending'[r] \in RowRecord
    BY <1>4, <2>2 DEF VerifyCount
  <2>. QED
    BY <1>4, <2>3 DEF VerifyCount, Step, locks
<1>5. ASSUME NEW q \in Requests, NEW r \in Rows, VerifyRefused(q, r)
      PROVE  TypeOK'
  BY <1>5 DEF VerifyRefused, Step, tables, locks
<1>6. ASSUME NEW q \in Requests, VerifyExplain(q)
      PROVE  TypeOK'
  <2>1. WhyUnusable(cookie[q]) \in Answers
    BY DEF WhyUnusable
  <2>. QED
    BY <1>6, <2>1 DEF VerifyExplain, Answer, Step, tables, locks
<1>7. ASSUME NEW q \in Requests, VerifyJudge(q)
      PROVE  TypeOK'
  <2>1. /\ cookie[q] \in Rows
        /\ pending[cookie[q]] \in RowRecord
        /\ seen[q].attempts \in 1..pending[cookie[q]].attempts
    BY <1>7 DEF VerifyJudge, ReadsSound, ReadSound
  <2>2. seen[q].attempts \in 1..MaxAttempts
    BY <2>1 DEF RowRecord
  <2>3. judged' \in [Rows -> SUBSET (1..MaxAttempts)]
    BY <1>7, <2>1, <2>2 DEF VerifyJudge
  <2>. QED
    BY <1>7, <2>3 DEF VerifyJudge, Answer, Step, tables, locks
<1>8. ASSUME NEW q \in Requests, TxConsume(q)
      PROVE  TypeOK'
  <2>1. cookie[q] \in Rows
    BY <1>8 DEF TxConsume, ReadsSound, ReadSound
  <2>2. seen' \in [Requests -> RowRecord]
    BY <1>8, <2>1 DEF TxConsume
  <2>. QED
    BY <1>8, <2>1, <2>2 DEF TxConsume, Step, tables
<1>9. ASSUME NEW q \in Requests, TxGone(q)
      PROVE  TypeOK'
  BY <1>9 DEF TxGone, Rollback, ReleaseLocks, Answer, Step, tables
<1>10. ASSUME NEW q \in Requests, TxCreateUser(q)
      PROVE  TypeOK'
  BY <1>10 DEF TxCreateUser, Step, tables
<1>11. ASSUME NEW q \in Requests, TxConflict(q)
      PROVE  TypeOK'
  BY <1>11 DEF TxConflict, Rollback, ReleaseLocks, Answer, Step, tables
<1>12. ASSUME NEW q \in Requests, TxDeleteSiblings(q)
      PROVE  TypeOK'
  BY <1>12 DEF TxDeleteSiblings, Step, tables, locks
<1>13. ASSUME NEW q \in Requests, NEW r \in Rows, TxLockSibling(q, r)
      PROVE  TypeOK'
  BY <1>13 DEF TxLockSibling, tables
<1>14. ASSUME NEW q \in Requests, TxCommit(q)
      PROVE  TypeOK'
  <2>1. pc[q] = "deleting"
    BY <1>14 DEF TxCommit
  <2>2. /\ seen[q].email \in Emails
        /\ seen[q].password \in Rows
        /\ typed[q] \in Codes
    BY <2>1 DEF ReadsSound, ReadSound, RowsSound, RowSound
  <2>3. users' \subseteq Account
    BY <1>14, <2>2 DEF TxCommit, Account
  <2>4. pending' \in [Rows -> RowRecord]
    BY <1>14, CommitRetires DEF RetiresRows
  <2>. QED
    BY <1>14, <2>3, <2>4 DEF TxCommit, ReleaseLocks, Answer, Step
<1>15. ASSUME NEW q \in Requests, NEW r \in Rows, NEW c \in Codes, ResendUpdate(q, r, c)
      PROVE  TypeOK'
  <2>1. pending[r] \in RowRecord /\ pending[r].sendCount < MaxSends
    BY <1>15 DEF ResendUpdate, Resendable
  <2>2. Resent(r, c) \in RowRecord
    BY <2>1, SendUpdate DEF Resent
  <2>3. [n |-> pending[r].sendCount + 1, at |-> now, code |-> c] \in Send
    BY <2>1, SendUpdate
  <2>4. pending' \in [Rows -> RowRecord] /\ sends' \in [Rows -> SUBSET Send]
    BY <1>15, <2>2, <2>3 DEF ResendUpdate
  <2>. QED
    BY <1>15, <2>4 DEF ResendUpdate, Answer, Step, locks
<1>16. ASSUME NEW q \in Requests, NEW r \in Rows, ResendRefused(q, r)
      PROVE  TypeOK'
  BY <1>16 DEF ResendRefused, Step, tables, locks
<1>17. ASSUME NEW q \in Requests, ResendExplain(q)
      PROVE  TypeOK'
  <2>1. WhyNotResent(cookie[q]) \in Answers
    BY DEF WhyNotResent, WhyUnusable
  <2>. QED
    BY <1>17, <2>1 DEF ResendExplain, Answer, Step, tables, locks
<1>18. ASSUME NEW q \in Requests, DeadlockVictim(q)
      PROVE  TypeOK'
  BY <1>18 DEF DeadlockVictim, Rollback, ReleaseLocks, Answer, Step, tables
<1>19. CASE Cleanup
  BY <1>19, DeleteOutdatedRetires DEF Cleanup, RetiresRows, locks, local
<1>20. ASSUME NEW q \in Requests, Crash(q)
      PROVE  TypeOK'
  <2>1. UnusedRow \in RowRecord
    BY DEF UnusedRow, RowRecord
  <2>. QED
    BY <1>20, <2>1 DEF Crash, ReleaseLocks, Forget, Step, tables
<1>21. ASSUME NEW q \in Requests, Finish(q)
      PROVE  TypeOK'
  <2>1. UnusedRow \in RowRecord
    BY DEF UnusedRow, RowRecord
  <2>. QED
    BY <1>21, <2>1 DEF Finish, Forget, Step, tables, locks
<1>22. CASE Tick
  BY <1>22 DEF Tick, tables, locks, local
<1>23. CASE UNCHANGED vars
  BY <1>23 DEF vars, tables, locks, local
<1>. QED
  BY <1>1, <1>2, <1>3, <1>4, <1>5, <1>6, <1>7, <1>8, <1>9, <1>10, <1>11, <1>12, <1>13, <1>14, <1>15, <1>16, <1>17, <1>18, <1>19, <1>20, <1>21, <1>22, <1>23
  DEF Next, Arrive, Progress

LEMMA RetiringKeepsRows ==
    ASSUME IInv, RetiresRows, UNCHANGED <<now, judged, sends>>
    PROVE  RowsSound'
  BY DEF IInv, RowsSound, RowSound, RetiresRows, Issued, Live

LEMMA RowsPreserved ==
    ASSUME IInv, [Next]_vars
    PROVE  RowsSound'
<1>1. ASSUME NEW q \in Requests, NEW e \in Emails, StartRefused(q, e)
      PROVE  RowsSound'
  BY <1>1 DEF StartRefused, tables, locks, IInv, RowsSound, RowSound, Issued
<1>2. ASSUME NEW q \in Requests, NEW e \in Emails, NEW r \in Rows, NEW c \in Codes, StartLookup(q, e, r, c)
      PROVE  RowsSound'
  <2>1. RetiresRows /\ UNCHANGED <<now, judged, sends>>
    BY <1>2, DeleteOutdatedRetires DEF StartLookup, IInv
  <2>. QED
    BY <2>1, RetiringKeepsRows
<1>3. ASSUME NEW q \in Requests, StartInsert(q)
      PROVE  RowsSound'
  <2> DEFINE k == cookie[q]
             new == [seen[q] EXCEPT !.lastSentAt = now, !.expiresAt = now + CodeTTL]
  <2>1. /\ k \in Rows /\ ~Issued(k)
        /\ seen[q] \in RowRecord /\ seen[q].status = "live"
        /\ seen[q].email \in Emails
        /\ seen[q].password \in {None, k}
        /\ seen[q].sendCount = 1
    BY <1>3 DEF StartInsert, IInv, TypeOK, ReadsSound, ReadSound
  <2>2. /\ pending' = [pending EXCEPT ![k] = new]
        /\ sends' = [sends EXCEPT ![k] = {[n |-> 1, at |-> now, code |-> seen[q].code]}]
        /\ UNCHANGED <<now, judged>>
    BY <1>3 DEF StartInsert, Inserted
  <2>3. /\ new.status = "live" /\ new.email = seen[q].email
        /\ new.password = seen[q].password /\ new.code = seen[q].code
        /\ new.sendCount = 1 /\ new.lastSentAt = now
    BY <2>1 DEF RowRecord
  <2>4. judged[k] = {}
    BY <2>1 DEF IInv, RowsSound, RowSound
  <2> HIDE DEF k, new
  <2>5. ASSUME NEW r \in Rows
        PROVE  RowSound(r)'
    <3>1. CASE r = k
      <4>1. pending'[r] = new
            /\ sends'[r] = {[n |-> 1, at |-> now, code |-> seen[q].code]}
            /\ judged'[r] = {}
        BY <2>1, <2>2, <2>4, <3>1 DEF IInv, TypeOK
      <4>2. [n |-> 1, at |-> now, code |-> seen[q].code] \in sends'[r]
        BY <4>1
      <4>3. \E s \in sends'[r] : s.code = seen[q].code
        BY <4>2
      <4>. QED
        BY <2>1, <2>2, <2>3, <3>1, <4>1, <4>3 DEF RowSound, Issued, IInv, TypeOK
    <3>2. CASE r # k
      <4>1. pending'[r] = pending[r] /\ sends'[r] = sends[r] /\ judged'[r] = judged[r]
        BY <2>1, <2>2, <3>2 DEF IInv, TypeOK
      <4>. QED
        BY <2>2, <4>1 DEF IInv, RowsSound, RowSound, Issued
    <3>. QED
      BY <3>1, <3>2
  <2>. QED
    BY <2>5 DEF RowsSound
<1>4. ASSUME NEW q \in Requests, NEW r \in Rows, NEW c \in Codes, VerifyCount(q, r, c)
      PROVE  RowsSound'
  <2>1. /\ pending[r] \in RowRecord
        /\ pending' = [pending EXCEPT ![r].attempts = @ + 1]
        /\ UNCHANGED <<now, judged, sends>>
    BY <1>4 DEF VerifyCount, IInv, TypeOK
  <2>2. ASSUME NEW s \in Rows
        PROVE  RowSound(s)'
    <3>1. CASE s = r
      <4>1. pending'[s] = [pending[s] EXCEPT !.attempts = @ + 1]
        BY <2>1, <3>1 DEF IInv, TypeOK
      <4>2. /\ pending'[s].status = pending[s].status
            /\ pending'[s].email = pending[s].email
            /\ pending'[s].password = pending[s].password
            /\ pending'[s].code = pending[s].code
            /\ pending'[s].sendCount = pending[s].sendCount
            /\ pending'[s].lastSentAt = pending[s].lastSentAt
            /\ pending'[s].attempts = pending[s].attempts + 1
            /\ pending[s].attempts \in Nat
        BY <2>1, <3>1, <4>1 DEF RowRecord
      <4>. QED
        BY <2>1, <4>2 DEF IInv, RowsSound, RowSound, Issued
    <3>2. CASE s # r
      <4>1. pending'[s] = pending[s]
        BY <2>1, <3>2 DEF IInv, TypeOK
      <4>. QED
        BY <2>1, <4>1 DEF IInv, RowsSound, RowSound, Issued
    <3>. QED
      BY <3>1, <3>2
  <2>. QED
    BY <2>2 DEF RowsSound
<1>5. ASSUME NEW q \in Requests, NEW r \in Rows, VerifyRefused(q, r)
      PROVE  RowsSound'
  BY <1>5 DEF VerifyRefused, tables, locks, IInv, RowsSound, RowSound, Issued
<1>6. ASSUME NEW q \in Requests, VerifyExplain(q)
      PROVE  RowsSound'
  BY <1>6 DEF VerifyExplain, tables, locks, IInv, RowsSound, RowSound, Issued
<1>7. ASSUME NEW q \in Requests, VerifyJudge(q)
      PROVE  RowsSound'
  <2>1. /\ cookie[q] \in Rows
        /\ seen[q].attempts \in 1..pending[cookie[q]].attempts
        /\ Issued(cookie[q])
    BY <1>7 DEF VerifyJudge, IInv, ReadsSound, ReadSound
  <2>2. /\ judged' = [judged EXCEPT ![cookie[q]] = @ \cup {seen[q].attempts}]
        /\ UNCHANGED <<now, pending, sends>>
    BY <1>7 DEF VerifyJudge, tables
  <2>3. ASSUME NEW r \in Rows
        PROVE  /\ judged'[r] \subseteq 1..pending[r].attempts
               /\ ~Issued(r) => judged'[r] = {}
    BY <2>1, <2>2 DEF IInv, TypeOK, RowsSound, RowSound
  <2>. QED
    BY <2>2, <2>3 DEF IInv, RowsSound, RowSound, Issued
<1>8. ASSUME NEW q \in Requests, TxConsume(q)
      PROVE  RowsSound'
  BY <1>8 DEF TxConsume, tables, IInv, RowsSound, RowSound, Issued
<1>9. ASSUME NEW q \in Requests, TxGone(q)
      PROVE  RowsSound'
  BY <1>9 DEF TxGone, Rollback, tables, IInv, RowsSound, RowSound, Issued
<1>10. ASSUME NEW q \in Requests, TxCreateUser(q)
      PROVE  RowsSound'
  BY <1>10 DEF TxCreateUser, tables, IInv, RowsSound, RowSound, Issued
<1>11. ASSUME NEW q \in Requests, TxConflict(q)
      PROVE  RowsSound'
  BY <1>11 DEF TxConflict, Rollback, tables, IInv, RowsSound, RowSound, Issued
<1>12. ASSUME NEW q \in Requests, TxDeleteSiblings(q)
      PROVE  RowsSound'
  BY <1>12 DEF TxDeleteSiblings, tables, locks, IInv, RowsSound, RowSound, Issued
<1>13. ASSUME NEW q \in Requests, NEW r \in Rows, TxLockSibling(q, r)
      PROVE  RowsSound'
  BY <1>13 DEF TxLockSibling, tables, IInv, RowsSound, RowSound, Issued
<1>14. ASSUME NEW q \in Requests, TxCommit(q)
      PROVE  RowsSound'
  <2>1. RetiresRows /\ UNCHANGED <<now, judged, sends>>
    BY <1>14, CommitRetires DEF TxCommit
  <2>. QED
    BY <2>1, RetiringKeepsRows
<1>15. ASSUME NEW q \in Requests, NEW r \in Rows, NEW c \in Codes, ResendUpdate(q, r, c)
      PROVE  RowsSound'
  <2>1. /\ pending[r] \in RowRecord
        /\ Live(r)
        /\ pending' = [pending EXCEPT ![r] = Resent(r, c)]
        /\ sends' = [sends EXCEPT ![r] =
             @ \cup {[n |-> pending[r].sendCount + 1, at |-> now, code |-> c]}]
        /\ UNCHANGED <<now, judged>>
    BY <1>15 DEF ResendUpdate, Resendable, Usable, IInv, TypeOK
  <2>2. ASSUME NEW s \in Rows
        PROVE  RowSound(s)'
    <3>1. CASE s = r
      <4>1. pending'[s] = Resent(r, c)
            /\ sends'[s] = sends[s] \cup
                 {[n |-> pending[r].sendCount + 1, at |-> now, code |-> c]}
        BY <2>1, <3>1 DEF IInv, TypeOK
      <4>2. /\ Resent(r, c).status = pending[r].status
            /\ Resent(r, c).email = pending[r].email
            /\ Resent(r, c).password = pending[r].password
            /\ Resent(r, c).code = c
            /\ Resent(r, c).attempts = pending[r].attempts
            /\ Resent(r, c).sendCount = pending[r].sendCount + 1
            /\ Resent(r, c).lastSentAt = now
            /\ pending[r].sendCount \in Nat
        BY <2>1 DEF Resent, RowRecord
      <4>3. /\ now \in Nat /\ pending[r].lastSentAt \in Nat
            /\ \A t \in sends[r] : t.n \in Nat /\ t.at \in Nat
        BY <2>1 DEF IInv, TypeOK, Send, RowRecord
      <4>4. RowSound(r)
        BY DEF IInv, RowsSound
      <4>5. \A t \in sends'[s] : t.n <= pending[r].sendCount + 1 /\ t.at <= now
        BY <4>1, <4>2, <4>3, <4>4, <3>1 DEF RowSound
      <4>6. \E t \in sends'[s] : t.code = c
        <5>1. [n |-> pending[r].sendCount + 1, at |-> now, code |-> c] \in sends'[s]
          BY <4>1
        <5>. QED
          BY <5>1
      <4>. QED
        BY <2>1, <3>1, <4>1, <4>2, <4>3, <4>4, <4>5, <4>6 DEF RowSound, Issued, Live
    <3>2. CASE s # r
      <4>1. pending'[s] = pending[s] /\ sends'[s] = sends[s]
        BY <2>1, <3>2 DEF IInv, TypeOK
      <4>. QED
        BY <2>1, <4>1 DEF IInv, RowsSound, RowSound, Issued
    <3>. QED
      BY <3>1, <3>2
  <2>. QED
    BY <2>2 DEF RowsSound
<1>16. ASSUME NEW q \in Requests, NEW r \in Rows, ResendRefused(q, r)
      PROVE  RowsSound'
  BY <1>16 DEF ResendRefused, tables, locks, IInv, RowsSound, RowSound, Issued
<1>17. ASSUME NEW q \in Requests, ResendExplain(q)
      PROVE  RowsSound'
  BY <1>17 DEF ResendExplain, tables, locks, IInv, RowsSound, RowSound, Issued
<1>18. ASSUME NEW q \in Requests, DeadlockVictim(q)
      PROVE  RowsSound'
  BY <1>18 DEF DeadlockVictim, Rollback, tables, IInv, RowsSound, RowSound, Issued
<1>19. CASE Cleanup
  <2>1. RetiresRows /\ UNCHANGED <<now, judged, sends>>
    BY <1>19, DeleteOutdatedRetires DEF Cleanup, IInv
  <2>. QED
    BY <2>1, RetiringKeepsRows
<1>20. ASSUME NEW q \in Requests, Crash(q)
      PROVE  RowsSound'
  BY <1>20 DEF Crash, tables, IInv, RowsSound, RowSound, Issued
<1>21. ASSUME NEW q \in Requests, Finish(q)
      PROVE  RowsSound'
  BY <1>21 DEF Finish, tables, locks, IInv, RowsSound, RowSound, Issued
<1>22. CASE Tick
  <2>1. now \in Nat /\ \A r \in Rows : pending[r].lastSentAt \in Nat
    BY DEF IInv, TypeOK, RowRecord
  <2>. QED
    BY <1>22, <2>1 DEF Tick, tables, IInv, RowsSound, RowSound, Issued
<1>23. CASE UNCHANGED vars
  BY <1>23 DEF vars, tables, locks, local, IInv, RowsSound, RowSound, Issued
<1>. QED
  BY <1>1, <1>2, <1>3, <1>4, <1>5, <1>6, <1>7, <1>8, <1>9, <1>10, <1>11, <1>12, <1>13, <1>14, <1>15, <1>16, <1>17, <1>18, <1>19, <1>20, <1>21, <1>22, <1>23
  DEF Next, Arrive, Progress

-----------------------------------------------------------------------------
(* What a step may do to a pending row, whoever takes it *)
RowMoves(r) ==
    /\ Issued(r) =>
         /\ Issued(r)'
         /\ pending'[r].email = pending[r].email
         /\ pending'[r].password = pending[r].password
         /\ pending[r].attempts <= pending'[r].attempts
         /\ ~Usable(r) => ~Usable(r)'
    /\ pending[r].status = "gone" => pending'[r].status = "gone"
    /\ Live(r) /\ rowOwner'[r] # None => Live(r)'
    /\ sends[r] \subseteq sends'[r]
    /\ ~Issued(r) /\ Issued(r)' =>
         \E q \in Requests : pc[q] = "admitted" /\ cookie[q] = r /\ pc'[q] = "answered"

RowsMove == \A r \in Rows : RowMoves(r)

LEMMA RetiringMoves ==
    ASSUME IInv, RetiresRows, UNCHANGED <<now, sends>>,
           \A r \in Rows : Live(r) /\ rowOwner'[r] # None => Live(r)'
    PROVE  RowsMove
<1>1. \A r \in Rows : pending[r].attempts \in Nat
  BY DEF IInv, TypeOK, RowRecord
<1>. QED
  BY <1>1 DEF RowsMove, RowMoves, RetiresRows, Issued, Usable, Expired, Live

LEMMA NothingMoves ==
    ASSUME IInv, UNCHANGED <<now, pending, sends>>
    PROVE  RowsMove
<1>1. \A r \in Rows : pending[r].attempts \in Nat
  BY DEF IInv, TypeOK, RowRecord
<1>. QED
  BY <1>1 DEF RowsMove, RowMoves, Issued, Usable, Expired, Live

LEMMA RowsOnlyMove ==
    ASSUME IInv, [Next]_vars
    PROVE  RowsMove
<1>1. ASSUME NEW q \in Requests, NEW e \in Emails, StartRefused(q, e)
      PROVE  RowsMove
  <2>1. UNCHANGED <<now, pending, sends>>
    BY <1>1 DEF StartRefused, tables
  <2>. QED
    BY <2>1, NothingMoves
<1>2. ASSUME NEW q \in Requests, NEW e \in Emails, NEW r \in Rows, NEW c \in Codes, StartLookup(q, e, r, c)
      PROVE  RowsMove
  <2>1. /\ RetiresRows
        /\ UNCHANGED <<now, sends>>
        /\ \A x \in Rows : Live(x) /\ rowOwner'[x] # None => Live(x)'
    BY <1>2, DeleteOutdatedRetires DEF StartLookup, IInv, locks
  <2>. QED
    BY <2>1, RetiringMoves
<1>3. ASSUME NEW q \in Requests, StartInsert(q)
      PROVE  RowsMove
  <2>1. cookie[q] \in Rows /\ ~Issued(cookie[q]) /\ pc[q] = "admitted"
    BY <1>3 DEF StartInsert, IInv, ReadsSound, ReadSound
  <2>2. /\ sends[cookie[q]] = {}
        /\ pc'[q] = "answered"
    BY <1>3, <2>1 DEF StartInsert, Answer, Step, IInv, TypeOK, RowsSound, RowSound
  <2>3. ASSUME NEW r \in Rows, r # cookie[q]
        PROVE  pending'[r] = pending[r] /\ sends'[r] = sends[r] /\ now' = now
    BY <1>3, <2>3 DEF StartInsert, Inserted, IInv, TypeOK
  <2>4. ASSUME NEW r \in Rows
        PROVE  RowMoves(r) 
    <3>1. CASE r = cookie[q]
      BY <2>1, <2>2, <3>1 DEF RowMoves, Issued, Live
    <3>2. CASE r # cookie[q]
      <4>1. pending[r].attempts \in Nat
        BY DEF IInv, TypeOK, RowRecord
      <4>. QED
        BY <2>3, <3>2, <4>1 DEF RowMoves, Issued, Live, Usable, Expired
    <3>. QED
      BY <3>1, <3>2
  <2>. QED
    BY <2>4 DEF RowsMove
<1>4. ASSUME NEW q \in Requests, NEW r \in Rows, NEW c \in Codes, VerifyCount(q, r, c)
      PROVE  RowsMove
  <2>1. /\ pending[r] \in RowRecord
        /\ pending' = [pending EXCEPT ![r].attempts = @ + 1]
        /\ Usable(r)
        /\ UNCHANGED <<now, sends>>
    BY <1>4 DEF VerifyCount, IInv, TypeOK
  <2>2. ASSUME NEW s \in Rows, s # r
        PROVE  pending'[s] = pending[s]
    BY <2>1, <2>2 DEF IInv, TypeOK
  <2>3. /\ pending'[r].status = pending[r].status
        /\ pending'[r].email = pending[r].email
        /\ pending'[r].password = pending[r].password
        /\ pending'[r].attempts = pending[r].attempts + 1
        /\ pending[r].attempts \in Nat
    BY <2>1 DEF RowRecord, IInv, TypeOK
  <2>4. \A s \in Rows : pending[s].attempts \in Nat
    BY DEF IInv, TypeOK, RowRecord
  <2>. QED
    BY <2>1, <2>2, <2>3, <2>4 DEF RowsMove, RowMoves, Issued, Live, Usable, Expired
<1>5. ASSUME NEW q \in Requests, NEW r \in Rows, VerifyRefused(q, r)
      PROVE  RowsMove
  <2>1. UNCHANGED <<now, pending, sends>>
    BY <1>5 DEF VerifyRefused, tables
  <2>. QED
    BY <2>1, NothingMoves
<1>6. ASSUME NEW q \in Requests, VerifyExplain(q)
      PROVE  RowsMove
  <2>1. UNCHANGED <<now, pending, sends>>
    BY <1>6 DEF VerifyExplain, tables
  <2>. QED
    BY <2>1, NothingMoves
<1>7. ASSUME NEW q \in Requests, VerifyJudge(q)
      PROVE  RowsMove
  <2>1. UNCHANGED <<now, pending, sends>>
    BY <1>7 DEF VerifyJudge, tables
  <2>. QED
    BY <2>1, NothingMoves
<1>8. ASSUME NEW q \in Requests, TxConsume(q)
      PROVE  RowsMove
  <2>1. UNCHANGED <<now, pending, sends>>
    BY <1>8 DEF TxConsume, tables
  <2>. QED
    BY <2>1, NothingMoves
<1>9. ASSUME NEW q \in Requests, TxGone(q)
      PROVE  RowsMove
  <2>1. UNCHANGED <<now, pending, sends>>
    BY <1>9 DEF TxGone, Rollback, tables
  <2>. QED
    BY <2>1, NothingMoves
<1>10. ASSUME NEW q \in Requests, TxCreateUser(q)
      PROVE  RowsMove
  <2>1. UNCHANGED <<now, pending, sends>>
    BY <1>10 DEF TxCreateUser, tables
  <2>. QED
    BY <2>1, NothingMoves
<1>11. ASSUME NEW q \in Requests, TxConflict(q)
      PROVE  RowsMove
  <2>1. UNCHANGED <<now, pending, sends>>
    BY <1>11 DEF TxConflict, Rollback, tables
  <2>. QED
    BY <2>1, NothingMoves
<1>12. ASSUME NEW q \in Requests, TxDeleteSiblings(q)
      PROVE  RowsMove
  <2>1. UNCHANGED <<now, pending, sends>>
    BY <1>12 DEF TxDeleteSiblings, tables
  <2>. QED
    BY <2>1, NothingMoves
<1>13. ASSUME NEW q \in Requests, NEW r \in Rows, TxLockSibling(q, r)
      PROVE  RowsMove
  <2>1. UNCHANGED <<now, pending, sends>>
    BY <1>13 DEF TxLockSibling, tables
  <2>. QED
    BY <2>1, NothingMoves
<1>14. ASSUME NEW q \in Requests, TxCommit(q)
      PROVE  RowsMove
  <2>1. /\ RetiresRows
        /\ UNCHANGED <<now, sends>>
        /\ \A x \in Rows : Live(x) /\ rowOwner'[x] # None => Live(x)'
    BY <1>14, CommitRetires DEF TxCommit, ReleaseLocks, Live
  <2>. QED
    BY <2>1, RetiringMoves
<1>15. ASSUME NEW q \in Requests, NEW r \in Rows, NEW c \in Codes, ResendUpdate(q, r, c)
      PROVE  RowsMove
  <2>1. /\ pending[r] \in RowRecord
        /\ Usable(r)
        /\ pending' = [pending EXCEPT ![r] = Resent(r, c)]
        /\ \A s \in Rows : sends[s] \subseteq sends'[s]
        /\ UNCHANGED now
    BY <1>15 DEF ResendUpdate, Resendable, IInv, TypeOK
  <2>2. ASSUME NEW s \in Rows, s # r
        PROVE  pending'[s] = pending[s]
    BY <2>1, <2>2 DEF IInv, TypeOK
  <2>3. /\ pending'[r].status = pending[r].status
        /\ pending'[r].email = pending[r].email
        /\ pending'[r].password = pending[r].password
        /\ pending'[r].attempts = pending[r].attempts
    BY <2>1 DEF Resent, RowRecord, IInv, TypeOK
  <2>4. \A s \in Rows : pending[s].attempts \in Nat
    BY DEF IInv, TypeOK, RowRecord
  <2>. QED
    BY <2>1, <2>2, <2>3, <2>4 DEF RowsMove, RowMoves, Issued, Live, Usable, Expired
<1>16. ASSUME NEW q \in Requests, NEW r \in Rows, ResendRefused(q, r)
      PROVE  RowsMove
  <2>1. UNCHANGED <<now, pending, sends>>
    BY <1>16 DEF ResendRefused, tables
  <2>. QED
    BY <2>1, NothingMoves
<1>17. ASSUME NEW q \in Requests, ResendExplain(q)
      PROVE  RowsMove
  <2>1. UNCHANGED <<now, pending, sends>>
    BY <1>17 DEF ResendExplain, tables
  <2>. QED
    BY <2>1, NothingMoves
<1>18. ASSUME NEW q \in Requests, DeadlockVictim(q)
      PROVE  RowsMove
  <2>1. UNCHANGED <<now, pending, sends>>
    BY <1>18 DEF DeadlockVictim, Rollback, tables
  <2>. QED
    BY <2>1, NothingMoves
<1>19. CASE Cleanup
  <2>1. /\ RetiresRows
        /\ UNCHANGED <<now, sends>>
        /\ \A x \in Rows : Live(x) /\ rowOwner'[x] # None => Live(x)'
    BY <1>19, DeleteOutdatedRetires DEF Cleanup, IInv, locks
  <2>. QED
    BY <2>1, RetiringMoves
<1>20. ASSUME NEW q \in Requests, Crash(q)
      PROVE  RowsMove
  <2>1. UNCHANGED <<now, pending, sends>>
    BY <1>20 DEF Crash, tables
  <2>. QED
    BY <2>1, NothingMoves
<1>21. ASSUME NEW q \in Requests, Finish(q)
      PROVE  RowsMove
  <2>1. UNCHANGED <<now, pending, sends>>
    BY <1>21 DEF Finish, tables
  <2>. QED
    BY <2>1, NothingMoves
<1>22. CASE Tick
  <2>1. /\ now' = now + 1 /\ now \in Nat
        /\ UNCHANGED <<pending, sends>>
    BY <1>22 DEF Tick, tables, IInv, TypeOK
  <2>2. \A r \in Rows : pending[r].attempts \in Nat /\ pending[r].expiresAt \in Nat
    BY DEF IInv, TypeOK, RowRecord
  <2>. QED
    BY <2>1, <2>2 DEF RowsMove, RowMoves, Issued, Usable, Expired, Live
<1>23. CASE UNCHANGED vars
  <2>1. UNCHANGED <<now, pending, sends>>
    BY <1>23 DEF vars, tables
  <2>. QED
    BY <2>1, NothingMoves
<1>. QED
  BY <1>1, <1>2, <1>3, <1>4, <1>5, <1>6, <1>7, <1>8, <1>9, <1>10, <1>11, <1>12, <1>13, <1>14, <1>15, <1>16, <1>17, <1>18, <1>19, <1>20, <1>21, <1>22, <1>23
  DEF Next, Arrive, Progress

-----------------------------------------------------------------------------
(* A request that takes no step keeps what it has read *)
Stays(p) ==
    /\ pc'[p] = pc[p] /\ cookie'[p] = cookie[p]
    /\ typed'[p] = typed[p] /\ seen'[p] = seen[p]

OthersStay(q) == \A p \in Requests \ {q} : Stays(p)

LEMMA StayingKeepsReads ==
    ASSUME IInv, [Next]_vars, NEW p \in Requests, Stays(p)
    PROVE  ReadSound(p)'
<1>1. /\ RowsMove
      /\ ReadSound(p)
      /\ \A q \in Requests :
           pc[q] = "admitted" /\ pc[p] = "admitted" /\ cookie[q] = cookie[p] => q = p
  BY RowsOnlyMove DEF IInv, ReadsSound
<1>2. pc'[p] = "admitted" => (cookie'[p] \in Rows /\ ~Issued(cookie[p])')
  BY <1>1 DEF ReadSound, RowsMove, RowMoves, Stays
<1>3. cookie[p] \in Rows => (pending[cookie[p]].attempts \in Nat
                             /\ pending'[cookie[p]].attempts \in Nat)
  BY TypePreserved DEF IInv, TypeOK, RowRecord
<1>. QED
  BY <1>1, <1>2, <1>3 DEF ReadSound, RowsMove, RowMoves, Stays, Issued, Usable, Live, Expired,
     InTransaction

LEMMA OneRequestMoves ==
    ASSUME IInv, [Next]_vars, NEW q \in Requests, OthersStay(q), ReadSound(q)',
           pc'[q] # "admitted"
    PROVE  ReadsSound'
<1>1. \A p \in Requests : ReadSound(p)'
  BY StayingKeepsReads DEF OthersStay
<1>2. \A p \in Requests : pc'[p] = "admitted" => (pc[p] = "admitted" /\ cookie'[p] = cookie[p])
  BY DEF OthersStay, Stays
<1>. QED
  BY <1>1, <1>2 DEF IInv, ReadsSound

LEMMA NoRequestMoves ==
    ASSUME IInv, [Next]_vars, \A p \in Requests : Stays(p)
    PROVE  ReadsSound'
<1>1. \A p \in Requests : ReadSound(p)'
  BY StayingKeepsReads
<1>. QED
  BY <1>1 DEF IInv, ReadsSound, Stays

LEMMA ReadsPreserved ==
    ASSUME IInv, [Next]_vars
    PROVE  ReadsSound'
<1>1. ASSUME NEW q \in Requests, NEW e \in Emails, StartRefused(q, e)
      PROVE  ReadsSound'
  <2>1. OthersStay(q)
    BY <1>1 DEF StartRefused, Answer, Step, tables, locks, IInv, TypeOK, OthersStay, Stays
  <2>2. pc'[q] = "answered"
    BY <1>1 DEF StartRefused, Answer, Step, tables, locks, IInv, TypeOK
  <2>3. ReadSound(q)'
    BY <2>2 DEF ReadSound, InTransaction
  <2>. QED
    BY <2>1, <2>2, <2>3, OneRequestMoves
<1>2. ASSUME NEW q \in Requests, NEW e \in Emails, NEW r \in Rows, NEW c \in Codes, StartLookup(q, e, r, c)
      PROVE  ReadsSound'
  <2>1. OthersStay(q)
    BY <1>2 DEF StartLookup, Step, locks, IInv, TypeOK, OthersStay, Stays
  <2>2. /\ pc'[q] = "admitted" /\ cookie'[q] = r
        /\ ~Issued(r)
        /\ \A p \in Requests : pc[p] = "admitted" => cookie[p] # r
        /\ seen'[q].status = "live" /\ seen'[q].email = e /\ seen'[q].code = c
        /\ seen'[q].password \in {None, r} /\ seen'[q].sendCount = 1
        /\ RetiresRows
    BY <1>2, DeleteOutdatedRetires DEF StartLookup, Step, IInv, TypeOK
  <2>3. ~Issued(r)'
    BY <2>2 DEF RetiresRows, Issued, Live
  <2>4. ReadSound(q)'
    BY <2>2, <2>3 DEF ReadSound, InTransaction
  <2>5. \A p \in Requests : ReadSound(p)'
    BY <2>1, <2>4, StayingKeepsReads DEF OthersStay
  <2>6. \A p \in Requests : pc'[p] = "admitted" /\ p # q =>
          pc[p] = "admitted" /\ cookie'[p] = cookie[p] /\ cookie[p] # r
    BY <2>1, <2>2 DEF OthersStay, Stays
  <2>. QED
    BY <2>2, <2>5, <2>6 DEF IInv, ReadsSound
<1>3. ASSUME NEW q \in Requests, StartInsert(q)
      PROVE  ReadsSound'
  <2>1. OthersStay(q)
    BY <1>3 DEF StartInsert, Inserted, Answer, Step, locks, IInv, TypeOK, OthersStay, Stays
  <2>2. pc'[q] = "answered"
    BY <1>3 DEF StartInsert, Inserted, Answer, Step, locks, IInv, TypeOK
  <2>3. ReadSound(q)'
    BY <2>2 DEF ReadSound, InTransaction
  <2>. QED
    BY <2>1, <2>2, <2>3, OneRequestMoves
<1>4. ASSUME NEW q \in Requests, NEW r \in Rows, NEW c \in Codes, VerifyCount(q, r, c)
      PROVE  ReadsSound'
  <2>1. OthersStay(q)
    BY <1>4 DEF VerifyCount, Step, locks, IInv, TypeOK, OthersStay, Stays
  <2>2. /\ pc'[q] = "counted" /\ cookie'[q] = r /\ typed'[q] = c
        /\ seen'[q] = pending'[r]
        /\ UNCHANGED sends
    BY <1>4 DEF VerifyCount, Step, IInv, TypeOK
  <2>3. RowSound(r)' /\ Issued(r)'
    BY <1>4, RowsPreserved, RowsOnlyMove
      DEF VerifyCount, Usable, Live, RowsSound, RowsMove, RowMoves, Issued
  <2>4. pending'[r].attempts \in 1..pending'[r].attempts
    <3>1. /\ pending[r] \in RowRecord
          /\ pending' = [pending EXCEPT ![r].attempts = @ + 1]
      BY <1>4 DEF VerifyCount, IInv, TypeOK
    <3>2. pending'[r].attempts = pending[r].attempts + 1 /\ pending[r].attempts \in Nat
      BY <3>1 DEF RowRecord, IInv, TypeOK
    <3>. QED
      BY <3>2
  <2>5. ReadSound(q)'
    BY <2>2, <2>3, <2>4 DEF ReadSound, RowSound, InTransaction
  <2>. QED
    BY <2>1, <2>2, <2>5, OneRequestMoves
<1>5. ASSUME NEW q \in Requests, NEW r \in Rows, VerifyRefused(q, r)
      PROVE  ReadsSound'
  <2>1. OthersStay(q)
    BY <1>5 DEF VerifyRefused, Step, tables, locks, IInv, TypeOK, OthersStay, Stays
  <2>2. /\ pc'[q] = "verifyRefused" /\ cookie'[q] = r
        /\ Issued(r) /\ ~Usable(r)
        /\ UNCHANGED <<now, pending>>
    BY <1>5 DEF VerifyRefused, Step, tables, IInv, TypeOK
  <2>3. ReadSound(q)'
    BY <2>2 DEF ReadSound, Issued, Usable, Live, Expired, InTransaction
  <2>. QED
    BY <2>1, <2>2, <2>3, OneRequestMoves
<1>6. ASSUME NEW q \in Requests, VerifyExplain(q)
      PROVE  ReadsSound'
  <2>1. OthersStay(q)
    BY <1>6 DEF VerifyExplain, Answer, Step, tables, locks, IInv, TypeOK, OthersStay, Stays
  <2>2. pc'[q] = "answered"
    BY <1>6 DEF VerifyExplain, Answer, Step, tables, locks, IInv, TypeOK
  <2>3. ReadSound(q)'
    BY <2>2 DEF ReadSound, InTransaction
  <2>. QED
    BY <2>1, <2>2, <2>3, OneRequestMoves
<1>7. ASSUME NEW q \in Requests, VerifyJudge(q)
      PROVE  ReadsSound'
  <2>1. OthersStay(q)
    BY <1>7 DEF VerifyJudge, Answer, Step, IInv, TypeOK, OthersStay, Stays
  <2>2. /\ pc[q] = "counted"
        /\ UNCHANGED <<now, pending, sends, cookie, typed, seen>>
        /\ ReadSound(q)
    BY <1>7 DEF VerifyJudge, Answer, tables, IInv, ReadsSound
  <2>3. \/ pc'[q] = "answered"
        \/ pc'[q] = "matched" /\ typed[q] = seen[q].code /\ seen[q].password # None
    BY <1>7 DEF VerifyJudge, Answer, Step, Matches, IInv, TypeOK
  <2>4. seen[q].password \in {None, cookie[q]}
    BY <2>2 DEF ReadSound, IInv, RowsSound, RowSound
  <2>5. ReadSound(q)'
    BY <2>2, <2>3, <2>4 DEF ReadSound, Issued, InTransaction
  <2>. QED
    BY <2>1, <2>3, <2>5, OneRequestMoves
<1>8. ASSUME NEW q \in Requests, TxConsume(q)
      PROVE  ReadsSound'
  <2>1. OthersStay(q)
    BY <1>8 DEF TxConsume, Step, tables, IInv, TypeOK, OthersStay, Stays
  <2>2. /\ pc[q] = "matched" /\ pc'[q] = "consumed"
        /\ seen'[q] = pending[cookie[q]]
        /\ UNCHANGED <<now, pending, sends, cookie, typed>>
        /\ ReadSound(q)
    BY <1>8 DEF TxConsume, Step, tables, IInv, TypeOK, ReadsSound
  <2>3. ReadSound(q)'
    BY <2>2 DEF ReadSound, Issued, InTransaction
  <2>. QED
    BY <2>1, <2>2, <2>3, OneRequestMoves
<1>9. ASSUME NEW q \in Requests, TxGone(q)
      PROVE  ReadsSound'
  <2>1. OthersStay(q)
    BY <1>9 DEF TxGone, Rollback, ReleaseLocks, Answer, Step, tables, IInv, TypeOK, OthersStay, Stays
  <2>2. pc'[q] = "answered"
    BY <1>9 DEF TxGone, Rollback, ReleaseLocks, Answer, Step, tables, IInv, TypeOK
  <2>3. ReadSound(q)'
    BY <2>2 DEF ReadSound, InTransaction
  <2>. QED
    BY <2>1, <2>2, <2>3, OneRequestMoves
<1>10. ASSUME NEW q \in Requests, TxCreateUser(q)
      PROVE  ReadsSound'
  <2>1. OthersStay(q)
    BY <1>10 DEF TxCreateUser, Step, tables, IInv, TypeOK, OthersStay, Stays
  <2>2. /\ pc'[q] = "created"
        /\ UNCHANGED <<now, pending, users, sends, cookie, typed, seen>>
        /\ ReadSound(q)
    BY <1>10 DEF TxCreateUser, Step, tables, IInv, TypeOK, ReadsSound
  <2>3. ReadSound(q)'
    BY <1>10, <2>2 DEF TxCreateUser, ReadSound, Issued, InTransaction
  <2>. QED
    BY <2>1, <2>2, <2>3, OneRequestMoves
<1>11. ASSUME NEW q \in Requests, TxConflict(q)
      PROVE  ReadsSound'
  <2>1. OthersStay(q)
    BY <1>11 DEF TxConflict, Rollback, ReleaseLocks, Answer, Step, tables, IInv, TypeOK, OthersStay, Stays
  <2>2. pc'[q] = "answered"
    BY <1>11 DEF TxConflict, Rollback, ReleaseLocks, Answer, Step, tables, IInv, TypeOK
  <2>3. ReadSound(q)'
    BY <2>2 DEF ReadSound, InTransaction
  <2>. QED
    BY <2>1, <2>2, <2>3, OneRequestMoves
<1>12. ASSUME NEW q \in Requests, TxDeleteSiblings(q)
      PROVE  ReadsSound'
  <2>1. OthersStay(q)
    BY <1>12 DEF TxDeleteSiblings, Step, tables, locks, IInv, TypeOK, OthersStay, Stays
  <2>2. /\ pc'[q] = "deleting"
        /\ UNCHANGED <<now, pending, users, sends, cookie, typed, seen>>
        /\ ReadSound(q)
    BY <1>12 DEF TxDeleteSiblings, Step, tables, locks, IInv, TypeOK, ReadsSound
  <2>3. ReadSound(q)'
    BY <1>12, <2>2 DEF TxDeleteSiblings, ReadSound, Issued, InTransaction
  <2>. QED
    BY <2>1, <2>2, <2>3, OneRequestMoves
<1>13. ASSUME NEW q \in Requests, NEW r \in Rows, TxLockSibling(q, r)
      PROVE  ReadsSound'
  <2>1. \A p \in Requests : Stays(p)
    BY <1>13 DEF TxLockSibling, Stays
  <2>. QED
    BY <2>1, NoRequestMoves
<1>14. ASSUME NEW q \in Requests, TxCommit(q)
      PROVE  ReadsSound'
  <2>1. OthersStay(q)
    BY <1>14 DEF TxCommit, ReleaseLocks, Answer, Step, IInv, TypeOK, OthersStay, Stays
  <2>2. pc'[q] = "answered"
    BY <1>14 DEF TxCommit, ReleaseLocks, Answer, Step, IInv, TypeOK
  <2>3. ReadSound(q)'
    BY <2>2 DEF ReadSound, InTransaction
  <2>. QED
    BY <2>1, <2>2, <2>3, OneRequestMoves
<1>15. ASSUME NEW q \in Requests, NEW r \in Rows, NEW c \in Codes, ResendUpdate(q, r, c)
      PROVE  ReadsSound'
  <2>1. OthersStay(q)
    BY <1>15 DEF ResendUpdate, Resent, Answer, Step, locks, IInv, TypeOK, OthersStay, Stays
  <2>2. pc'[q] = "answered"
    BY <1>15 DEF ResendUpdate, Resent, Answer, Step, locks, IInv, TypeOK
  <2>3. ReadSound(q)'
    BY <2>2 DEF ReadSound, InTransaction
  <2>. QED
    BY <2>1, <2>2, <2>3, OneRequestMoves
<1>16. ASSUME NEW q \in Requests, NEW r \in Rows, ResendRefused(q, r)
      PROVE  ReadsSound'
  <2>1. OthersStay(q)
    BY <1>16 DEF ResendRefused, Step, tables, locks, IInv, TypeOK, OthersStay, Stays
  <2>2. /\ pc'[q] = "resendRefused" /\ cookie'[q] = r
        /\ Issued(r)
        /\ UNCHANGED pending
    BY <1>16 DEF ResendRefused, Step, tables, IInv, TypeOK
  <2>3. ReadSound(q)'
    BY <2>2 DEF ReadSound, Issued, InTransaction
  <2>. QED
    BY <2>1, <2>2, <2>3, OneRequestMoves
<1>17. ASSUME NEW q \in Requests, ResendExplain(q)
      PROVE  ReadsSound'
  <2>1. OthersStay(q)
    BY <1>17 DEF ResendExplain, Answer, Step, tables, locks, IInv, TypeOK, OthersStay, Stays
  <2>2. pc'[q] = "answered"
    BY <1>17 DEF ResendExplain, Answer, Step, tables, locks, IInv, TypeOK
  <2>3. ReadSound(q)'
    BY <2>2 DEF ReadSound, InTransaction
  <2>. QED
    BY <2>1, <2>2, <2>3, OneRequestMoves
<1>18. ASSUME NEW q \in Requests, DeadlockVictim(q)
      PROVE  ReadsSound'
  <2>1. OthersStay(q)
    BY <1>18 DEF DeadlockVictim, Rollback, ReleaseLocks, Answer, Step, tables, IInv, TypeOK, OthersStay, Stays
  <2>2. pc'[q] = "answered"
    BY <1>18 DEF DeadlockVictim, Rollback, ReleaseLocks, Answer, Step, tables, IInv, TypeOK
  <2>3. ReadSound(q)'
    BY <2>2 DEF ReadSound, InTransaction
  <2>. QED
    BY <2>1, <2>2, <2>3, OneRequestMoves
<1>19. CASE Cleanup
  <2>1. \A p \in Requests : Stays(p)
    BY <1>19 DEF Cleanup, DeleteOutdated, Outdated, locks, local, Stays
  <2>. QED
    BY <2>1, NoRequestMoves
<1>20. ASSUME NEW q \in Requests, Crash(q)
      PROVE  ReadsSound'
  <2>1. OthersStay(q)
    BY <1>20 DEF Crash, ReleaseLocks, Forget, Step, tables, IInv, TypeOK, OthersStay, Stays
  <2>2. pc'[q] = "idle"
    BY <1>20 DEF Crash, ReleaseLocks, Forget, Step, tables, IInv, TypeOK
  <2>3. ReadSound(q)'
    BY <2>2 DEF ReadSound, InTransaction
  <2>. QED
    BY <2>1, <2>2, <2>3, OneRequestMoves
<1>21. ASSUME NEW q \in Requests, Finish(q)
      PROVE  ReadsSound'
  <2>1. OthersStay(q)
    BY <1>21 DEF Finish, Forget, Step, tables, locks, IInv, TypeOK, OthersStay, Stays
  <2>2. pc'[q] = "idle"
    BY <1>21 DEF Finish, Forget, Step, tables, locks, IInv, TypeOK
  <2>3. ReadSound(q)'
    BY <2>2 DEF ReadSound, InTransaction
  <2>. QED
    BY <2>1, <2>2, <2>3, OneRequestMoves
<1>22. CASE Tick
  <2>1. \A p \in Requests : Stays(p)
    BY <1>22 DEF Tick, tables, locks, local, Stays
  <2>. QED
    BY <2>1, NoRequestMoves
<1>23. CASE UNCHANGED vars
  <2>1. \A p \in Requests : Stays(p)
    BY <1>23 DEF vars, tables, locks, local, Stays
  <2>. QED
    BY <2>1, NoRequestMoves
<1>. QED
  BY <1>1, <1>2, <1>3, <1>4, <1>5, <1>6, <1>7, <1>8, <1>9, <1>10, <1>11, <1>12, <1>13, <1>14, <1>15, <1>16, <1>17, <1>18, <1>19, <1>20, <1>21, <1>22, <1>23
  DEF Next, Arrive, Progress

-----------------------------------------------------------------------------
(* What a step of q may do to the locks *)
LocksMove(q) ==
    /\ \A r \in Rows :
         \/ rowOwner'[r] = rowOwner[r]
         \/ rowOwner[r] = None /\ rowOwner'[r] = q
         \/ rowOwner[r] = q /\ rowOwner'[r] = None
    /\ \A e \in Emails :
         \/ emailOwner'[e] = emailOwner[e]
         \/ emailOwner[e] = None /\ emailOwner'[e] = q
         \/ emailOwner[e] = q /\ emailOwner'[e] = None
    /\ \A e \in Emails : Registered(e)' => Registered(e) \/ emailOwner[e] = q
    /\ \A p \in Requests \ {q} : Stays(p) /\ todo'[p] = todo[p]

LEMMA OnlyOneMovesLocks ==
    ASSUME IInv, [Next]_vars, NEW q \in Requests, LocksMove(q), HoldsLocks(q)',
           \A r \in Rows : rowOwner'[r] = q => Owns(q, r)'
    PROVE  LocksSound'
<1>1. ASSUME NEW p \in Requests, p # q
      PROVE  HoldsLocks(p)'
  <2>1. Stays(p) /\ todo'[p] = todo[p] /\ HoldsLocks(p) /\ ReadSound(p) /\ p # None
    BY <1>1 DEF LocksMove, IInv, LocksSound, ReadsSound
  <2>2. pc[p] \in InTransaction => cookie[p] \in Rows
    BY <2>1 DEF ReadSound
  <2>3. pc[p] \in InTransaction => seen[p].email \in Emails
    BY <2>1, <2>2 DEF ReadSound, IInv, RowsSound, RowSound
  <2>4. pc'[p] \in InTransaction => rowOwner'[cookie'[p]] = p
    BY <1>1, <2>1, <2>2 DEF HoldsLocks, LocksMove, Stays
  <2>5. pc'[p] \in {"created", "deleting"} =>
          emailOwner'[seen'[p].email] = p /\ ~Registered(seen[p].email)'
    BY <1>1, <2>1, <2>3 DEF HoldsLocks, LocksMove, Stays, InTransaction
  <2>6. \A r \in todo[p] : Issued(r)' /\ pending'[r].email = pending[r].email
    BY <2>1, RowsOnlyMove DEF HoldsLocks, RowsMove, RowMoves, IInv, TypeOK
  <2>. QED
    BY <2>1, <2>4, <2>5, <2>6 DEF HoldsLocks, Stays, Registered, InTransaction
<1>2. ASSUME NEW p \in Requests, NEW r \in Rows, rowOwner'[r] = p
      PROVE  Owns(p, r)'
  <2>1. CASE p = q
    BY <1>2, <2>1
  <2>2. CASE p # q
    <3>1. rowOwner[r] = p /\ p # None
      BY <1>2, <2>2 DEF LocksMove
    <3>2. Owns(p, r) /\ Stays(p)
      BY <2>2, <3>1 DEF IInv, LocksSound, LocksMove
    <3>3. Live(r)' /\ pending'[r].email = pending[r].email
      BY <1>2, <3>1, <3>2, RowsOnlyMove DEF Owns, RowsMove, RowMoves, Live, Issued
    <3>. QED
      BY <3>1, <3>2, <3>3 DEF Owns, Stays, Live
  <2>. QED
    BY <2>1, <2>2
<1>. QED
  BY <1>1, <1>2 DEF LocksSound

\* A request outside a transaction holds no lock.
LEMMA OutsideATransaction ==
    ASSUME IInv, [Next]_vars, NEW q \in Requests, LocksMove(q),
           pc'[q] \notin InTransaction, todo'[q] \in {{}, todo[q]},
           pc[q] \notin InTransaction, UNCHANGED rowOwner
    PROVE  LocksSound'
<1>1. todo'[q] = {}
  BY DEF IInv, LocksSound, HoldsLocks, InTransaction, TypeOK
<1>2. HoldsLocks(q)'
  BY <1>1 DEF HoldsLocks, InTransaction
<1>3. \A r \in Rows : rowOwner'[r] # q
  BY DEF IInv, LocksSound, Owns
<1>. QED
  BY <1>2, <1>3, OnlyOneMovesLocks

\* The end of a transaction releases its locks.
LEMMA ReleasedLocks ==
    ASSUME IInv, [Next]_vars, NEW q \in Requests, LocksMove(q), ReleaseLocks(q),
           pc'[q] \notin InTransaction, todo'[q] = {}
    PROVE  LocksSound'
<1>1. HoldsLocks(q)'
  BY DEF HoldsLocks, InTransaction
<1>2. \A r \in Rows : rowOwner'[r] # q
  BY DEF ReleaseLocks
<1>. QED
  BY <1>1, <1>2, OnlyOneMovesLocks

\* A step that neither locks, commits nor moves a request.
LEMMA NoLockMoves ==
    ASSUME IInv, [Next]_vars, UNCHANGED <<users, locks, local>>
    PROVE  LocksSound'
<1>1. ASSUME NEW q \in Requests
      PROVE  HoldsLocks(q)'
  <2>1. \A r \in todo[q] : Issued(r)' /\ pending'[r].email = pending[r].email
    BY RowsOnlyMove DEF IInv, LocksSound, HoldsLocks, RowsMove, RowMoves, TypeOK
  <2>. QED
    BY <2>1 DEF HoldsLocks, IInv, LocksSound, Registered, locks, local
<1>2. ASSUME NEW q \in Requests, NEW r \in Rows, rowOwner'[r] = q
      PROVE  Owns(q, r)'
  <2>1. Owns(q, r) /\ q # None
    BY <1>2 DEF IInv, LocksSound, locks
  <2>2. Live(r)' /\ pending'[r].email = pending[r].email
    BY <1>2, <2>1, RowsOnlyMove DEF Owns, RowsMove, RowMoves, Live, Issued
  <2>. QED
    BY <2>1, <2>2 DEF Owns, locks, local
<1>. QED
  BY <1>1, <1>2 DEF LocksSound

LEMMA LocksPreserved ==
    ASSUME IInv, [Next]_vars
    PROVE  LocksSound'
<1>1. ASSUME NEW q \in Requests, NEW e \in Emails, StartRefused(q, e)
      PROVE  LocksSound'
  <2>1. LocksMove(q)
    BY <1>1 DEF StartRefused, Answer, Step, tables, locks, IInv, TypeOK, LocksMove, Stays, Registered
  <2>2. /\ pc[q] \notin InTransaction /\ pc'[q] \notin InTransaction
        /\ todo'[q] \in {{}, todo[q]}
        /\ UNCHANGED rowOwner
    BY <1>1 DEF StartRefused, Answer, Step, tables, locks, IInv, TypeOK, InTransaction
  <2>. QED
    BY <2>1, <2>2, OutsideATransaction
<1>2. ASSUME NEW q \in Requests, NEW e \in Emails, NEW r \in Rows, NEW c \in Codes, StartLookup(q, e, r, c)
      PROVE  LocksSound'
  <2>1. LocksMove(q)
    BY <1>2 DEF StartLookup, DeleteOutdated, Outdated, Step, locks, IInv, TypeOK, LocksMove, Stays, Registered
  <2>2. /\ pc[q] \notin InTransaction /\ pc'[q] \notin InTransaction
        /\ todo'[q] \in {{}, todo[q]}
        /\ UNCHANGED rowOwner
    BY <1>2 DEF StartLookup, DeleteOutdated, Outdated, Step, locks, IInv, TypeOK, InTransaction
  <2>. QED
    BY <2>1, <2>2, OutsideATransaction
<1>3. ASSUME NEW q \in Requests, StartInsert(q)
      PROVE  LocksSound'
  <2>1. LocksMove(q)
    BY <1>3 DEF StartInsert, Inserted, Answer, Step, locks, IInv, TypeOK, LocksMove, Stays, Registered
  <2>2. /\ pc[q] \notin InTransaction /\ pc'[q] \notin InTransaction
        /\ todo'[q] \in {{}, todo[q]}
        /\ UNCHANGED rowOwner
    BY <1>3 DEF StartInsert, Inserted, Answer, Step, locks, IInv, TypeOK, InTransaction
  <2>. QED
    BY <2>1, <2>2, OutsideATransaction
<1>4. ASSUME NEW q \in Requests, NEW r \in Rows, NEW c \in Codes, VerifyCount(q, r, c)
      PROVE  LocksSound'
  <2>1. LocksMove(q)
    BY <1>4 DEF VerifyCount, Step, locks, IInv, TypeOK, LocksMove, Stays, Registered
  <2>2. /\ pc[q] \notin InTransaction /\ pc'[q] \notin InTransaction
        /\ todo'[q] \in {{}, todo[q]}
        /\ UNCHANGED rowOwner
    BY <1>4 DEF VerifyCount, Step, locks, IInv, TypeOK, InTransaction
  <2>. QED
    BY <2>1, <2>2, OutsideATransaction
<1>5. ASSUME NEW q \in Requests, NEW r \in Rows, VerifyRefused(q, r)
      PROVE  LocksSound'
  <2>1. LocksMove(q)
    BY <1>5 DEF VerifyRefused, Step, tables, locks, IInv, TypeOK, LocksMove, Stays, Registered
  <2>2. /\ pc[q] \notin InTransaction /\ pc'[q] \notin InTransaction
        /\ todo'[q] \in {{}, todo[q]}
        /\ UNCHANGED rowOwner
    BY <1>5 DEF VerifyRefused, Step, tables, locks, IInv, TypeOK, InTransaction
  <2>. QED
    BY <2>1, <2>2, OutsideATransaction
<1>6. ASSUME NEW q \in Requests, VerifyExplain(q)
      PROVE  LocksSound'
  <2>1. LocksMove(q)
    BY <1>6 DEF VerifyExplain, Answer, Step, tables, locks, IInv, TypeOK, LocksMove, Stays, Registered
  <2>2. /\ pc[q] \notin InTransaction /\ pc'[q] \notin InTransaction
        /\ todo'[q] \in {{}, todo[q]}
        /\ UNCHANGED rowOwner
    BY <1>6 DEF VerifyExplain, Answer, Step, tables, locks, IInv, TypeOK, InTransaction
  <2>. QED
    BY <2>1, <2>2, OutsideATransaction
<1>7. ASSUME NEW q \in Requests, VerifyJudge(q)
      PROVE  LocksSound'
  <2>1. LocksMove(q)
    BY <1>7 DEF VerifyJudge, Answer, Step, tables, locks, IInv, TypeOK, LocksMove, Stays, Registered
  <2>2. /\ pc[q] \notin InTransaction /\ pc'[q] \notin InTransaction
        /\ todo'[q] \in {{}, todo[q]}
        /\ UNCHANGED rowOwner
    BY <1>7 DEF VerifyJudge, Answer, Step, tables, locks, IInv, TypeOK, InTransaction
  <2>. QED
    BY <2>1, <2>2, OutsideATransaction
<1>8. ASSUME NEW q \in Requests, TxConsume(q)
      PROVE  LocksSound'
  <2>1. LocksMove(q)
    BY <1>8 DEF TxConsume, Step, tables, IInv, TypeOK, LocksMove, Stays, Registered
  <2>2. /\ pc[q] = "matched" /\ pc'[q] = "consumed"
        /\ cookie[q] \in Rows /\ cookie'[q] = cookie[q]
        /\ rowOwner' = [rowOwner EXCEPT ![cookie[q]] = q]
        /\ Live(cookie[q])
        /\ seen'[q] = pending[cookie[q]]
        /\ UNCHANGED <<pending, todo>>
    BY <1>8 DEF TxConsume, Step, tables, IInv, TypeOK, ReadsSound, ReadSound
  <2>3. /\ rowOwner'[cookie[q]] = q
        /\ \A r \in Rows \ {cookie[q]} : rowOwner'[r] = rowOwner[r]
    BY <2>2 DEF IInv, TypeOK
  <2>4. /\ todo[q] = {}
        /\ \A r \in Rows : rowOwner[r] # q
    BY <2>2 DEF IInv, LocksSound, HoldsLocks, Owns, InTransaction, TypeOK
  <2>5. HoldsLocks(q)'
    BY <2>2, <2>3, <2>4 DEF HoldsLocks, InTransaction
  <2>6. \A r \in Rows : rowOwner'[r] = q => Owns(q, r)'
    BY <2>2, <2>3, <2>4 DEF Owns, Live, InTransaction
  <2>. QED
    BY <2>1, <2>5, <2>6, OnlyOneMovesLocks
<1>9. ASSUME NEW q \in Requests, TxGone(q)
      PROVE  LocksSound'
  <2>1. LocksMove(q)
    BY <1>9 DEF TxGone, Rollback, ReleaseLocks, Answer, Step, tables, IInv, TypeOK, LocksMove, Stays, Registered
  <2>2. pc'[q] \notin InTransaction /\ todo'[q] = {} /\ ReleaseLocks(q)
    BY <1>9 DEF TxGone, Rollback, Answer, Step, tables, IInv, TypeOK, InTransaction
  <2>. QED
    BY <2>1, <2>2, ReleasedLocks
<1>10. ASSUME NEW q \in Requests, TxCreateUser(q)
      PROVE  LocksSound'
  <2>1. /\ pc[q] = "consumed" /\ pc'[q] = "created"
        /\ seen[q].email \in Emails /\ ~Registered(seen[q].email)
        /\ emailOwner[seen[q].email] = None
        /\ emailOwner' = [emailOwner EXCEPT ![seen[q].email] = q]
        /\ UNCHANGED <<pending, users, rowOwner, cookie, seen, todo>>
    BY <1>10 DEF TxCreateUser, Step, tables, IInv, TypeOK, ReadsSound, ReadSound, RowsSound,
       RowSound, InTransaction
  <2>2. LocksMove(q)
    BY <1>10, <2>1 DEF TxCreateUser, Step, IInv, TypeOK, LocksMove, Stays, Registered
  <2>3. HoldsLocks(q)'
    BY <2>1 DEF HoldsLocks, InTransaction, IInv, TypeOK, LocksSound, Registered
  <2>4. \A r \in Rows : rowOwner'[r] = q => Owns(q, r)'
    BY <2>1 DEF IInv, LocksSound, Owns, Live, InTransaction
  <2>. QED
    BY <2>2, <2>3, <2>4, OnlyOneMovesLocks
<1>11. ASSUME NEW q \in Requests, TxConflict(q)
      PROVE  LocksSound'
  <2>1. LocksMove(q)
    BY <1>11 DEF TxConflict, Rollback, ReleaseLocks, Answer, Step, tables, IInv, TypeOK, LocksMove, Stays, Registered
  <2>2. pc'[q] \notin InTransaction /\ todo'[q] = {} /\ ReleaseLocks(q)
    BY <1>11 DEF TxConflict, Rollback, Answer, Step, tables, IInv, TypeOK, InTransaction
  <2>. QED
    BY <2>1, <2>2, ReleasedLocks
<1>12. ASSUME NEW q \in Requests, TxDeleteSiblings(q)
      PROVE  LocksSound'
  <2>1. LocksMove(q)
    BY <1>12 DEF TxDeleteSiblings, Step, tables, locks, IInv, TypeOK, LocksMove, Stays, Registered
  <2>2. /\ pc[q] = "created" /\ pc'[q] = "deleting"
        /\ \A r \in todo'[q] : Live(r) /\ pending[r].email = seen[q].email
        /\ UNCHANGED <<pending, users, rowOwner, emailOwner, cookie, seen>>
    BY <1>12 DEF TxDeleteSiblings, Step, tables, locks, IInv, TypeOK
  <2>3. HoldsLocks(q)'
    BY <2>2 DEF HoldsLocks, InTransaction, IInv, LocksSound, Registered, Issued, Live
  <2>4. \A r \in Rows : rowOwner'[r] = q => Owns(q, r)'
    BY <2>2 DEF IInv, LocksSound, Owns, Live, InTransaction
  <2>. QED
    BY <2>1, <2>3, <2>4, OnlyOneMovesLocks
<1>13. ASSUME NEW q \in Requests, NEW r \in Rows, TxLockSibling(q, r)
      PROVE  LocksSound'
  <2>1. LocksMove(q)
    BY <1>13 DEF TxLockSibling, tables, IInv, TypeOK, LocksMove, Stays, Registered
  <2>2. /\ pc[q] = "deleting" /\ r \in todo[q]
        /\ rowOwner[r] = None
        /\ rowOwner' = IF Live(r) THEN [rowOwner EXCEPT ![r] = q] ELSE rowOwner
        /\ todo'[q] = todo[q] \ {r}
        /\ UNCHANGED <<pending, users, emailOwner, pc, cookie, seen>>
    BY <1>13 DEF TxLockSibling, tables, IInv, TypeOK
  <2>3. /\ pending[r].email = seen[q].email
        /\ cookie[q] \in Rows /\ rowOwner[cookie[q]] = q /\ q # None
    BY <2>2 DEF IInv, LocksSound, HoldsLocks, ReadsSound, ReadSound, InTransaction
  <2>4. HoldsLocks(q)'
    BY <2>2, <2>3 DEF HoldsLocks, InTransaction, IInv, TypeOK, LocksSound, Registered, Issued
  <2>5. ASSUME NEW x \in Rows, rowOwner'[x] = q
        PROVE  Owns(q, x)'
    <3>1. rowOwner[x] = q \/ (x = r /\ Live(r))
      BY <2>2, <2>5 DEF IInv, TypeOK
    <3>. QED
      BY <2>2, <2>3, <3>1 DEF IInv, LocksSound, Owns, Live, InTransaction
  <2>. QED
    BY <2>1, <2>4, <2>5, OnlyOneMovesLocks
<1>14. ASSUME NEW q \in Requests, TxCommit(q)
      PROVE  LocksSound'
  <2>1. /\ seen[q].email \in Emails
        /\ emailOwner[seen[q].email] = q
        /\ \A e \in Emails : Registered(e)' => Registered(e) \/ e = seen[q].email
    <3>1. seen[q].email \in Emails /\ emailOwner[seen[q].email] = q
      BY <1>14 DEF TxCommit, IInv, ReadsSound, ReadSound, RowsSound, RowSound, LocksSound,
         HoldsLocks, InTransaction
    <3>. QED
      BY <1>14, <3>1 DEF TxCommit, Registered
  <2>2. LocksMove(q)
    BY <1>14, <2>1 DEF TxCommit, ReleaseLocks, Answer, Step, IInv, TypeOK, LocksMove, Stays
  <2>3. pc'[q] \notin InTransaction /\ todo'[q] = {} /\ ReleaseLocks(q)
    BY <1>14 DEF TxCommit, Answer, Step, IInv, TypeOK, InTransaction
  <2>. QED
    BY <2>2, <2>3, ReleasedLocks
<1>15. ASSUME NEW q \in Requests, NEW r \in Rows, NEW c \in Codes, ResendUpdate(q, r, c)
      PROVE  LocksSound'
  <2>1. LocksMove(q)
    BY <1>15 DEF ResendUpdate, Resent, Answer, Step, locks, IInv, TypeOK, LocksMove, Stays, Registered
  <2>2. /\ pc[q] \notin InTransaction /\ pc'[q] \notin InTransaction
        /\ todo'[q] \in {{}, todo[q]}
        /\ UNCHANGED rowOwner
    BY <1>15 DEF ResendUpdate, Resent, Answer, Step, locks, IInv, TypeOK, InTransaction
  <2>. QED
    BY <2>1, <2>2, OutsideATransaction
<1>16. ASSUME NEW q \in Requests, NEW r \in Rows, ResendRefused(q, r)
      PROVE  LocksSound'
  <2>1. LocksMove(q)
    BY <1>16 DEF ResendRefused, Step, tables, locks, IInv, TypeOK, LocksMove, Stays, Registered
  <2>2. /\ pc[q] \notin InTransaction /\ pc'[q] \notin InTransaction
        /\ todo'[q] \in {{}, todo[q]}
        /\ UNCHANGED rowOwner
    BY <1>16 DEF ResendRefused, Step, tables, locks, IInv, TypeOK, InTransaction
  <2>. QED
    BY <2>1, <2>2, OutsideATransaction
<1>17. ASSUME NEW q \in Requests, ResendExplain(q)
      PROVE  LocksSound'
  <2>1. LocksMove(q)
    BY <1>17 DEF ResendExplain, Answer, Step, tables, locks, IInv, TypeOK, LocksMove, Stays, Registered
  <2>2. /\ pc[q] \notin InTransaction /\ pc'[q] \notin InTransaction
        /\ todo'[q] \in {{}, todo[q]}
        /\ UNCHANGED rowOwner
    BY <1>17 DEF ResendExplain, Answer, Step, tables, locks, IInv, TypeOK, InTransaction
  <2>. QED
    BY <2>1, <2>2, OutsideATransaction
<1>18. ASSUME NEW q \in Requests, DeadlockVictim(q)
      PROVE  LocksSound'
  <2>1. LocksMove(q)
    BY <1>18 DEF DeadlockVictim, Rollback, ReleaseLocks, Answer, Step, tables, IInv, TypeOK, LocksMove, Stays, Registered
  <2>2. pc'[q] \notin InTransaction /\ todo'[q] = {} /\ ReleaseLocks(q)
    BY <1>18 DEF DeadlockVictim, Rollback, Answer, Step, tables, IInv, TypeOK, InTransaction
  <2>. QED
    BY <2>1, <2>2, ReleasedLocks
<1>19. CASE Cleanup
  <2>1. UNCHANGED <<users, locks, local>>
    BY <1>19 DEF Cleanup, tables
  <2>. QED
    BY <2>1, NoLockMoves
<1>20. ASSUME NEW q \in Requests, Crash(q)
      PROVE  LocksSound'
  <2>1. LocksMove(q)
    BY <1>20 DEF Crash, ReleaseLocks, Forget, Step, tables, IInv, TypeOK, LocksMove, Stays, Registered
  <2>2. pc'[q] \notin InTransaction /\ todo'[q] = {} /\ ReleaseLocks(q)
    BY <1>20 DEF Crash, Forget, Step, tables, IInv, TypeOK, InTransaction
  <2>. QED
    BY <2>1, <2>2, ReleasedLocks
<1>21. ASSUME NEW q \in Requests, Finish(q)
      PROVE  LocksSound'
  <2>1. LocksMove(q)
    BY <1>21 DEF Finish, Forget, Step, tables, locks, IInv, TypeOK, LocksMove, Stays, Registered
  <2>2. /\ pc[q] \notin InTransaction /\ pc'[q] \notin InTransaction
        /\ todo'[q] \in {{}, todo[q]}
        /\ UNCHANGED rowOwner
    BY <1>21 DEF Finish, Forget, Step, tables, locks, IInv, TypeOK, InTransaction
  <2>. QED
    BY <2>1, <2>2, OutsideATransaction
<1>22. CASE Tick
  <2>1. UNCHANGED <<users, locks, local>>
    BY <1>22 DEF Tick, tables
  <2>. QED
    BY <2>1, NoLockMoves
<1>23. CASE UNCHANGED vars
  <2>1. UNCHANGED <<users, locks, local>>
    BY <1>23 DEF vars, tables
  <2>. QED
    BY <2>1, NoLockMoves
<1>. QED
  BY <1>1, <1>2, <1>3, <1>4, <1>5, <1>6, <1>7, <1>8, <1>9, <1>10, <1>11, <1>12, <1>13, <1>14, <1>15, <1>16, <1>17, <1>18, <1>19, <1>20, <1>21, <1>22, <1>23
  DEF Next, Arrive, Progress

-----------------------------------------------------------------------------
(* The properties themselves *)
LEMMA NoGuessMoves ==
    ASSUME IInv, UNCHANGED judged,
           \A p \in Requests : pc'[p] = "counted" => pc[p] = "counted" /\ Stays(p)
    PROVE  GuessesApart'
  BY DEF IInv, GuessesApart, Stays

LEMMA GuessesPreserved ==
    ASSUME IInv, [Next]_vars
    PROVE  GuessesApart'
<1>1. ASSUME NEW q \in Requests, NEW e \in Emails, StartRefused(q, e)
      PROVE  GuessesApart'
  <2>1. /\ UNCHANGED judged
        /\ \A p \in Requests : pc'[p] = "counted" => pc[p] = "counted" /\ Stays(p)
    BY <1>1 DEF StartRefused, Answer, Step, tables, locks, IInv, TypeOK, Stays
  <2>. QED
    BY <2>1, NoGuessMoves
<1>2. ASSUME NEW q \in Requests, NEW e \in Emails, NEW r \in Rows, NEW c \in Codes, StartLookup(q, e, r, c)
      PROVE  GuessesApart'
  <2>1. /\ UNCHANGED judged
        /\ \A p \in Requests : pc'[p] = "counted" => pc[p] = "counted" /\ Stays(p)
    BY <1>2 DEF StartLookup, DeleteOutdated, Outdated, Step, locks, IInv, TypeOK, Stays
  <2>. QED
    BY <2>1, NoGuessMoves
<1>3. ASSUME NEW q \in Requests, StartInsert(q)
      PROVE  GuessesApart'
  <2>1. /\ UNCHANGED judged
        /\ \A p \in Requests : pc'[p] = "counted" => pc[p] = "counted" /\ Stays(p)
    BY <1>3 DEF StartInsert, Inserted, Answer, Step, locks, IInv, TypeOK, Stays
  <2>. QED
    BY <2>1, NoGuessMoves
<1>4. ASSUME NEW q \in Requests, NEW r \in Rows, NEW c \in Codes, VerifyCount(q, r, c)
      PROVE  GuessesApart'
  <2>1. /\ pending[r] \in RowRecord
        /\ pending' = [pending EXCEPT ![r].attempts = @ + 1]
        /\ pc'[q] = "counted" /\ cookie'[q] = r /\ seen'[q] = pending'[r]
        /\ UNCHANGED judged
        /\ OthersStay(q)
    BY <1>4 DEF VerifyCount, Step, IInv, TypeOK, OthersStay, Stays
  <2>2. seen'[q].attempts = pending[r].attempts + 1 /\ pending[r].attempts \in Nat
    BY <2>1 DEF RowRecord, IInv, TypeOK
  <2>3. seen'[q].attempts \notin judged[r]
    BY <2>2 DEF IInv, RowsSound, RowSound
  <2>4. \A p \in Requests : pc[p] = "counted" /\ cookie[p] = r =>
          seen[p].attempts # seen'[q].attempts
    BY <2>2 DEF IInv, ReadsSound, ReadSound
  <2>5. \A p \in Requests \ {q} : pc'[p] = "counted" => pc[p] = "counted" /\ Stays(p)
    BY <2>1 DEF OthersStay, Stays
  <2>6. ASSUME NEW p \in Requests, pc'[p] = "counted"
        PROVE  /\ seen'[p].attempts \notin judged'[cookie'[p]]
               /\ \A x \in Requests \ {p} : pc'[x] = "counted" /\ cookie'[x] = cookie'[p]
                    => seen'[x].attempts # seen'[p].attempts
    <3>1. CASE p = q
      BY <2>1, <2>3, <2>4, <2>5, <3>1 DEF Stays
    <3>2. CASE p # q
      <4>1. pc[p] = "counted" /\ seen'[p] = seen[p] /\ cookie'[p] = cookie[p]
        BY <2>5, <2>6, <3>2 DEF Stays
      <4>2. seen[p].attempts \notin judged[cookie[p]]
        BY <4>1 DEF IInv, GuessesApart
      <4>3. ASSUME NEW x \in Requests \ {p}, pc'[x] = "counted", cookie'[x] = cookie'[p]
            PROVE  seen'[x].attempts # seen'[p].attempts
        <5>1. CASE x = q
          BY <2>1, <2>4, <4>1, <4>3, <5>1
        <5>2. CASE x # q
          <6>1. pc[x] = "counted" /\ seen'[x] = seen[x] /\ cookie'[x] = cookie[x]
            BY <2>5, <4>3, <5>2 DEF Stays
          <6>. QED
            BY <4>1, <4>3, <6>1 DEF IInv, GuessesApart
        <5>. QED
          BY <5>1, <5>2
      <4>. QED
        BY <2>1, <4>1, <4>2, <4>3
    <3>. QED
      BY <3>1, <3>2
  <2>. QED
    BY <2>6 DEF GuessesApart
<1>5. ASSUME NEW q \in Requests, NEW r \in Rows, VerifyRefused(q, r)
      PROVE  GuessesApart'
  <2>1. /\ UNCHANGED judged
        /\ \A p \in Requests : pc'[p] = "counted" => pc[p] = "counted" /\ Stays(p)
    BY <1>5 DEF VerifyRefused, Step, tables, locks, IInv, TypeOK, Stays
  <2>. QED
    BY <2>1, NoGuessMoves
<1>6. ASSUME NEW q \in Requests, VerifyExplain(q)
      PROVE  GuessesApart'
  <2>1. /\ UNCHANGED judged
        /\ \A p \in Requests : pc'[p] = "counted" => pc[p] = "counted" /\ Stays(p)
    BY <1>6 DEF VerifyExplain, Answer, Step, tables, locks, IInv, TypeOK, Stays
  <2>. QED
    BY <2>1, NoGuessMoves
<1>7. ASSUME NEW q \in Requests, VerifyJudge(q)
      PROVE  GuessesApart'
  <2>1. /\ pc[q] = "counted" /\ pc'[q] # "counted"
        /\ cookie[q] \in Rows
        /\ judged' = [judged EXCEPT ![cookie[q]] = @ \cup {seen[q].attempts}]
        /\ OthersStay(q)
    BY <1>7 DEF VerifyJudge, Answer, Step, IInv, TypeOK, ReadsSound, ReadSound, OthersStay, Stays
  <2>2. \A r \in Rows : judged'[r] = IF r = cookie[q] THEN judged[r] \cup {seen[q].attempts}
                                                     ELSE judged[r]
    BY <2>1 DEF IInv, TypeOK
  <2>3. ASSUME NEW p \in Requests, pc'[p] = "counted"
        PROVE  /\ p # q /\ pc[p] = "counted" /\ Stays(p)
               /\ cookie[p] \in Rows
               /\ seen[p].attempts \notin judged'[cookie[p]]
    <3>1. p # q /\ pc[p] = "counted" /\ Stays(p)
      BY <2>1, <2>3 DEF OthersStay, Stays
    <3>2. cookie[p] \in Rows
      BY <3>1 DEF IInv, ReadsSound, ReadSound
    <3>. QED
      BY <2>1, <2>2, <3>1, <3>2 DEF IInv, GuessesApart
  <2>. QED
    BY <2>3 DEF IInv, GuessesApart, Stays
<1>8. ASSUME NEW q \in Requests, TxConsume(q)
      PROVE  GuessesApart'
  <2>1. /\ UNCHANGED judged
        /\ \A p \in Requests : pc'[p] = "counted" => pc[p] = "counted" /\ Stays(p)
    BY <1>8 DEF TxConsume, Step, tables, IInv, TypeOK, Stays
  <2>. QED
    BY <2>1, NoGuessMoves
<1>9. ASSUME NEW q \in Requests, TxGone(q)
      PROVE  GuessesApart'
  <2>1. /\ UNCHANGED judged
        /\ \A p \in Requests : pc'[p] = "counted" => pc[p] = "counted" /\ Stays(p)
    BY <1>9 DEF TxGone, Rollback, ReleaseLocks, Answer, Step, tables, IInv, TypeOK, Stays
  <2>. QED
    BY <2>1, NoGuessMoves
<1>10. ASSUME NEW q \in Requests, TxCreateUser(q)
      PROVE  GuessesApart'
  <2>1. /\ UNCHANGED judged
        /\ \A p \in Requests : pc'[p] = "counted" => pc[p] = "counted" /\ Stays(p)
    BY <1>10 DEF TxCreateUser, Step, tables, IInv, TypeOK, Stays
  <2>. QED
    BY <2>1, NoGuessMoves
<1>11. ASSUME NEW q \in Requests, TxConflict(q)
      PROVE  GuessesApart'
  <2>1. /\ UNCHANGED judged
        /\ \A p \in Requests : pc'[p] = "counted" => pc[p] = "counted" /\ Stays(p)
    BY <1>11 DEF TxConflict, Rollback, ReleaseLocks, Answer, Step, tables, IInv, TypeOK, Stays
  <2>. QED
    BY <2>1, NoGuessMoves
<1>12. ASSUME NEW q \in Requests, TxDeleteSiblings(q)
      PROVE  GuessesApart'
  <2>1. /\ UNCHANGED judged
        /\ \A p \in Requests : pc'[p] = "counted" => pc[p] = "counted" /\ Stays(p)
    BY <1>12 DEF TxDeleteSiblings, Step, tables, locks, IInv, TypeOK, Stays
  <2>. QED
    BY <2>1, NoGuessMoves
<1>13. ASSUME NEW q \in Requests, NEW r \in Rows, TxLockSibling(q, r)
      PROVE  GuessesApart'
  <2>1. /\ UNCHANGED judged
        /\ \A p \in Requests : pc'[p] = "counted" => pc[p] = "counted" /\ Stays(p)
    BY <1>13 DEF TxLockSibling, tables, IInv, TypeOK, Stays
  <2>. QED
    BY <2>1, NoGuessMoves
<1>14. ASSUME NEW q \in Requests, TxCommit(q)
      PROVE  GuessesApart'
  <2>1. /\ UNCHANGED judged
        /\ \A p \in Requests : pc'[p] = "counted" => pc[p] = "counted" /\ Stays(p)
    BY <1>14 DEF TxCommit, ReleaseLocks, Answer, Step, IInv, TypeOK, Stays
  <2>. QED
    BY <2>1, NoGuessMoves
<1>15. ASSUME NEW q \in Requests, NEW r \in Rows, NEW c \in Codes, ResendUpdate(q, r, c)
      PROVE  GuessesApart'
  <2>1. /\ UNCHANGED judged
        /\ \A p \in Requests : pc'[p] = "counted" => pc[p] = "counted" /\ Stays(p)
    BY <1>15 DEF ResendUpdate, Resent, Answer, Step, locks, IInv, TypeOK, Stays
  <2>. QED
    BY <2>1, NoGuessMoves
<1>16. ASSUME NEW q \in Requests, NEW r \in Rows, ResendRefused(q, r)
      PROVE  GuessesApart'
  <2>1. /\ UNCHANGED judged
        /\ \A p \in Requests : pc'[p] = "counted" => pc[p] = "counted" /\ Stays(p)
    BY <1>16 DEF ResendRefused, Step, tables, locks, IInv, TypeOK, Stays
  <2>. QED
    BY <2>1, NoGuessMoves
<1>17. ASSUME NEW q \in Requests, ResendExplain(q)
      PROVE  GuessesApart'
  <2>1. /\ UNCHANGED judged
        /\ \A p \in Requests : pc'[p] = "counted" => pc[p] = "counted" /\ Stays(p)
    BY <1>17 DEF ResendExplain, Answer, Step, tables, locks, IInv, TypeOK, Stays
  <2>. QED
    BY <2>1, NoGuessMoves
<1>18. ASSUME NEW q \in Requests, DeadlockVictim(q)
      PROVE  GuessesApart'
  <2>1. /\ UNCHANGED judged
        /\ \A p \in Requests : pc'[p] = "counted" => pc[p] = "counted" /\ Stays(p)
    BY <1>18 DEF DeadlockVictim, Rollback, ReleaseLocks, Answer, Step, tables, IInv, TypeOK, Stays
  <2>. QED
    BY <2>1, NoGuessMoves
<1>19. CASE Cleanup
  <2>1. /\ UNCHANGED judged
        /\ \A p \in Requests : pc'[p] = "counted" => pc[p] = "counted" /\ Stays(p)
    BY <1>19 DEF Cleanup, DeleteOutdated, Outdated, locks, local, IInv, TypeOK, Stays
  <2>. QED
    BY <2>1, NoGuessMoves
<1>20. ASSUME NEW q \in Requests, Crash(q)
      PROVE  GuessesApart'
  <2>1. /\ UNCHANGED judged
        /\ \A p \in Requests : pc'[p] = "counted" => pc[p] = "counted" /\ Stays(p)
    BY <1>20 DEF Crash, ReleaseLocks, Forget, Step, tables, IInv, TypeOK, Stays
  <2>. QED
    BY <2>1, NoGuessMoves
<1>21. ASSUME NEW q \in Requests, Finish(q)
      PROVE  GuessesApart'
  <2>1. /\ UNCHANGED judged
        /\ \A p \in Requests : pc'[p] = "counted" => pc[p] = "counted" /\ Stays(p)
    BY <1>21 DEF Finish, Forget, Step, IInv, TypeOK, Stays
  <2>. QED
    BY <2>1, NoGuessMoves
<1>22. CASE Tick
  <2>1. /\ UNCHANGED judged
        /\ \A p \in Requests : pc'[p] = "counted" => pc[p] = "counted" /\ Stays(p)
    BY <1>22 DEF Tick, tables, locks, local, IInv, TypeOK, Stays
  <2>. QED
    BY <2>1, NoGuessMoves
<1>23. CASE UNCHANGED vars
  <2>1. /\ UNCHANGED judged
        /\ \A p \in Requests : pc'[p] = "counted" => pc[p] = "counted" /\ Stays(p)
    BY <1>23 DEF vars, tables, locks, local, IInv, TypeOK, Stays
  <2>. QED
    BY <2>1, NoGuessMoves
<1>. QED
  BY <1>1, <1>2, <1>3, <1>4, <1>5, <1>6, <1>7, <1>8, <1>9, <1>10, <1>11, <1>12, <1>13, <1>14, <1>15, <1>16, <1>17, <1>18, <1>19, <1>20, <1>21, <1>22, <1>23
  DEF Next, Arrive, Progress

LEMMA SendsPreserved ==
    ASSUME IInv, [Next]_vars
    PROVE  SendsSpaced'
<1>1. ASSUME NEW q \in Requests, NEW e \in Emails, StartRefused(q, e)
      PROVE  SendsSpaced'
  BY <1>1 DEF StartRefused, IInv, SendsSpaced
<1>2. ASSUME NEW q \in Requests, NEW e \in Emails, NEW r \in Rows, NEW c \in Codes, StartLookup(q, e, r, c)
      PROVE  SendsSpaced'
  BY <1>2 DEF StartLookup, IInv, SendsSpaced
<1>3. ASSUME NEW q \in Requests, StartInsert(q)
      PROVE  SendsSpaced'
  <2>1. \A r \in Rows : \/ sends'[r] = sends[r]
                        \/ sends'[r] = {[n |-> 1, at |-> now, code |-> seen[q].code]}
    BY <1>3 DEF StartInsert, IInv, TypeOK
  <2>. QED
    BY <2>1 DEF IInv, SendsSpaced
<1>4. ASSUME NEW q \in Requests, NEW r \in Rows, NEW c \in Codes, VerifyCount(q, r, c)
      PROVE  SendsSpaced'
  BY <1>4 DEF VerifyCount, IInv, SendsSpaced
<1>5. ASSUME NEW q \in Requests, NEW r \in Rows, VerifyRefused(q, r)
      PROVE  SendsSpaced'
  BY <1>5 DEF VerifyRefused, IInv, SendsSpaced
<1>6. ASSUME NEW q \in Requests, VerifyExplain(q)
      PROVE  SendsSpaced'
  BY <1>6 DEF VerifyExplain, IInv, SendsSpaced
<1>7. ASSUME NEW q \in Requests, VerifyJudge(q)
      PROVE  SendsSpaced'
  BY <1>7 DEF VerifyJudge, IInv, SendsSpaced
<1>8. ASSUME NEW q \in Requests, TxConsume(q)
      PROVE  SendsSpaced'
  BY <1>8 DEF TxConsume, IInv, SendsSpaced
<1>9. ASSUME NEW q \in Requests, TxGone(q)
      PROVE  SendsSpaced'
  BY <1>9 DEF TxGone, Rollback, IInv, SendsSpaced
<1>10. ASSUME NEW q \in Requests, TxCreateUser(q)
      PROVE  SendsSpaced'
  BY <1>10 DEF TxCreateUser, IInv, SendsSpaced
<1>11. ASSUME NEW q \in Requests, TxConflict(q)
      PROVE  SendsSpaced'
  BY <1>11 DEF TxConflict, Rollback, IInv, SendsSpaced
<1>12. ASSUME NEW q \in Requests, TxDeleteSiblings(q)
      PROVE  SendsSpaced'
  BY <1>12 DEF TxDeleteSiblings, IInv, SendsSpaced
<1>13. ASSUME NEW q \in Requests, NEW r \in Rows, TxLockSibling(q, r)
      PROVE  SendsSpaced'
  BY <1>13 DEF TxLockSibling, IInv, SendsSpaced
<1>14. ASSUME NEW q \in Requests, TxCommit(q)
      PROVE  SendsSpaced'
  BY <1>14 DEF TxCommit, IInv, SendsSpaced
<1>15. ASSUME NEW q \in Requests, NEW r \in Rows, NEW c \in Codes, ResendUpdate(q, r, c)
      PROVE  SendsSpaced'
  <2> DEFINE new == [n |-> pending[r].sendCount + 1, at |-> now, code |-> c]
  <2>1. /\ pending[r].lastSentAt + ResendCooldown <= now
        /\ pending[r].lastSentAt \in Nat /\ pending[r].sendCount \in Nat /\ now \in Nat
        /\ new.n = pending[r].sendCount + 1 /\ new.at = now
    BY <1>15 DEF ResendUpdate, Resendable, IInv, TypeOK, RowRecord
  <2>2. /\ sends'[r] = sends[r] \cup {new}
        /\ \A x \in Rows \ {r} : sends'[x] = sends[x]
    BY <1>15 DEF ResendUpdate, IInv, TypeOK
  <2> HIDE DEF new
  <2>3. \A s \in sends[r] : /\ s.n \in Nat /\ s.at \in Nat
                           /\ s.n < new.n
                           /\ s.at + ResendCooldown <= new.at
    BY <2>1 DEF IInv, TypeOK, Send, RowsSound, RowSound
  <2>4. ASSUME NEW s \in sends'[r], NEW t \in sends'[r]
        PROVE  /\ s.n = t.n => s = t
               /\ s.n < t.n => s.at + ResendCooldown <= t.at
    <3>1. CASE s \in sends[r] /\ t \in sends[r]
      BY <3>1 DEF IInv, SendsSpaced
    <3>2. CASE s = new /\ t \in sends[r]
      BY <2>1, <2>3, <3>2
    <3>3. CASE s \in sends[r] /\ t = new
      BY <2>1, <2>3, <3>3
    <3>4. CASE s = new /\ t = new
      BY <2>1, <3>4
    <3>. QED
      BY <2>2, <3>1, <3>2, <3>3, <3>4
  <2>. QED
    BY <2>2, <2>4 DEF IInv, SendsSpaced
<1>16. ASSUME NEW q \in Requests, NEW r \in Rows, ResendRefused(q, r)
      PROVE  SendsSpaced'
  BY <1>16 DEF ResendRefused, IInv, SendsSpaced
<1>17. ASSUME NEW q \in Requests, ResendExplain(q)
      PROVE  SendsSpaced'
  BY <1>17 DEF ResendExplain, IInv, SendsSpaced
<1>18. ASSUME NEW q \in Requests, DeadlockVictim(q)
      PROVE  SendsSpaced'
  BY <1>18 DEF DeadlockVictim, Rollback, IInv, SendsSpaced
<1>19. CASE Cleanup
  BY <1>19 DEF Cleanup, IInv, SendsSpaced
<1>20. ASSUME NEW q \in Requests, Crash(q)
      PROVE  SendsSpaced'
  BY <1>20 DEF Crash, IInv, SendsSpaced
<1>21. ASSUME NEW q \in Requests, Finish(q)
      PROVE  SendsSpaced'
  BY <1>21 DEF Finish, IInv, SendsSpaced
<1>22. CASE Tick
  BY <1>22 DEF Tick, IInv, SendsSpaced
<1>23. CASE UNCHANGED vars
  BY <1>23 DEF vars, IInv, SendsSpaced
<1>. QED
  BY <1>1, <1>2, <1>3, <1>4, <1>5, <1>6, <1>7, <1>8, <1>9, <1>10, <1>11, <1>12, <1>13, <1>14, <1>15, <1>16, <1>17, <1>18, <1>19, <1>20, <1>21, <1>22, <1>23
  DEF Next, Arrive, Progress

LEMMA NoAccountMoves ==
    ASSUME IInv, [Next]_vars, UNCHANGED users
    PROVE  OneAccountPerAddress' /\ AccountIsProven'
<1>1. OneAccountPerAddress'
  BY DEF IInv, OneAccountPerAddress
<1>2. ASSUME NEW u \in users
      PROVE  /\ pending'[u.password].status = "gone"
             /\ pending'[u.password].email = u.email
             /\ pending'[u.password].password = u.password
             /\ \E s \in sends'[u.password] : s.code = u.proof
             /\ \A v \in users : v.password = u.password => v = u
  <2>1. /\ u.password \in Rows
        /\ pending[u.password].status = "gone"
        /\ pending[u.password].email = u.email
        /\ pending[u.password].password = u.password
        /\ \E s \in sends[u.password] : s.code = u.proof
        /\ \A v \in users : v.password = u.password => v = u
    BY DEF IInv, TypeOK, Account, AccountIsProven
  <2>2. RowMoves(u.password) /\ Issued(u.password)
    BY <2>1, RowsOnlyMove DEF RowsMove, Issued
  <2>. QED
    BY <2>1, <2>2 DEF RowMoves
<1>. QED
  BY <1>1, <1>2 DEF AccountIsProven

LEMMA AccountsPreserved ==
    ASSUME IInv, [Next]_vars
    PROVE  OneAccountPerAddress' /\ AccountIsProven'
<1>1. ASSUME NEW q \in Requests, NEW e \in Emails, StartRefused(q, e)
      PROVE  OneAccountPerAddress' /\ AccountIsProven'
  <2>1. UNCHANGED users
    BY <1>1 DEF StartRefused, tables
  <2>. QED
    BY <2>1, NoAccountMoves
<1>2. ASSUME NEW q \in Requests, NEW e \in Emails, NEW r \in Rows, NEW c \in Codes, StartLookup(q, e, r, c)
      PROVE  OneAccountPerAddress' /\ AccountIsProven'
  <2>1. UNCHANGED users
    BY <1>2 DEF StartLookup
  <2>. QED
    BY <2>1, NoAccountMoves
<1>3. ASSUME NEW q \in Requests, StartInsert(q)
      PROVE  OneAccountPerAddress' /\ AccountIsProven'
  <2>1. UNCHANGED users
    BY <1>3 DEF StartInsert
  <2>. QED
    BY <2>1, NoAccountMoves
<1>4. ASSUME NEW q \in Requests, NEW r \in Rows, NEW c \in Codes, VerifyCount(q, r, c)
      PROVE  OneAccountPerAddress' /\ AccountIsProven'
  <2>1. UNCHANGED users
    BY <1>4 DEF VerifyCount
  <2>. QED
    BY <2>1, NoAccountMoves
<1>5. ASSUME NEW q \in Requests, NEW r \in Rows, VerifyRefused(q, r)
      PROVE  OneAccountPerAddress' /\ AccountIsProven'
  <2>1. UNCHANGED users
    BY <1>5 DEF VerifyRefused, tables
  <2>. QED
    BY <2>1, NoAccountMoves
<1>6. ASSUME NEW q \in Requests, VerifyExplain(q)
      PROVE  OneAccountPerAddress' /\ AccountIsProven'
  <2>1. UNCHANGED users
    BY <1>6 DEF VerifyExplain, tables
  <2>. QED
    BY <2>1, NoAccountMoves
<1>7. ASSUME NEW q \in Requests, VerifyJudge(q)
      PROVE  OneAccountPerAddress' /\ AccountIsProven'
  <2>1. UNCHANGED users
    BY <1>7 DEF VerifyJudge, tables
  <2>. QED
    BY <2>1, NoAccountMoves
<1>8. ASSUME NEW q \in Requests, TxConsume(q)
      PROVE  OneAccountPerAddress' /\ AccountIsProven'
  <2>1. UNCHANGED users
    BY <1>8 DEF TxConsume, tables
  <2>. QED
    BY <2>1, NoAccountMoves
<1>9. ASSUME NEW q \in Requests, TxGone(q)
      PROVE  OneAccountPerAddress' /\ AccountIsProven'
  <2>1. UNCHANGED users
    BY <1>9 DEF TxGone, Rollback, tables
  <2>. QED
    BY <2>1, NoAccountMoves
<1>10. ASSUME NEW q \in Requests, TxCreateUser(q)
      PROVE  OneAccountPerAddress' /\ AccountIsProven'
  <2>1. UNCHANGED users
    BY <1>10 DEF TxCreateUser, tables
  <2>. QED
    BY <2>1, NoAccountMoves
<1>11. ASSUME NEW q \in Requests, TxConflict(q)
      PROVE  OneAccountPerAddress' /\ AccountIsProven'
  <2>1. UNCHANGED users
    BY <1>11 DEF TxConflict, Rollback, tables
  <2>. QED
    BY <2>1, NoAccountMoves
<1>12. ASSUME NEW q \in Requests, TxDeleteSiblings(q)
      PROVE  OneAccountPerAddress' /\ AccountIsProven'
  <2>1. UNCHANGED users
    BY <1>12 DEF TxDeleteSiblings, tables
  <2>. QED
    BY <2>1, NoAccountMoves
<1>13. ASSUME NEW q \in Requests, NEW r \in Rows, TxLockSibling(q, r)
      PROVE  OneAccountPerAddress' /\ AccountIsProven'
  <2>1. UNCHANGED users
    BY <1>13 DEF TxLockSibling, tables
  <2>. QED
    BY <2>1, NoAccountMoves
<1>14. ASSUME NEW q \in Requests, TxCommit(q)
      PROVE  OneAccountPerAddress' /\ AccountIsProven'
  <2> DEFINE k == cookie[q]
             new == [email |-> seen[q].email, password |-> seen[q].password,
                     proof |-> typed[q]]
  <2>1. /\ users' = users \cup {new}
        /\ new.email = seen[q].email /\ new.password = seen[q].password
        /\ new.proof = typed[q]
        /\ pc[q] = "deleting"
    BY <1>14 DEF TxCommit
  <2> HIDE DEF new
  <2>2. /\ k \in Rows /\ seen[q].password = k
        /\ seen[q].email = pending[k].email
        /\ seen[q].password = pending[k].password
        /\ \E s \in sends[k] : s.code = typed[q]
    BY <2>1 DEF IInv, ReadsSound, ReadSound, InTransaction
  <2>3. rowOwner[k] = q /\ Live(k) /\ ~Registered(seen[q].email)
    BY <2>1, <2>2 DEF IInv, LocksSound, HoldsLocks, Owns, InTransaction
  <2>4. pending'[k].status = "gone" /\ RowMoves(k)
    BY <1>14, <2>2, <2>3, CommitRetires, RowsOnlyMove DEF RowsMove
  <2>5. /\ pending'[k].email = seen[q].email /\ pending'[k].password = k
        /\ \E s \in sends'[k] : s.code = typed[q]
    BY <2>2, <2>3, <2>4 DEF RowMoves, Live, Issued
  <2>6. ASSUME NEW u \in users
        PROVE  /\ u.email # new.email
               /\ u.password # new.password
               /\ pending'[u.password].status = "gone"
               /\ pending'[u.password].email = u.email
               /\ pending'[u.password].password = u.password
               /\ \E s \in sends'[u.password] : s.code = u.proof
               /\ \A v \in users : v.password = u.password => v = u
    <3>1. /\ u.password \in Rows
          /\ pending[u.password].status = "gone"
          /\ pending[u.password].email = u.email
          /\ pending[u.password].password = u.password
          /\ \E s \in sends[u.password] : s.code = u.proof
          /\ \A v \in users : v.password = u.password => v = u
      BY DEF IInv, TypeOK, Account, AccountIsProven
    <3>2. RowMoves(u.password) /\ Issued(u.password)
      BY <3>1, RowsOnlyMove DEF RowsMove, Issued
    <3>3. u.email # new.email /\ u.password # new.password
      BY <2>1, <2>2, <2>3, <3>1 DEF Registered, Live
    <3>. QED
      BY <3>1, <3>2, <3>3 DEF RowMoves
  <2>7. OneAccountPerAddress'
    BY <2>1, <2>6 DEF IInv, OneAccountPerAddress
  <2>8. AccountIsProven'
    <3> DEFINE Proven(u) ==
          /\ pending'[u.password].status = "gone"
          /\ pending'[u.password].email = u.email
          /\ pending'[u.password].password = u.password
          /\ \E s \in sends'[u.password] : s.code = u.proof
    <3>1. Proven(new)
      BY <2>1, <2>2, <2>4, <2>5
    <3>2. \A u \in users' : Proven(u)
      BY <2>1, <2>6, <3>1
    <3>3. \A u, v \in users' : v.password = u.password => v = u
      BY <2>1, <2>6
    <3>. QED
      BY <3>2, <3>3 DEF AccountIsProven
  <2>. QED
    BY <2>7, <2>8
<1>15. ASSUME NEW q \in Requests, NEW r \in Rows, NEW c \in Codes, ResendUpdate(q, r, c)
      PROVE  OneAccountPerAddress' /\ AccountIsProven'
  <2>1. UNCHANGED users
    BY <1>15 DEF ResendUpdate
  <2>. QED
    BY <2>1, NoAccountMoves
<1>16. ASSUME NEW q \in Requests, NEW r \in Rows, ResendRefused(q, r)
      PROVE  OneAccountPerAddress' /\ AccountIsProven'
  <2>1. UNCHANGED users
    BY <1>16 DEF ResendRefused, tables
  <2>. QED
    BY <2>1, NoAccountMoves
<1>17. ASSUME NEW q \in Requests, ResendExplain(q)
      PROVE  OneAccountPerAddress' /\ AccountIsProven'
  <2>1. UNCHANGED users
    BY <1>17 DEF ResendExplain, tables
  <2>. QED
    BY <2>1, NoAccountMoves
<1>18. ASSUME NEW q \in Requests, DeadlockVictim(q)
      PROVE  OneAccountPerAddress' /\ AccountIsProven'
  <2>1. UNCHANGED users
    BY <1>18 DEF DeadlockVictim, Rollback, tables
  <2>. QED
    BY <2>1, NoAccountMoves
<1>19. CASE Cleanup
  <2>1. UNCHANGED users
    BY <1>19 DEF Cleanup
  <2>. QED
    BY <2>1, NoAccountMoves
<1>20. ASSUME NEW q \in Requests, Crash(q)
      PROVE  OneAccountPerAddress' /\ AccountIsProven'
  <2>1. UNCHANGED users
    BY <1>20 DEF Crash, tables
  <2>. QED
    BY <2>1, NoAccountMoves
<1>21. ASSUME NEW q \in Requests, Finish(q)
      PROVE  OneAccountPerAddress' /\ AccountIsProven'
  <2>1. UNCHANGED users
    BY <1>21 DEF Finish, tables
  <2>. QED
    BY <2>1, NoAccountMoves
<1>22. CASE Tick
  <2>1. UNCHANGED users
    BY <1>22 DEF Tick, tables
  <2>. QED
    BY <2>1, NoAccountMoves
<1>23. CASE UNCHANGED vars
  <2>1. UNCHANGED users
    BY <1>23 DEF vars, tables
  <2>. QED
    BY <2>1, NoAccountMoves
<1>. QED
  BY <1>1, <1>2, <1>3, <1>4, <1>5, <1>6, <1>7, <1>8, <1>9, <1>10, <1>11, <1>12, <1>13, <1>14, <1>15, <1>16, <1>17, <1>18, <1>19, <1>20, <1>21, <1>22, <1>23
  DEF Next, Arrive, Progress

\* What a step may end: the body of OnlyOwnAddressEndsASignUp.
EndsRightly ==
    \A r \in Rows : Live(r) /\ ~Live(r)' =>
      \/ pending[r].expiresAt < now
      \/ ~Registered(pending[r].email) /\ Registered(pending[r].email)'

LEMMA EndsOnlyRightly ==
    ASSUME IInv, [Next]_vars
    PROVE  EndsRightly
<1>1. ASSUME NEW q \in Requests, NEW e \in Emails, StartRefused(q, e)
      PROVE  EndsRightly
  BY <1>1 DEF StartRefused, tables, EndsRightly, Live
<1>2. ASSUME NEW q \in Requests, NEW e \in Emails, NEW r \in Rows, NEW c \in Codes, StartLookup(q, e, r, c)
      PROVE  EndsRightly
  BY <1>2, DeleteOutdatedRetires DEF StartLookup, EndsRightly, IInv
<1>3. ASSUME NEW q \in Requests, StartInsert(q)
      PROVE  EndsRightly
  <2>1. cookie[q] \in Rows /\ ~Live(cookie[q])
    BY <1>3 DEF StartInsert, IInv, ReadsSound, ReadSound, Issued, Live
  <2>2. \A r \in Rows \ {cookie[q]} : pending'[r] = pending[r]
    BY <1>3, <2>1 DEF StartInsert, Inserted, IInv, TypeOK
  <2>. QED
    BY <2>1, <2>2 DEF EndsRightly, Live
<1>4. ASSUME NEW q \in Requests, NEW r \in Rows, NEW c \in Codes, VerifyCount(q, r, c)
      PROVE  EndsRightly
  <2>1. pending'[r].status = pending[r].status
    <3>1. pending[r] \in RowRecord
      BY DEF IInv, TypeOK
    <3>. QED
      BY <1>4, <3>1 DEF VerifyCount, RowRecord, IInv, TypeOK
  <2>2. \A s \in Rows \ {r} : pending'[s] = pending[s]
    BY <1>4 DEF VerifyCount, IInv, TypeOK
  <2>. QED
    BY <2>1, <2>2 DEF EndsRightly, Live
<1>5. ASSUME NEW q \in Requests, NEW r \in Rows, VerifyRefused(q, r)
      PROVE  EndsRightly
  BY <1>5 DEF VerifyRefused, tables, EndsRightly, Live
<1>6. ASSUME NEW q \in Requests, VerifyExplain(q)
      PROVE  EndsRightly
  BY <1>6 DEF VerifyExplain, tables, EndsRightly, Live
<1>7. ASSUME NEW q \in Requests, VerifyJudge(q)
      PROVE  EndsRightly
  BY <1>7 DEF VerifyJudge, tables, EndsRightly, Live
<1>8. ASSUME NEW q \in Requests, TxConsume(q)
      PROVE  EndsRightly
  BY <1>8 DEF TxConsume, tables, EndsRightly, Live
<1>9. ASSUME NEW q \in Requests, TxGone(q)
      PROVE  EndsRightly
  BY <1>9 DEF TxGone, Rollback, tables, EndsRightly, Live
<1>10. ASSUME NEW q \in Requests, TxCreateUser(q)
      PROVE  EndsRightly
  BY <1>10 DEF TxCreateUser, tables, EndsRightly, Live
<1>11. ASSUME NEW q \in Requests, TxConflict(q)
      PROVE  EndsRightly
  BY <1>11 DEF TxConflict, Rollback, tables, EndsRightly, Live
<1>12. ASSUME NEW q \in Requests, TxDeleteSiblings(q)
      PROVE  EndsRightly
  BY <1>12 DEF TxDeleteSiblings, tables, EndsRightly, Live
<1>13. ASSUME NEW q \in Requests, NEW r \in Rows, TxLockSibling(q, r)
      PROVE  EndsRightly
  BY <1>13 DEF TxLockSibling, tables, EndsRightly, Live
<1>14. ASSUME NEW q \in Requests, TxCommit(q)
      PROVE  EndsRightly
  <2>1. ASSUME NEW r \in Rows, Live(r), ~Live(r)'
        PROVE  ~Registered(pending[r].email) /\ Registered(pending[r].email)'
    <3>1. rowOwner[r] = q /\ pending'[r].email = pending[r].email
      BY <1>14, <2>1, CommitRetires DEF RetiresRows, Live
    <3>2. pending[r].email = seen[q].email /\ ~Registered(seen[q].email)
      BY <1>14, <3>1 DEF TxCommit, IInv, LocksSound, Owns, HoldsLocks
    <3>3. \E u \in users' : u.email = seen[q].email
      <4> DEFINE new == [email |-> seen[q].email, password |-> seen[q].password,
                         proof |-> typed[q]]
      <4>1. new \in users' /\ new.email = seen[q].email
        BY <1>14 DEF TxCommit
      <4>. QED
        BY <4>1
    <3>. QED
      BY <3>1, <3>2, <3>3 DEF Registered
  <2>. QED
    BY <2>1 DEF EndsRightly
<1>15. ASSUME NEW q \in Requests, NEW r \in Rows, NEW c \in Codes, ResendUpdate(q, r, c)
      PROVE  EndsRightly
  <2>1. pending'[r].status = pending[r].status
    <3>1. pending[r] \in RowRecord
      BY DEF IInv, TypeOK
    <3>. QED
      BY <1>15, <3>1 DEF ResendUpdate, Resent, RowRecord, IInv, TypeOK
  <2>2. \A s \in Rows \ {r} : pending'[s] = pending[s]
    BY <1>15 DEF ResendUpdate, IInv, TypeOK
  <2>. QED
    BY <2>1, <2>2 DEF EndsRightly, Live
<1>16. ASSUME NEW q \in Requests, NEW r \in Rows, ResendRefused(q, r)
      PROVE  EndsRightly
  BY <1>16 DEF ResendRefused, tables, EndsRightly, Live
<1>17. ASSUME NEW q \in Requests, ResendExplain(q)
      PROVE  EndsRightly
  BY <1>17 DEF ResendExplain, tables, EndsRightly, Live
<1>18. ASSUME NEW q \in Requests, DeadlockVictim(q)
      PROVE  EndsRightly
  BY <1>18 DEF DeadlockVictim, Rollback, tables, EndsRightly, Live
<1>19. CASE Cleanup
  BY <1>19, DeleteOutdatedRetires DEF Cleanup, EndsRightly, IInv
<1>20. ASSUME NEW q \in Requests, Crash(q)
      PROVE  EndsRightly
  BY <1>20 DEF Crash, tables, EndsRightly, Live
<1>21. ASSUME NEW q \in Requests, Finish(q)
      PROVE  EndsRightly
  BY <1>21 DEF Finish, tables, EndsRightly, Live
<1>22. CASE Tick
  BY <1>22 DEF Tick, tables, EndsRightly, Live
<1>23. CASE UNCHANGED vars
  BY <1>23 DEF vars, tables, EndsRightly, Live
<1>. QED
  BY <1>1, <1>2, <1>3, <1>4, <1>5, <1>6, <1>7, <1>8, <1>9, <1>10, <1>11, <1>12, <1>13, <1>14, <1>15, <1>16, <1>17, <1>18, <1>19, <1>20, <1>21, <1>22, <1>23
  DEF Next, Arrive, Progress

-----------------------------------------------------------------------------
LEMMA InitIInv == Init => IInv
<1> SUFFICES ASSUME Init
             PROVE  IInv
  OBVIOUS
<1> USE DEF Init
<1>1. UnusedRow \in RowRecord
  BY DEF UnusedRow, RowRecord
<1>2. TypeOK
  BY <1>1 DEF TypeOK, Account, Steps, Answers, Send
<1>3. RowsSound
  BY DEF RowsSound, RowSound, UnusedRow, Issued
<1>4. ReadsSound
  BY DEF ReadsSound, ReadSound, InTransaction
<1>5. LocksSound
  BY DEF LocksSound, HoldsLocks, InTransaction
<1>6. GuessesApart
  BY DEF GuessesApart
<1>7. OneAccountPerAddress /\ AccountIsProven /\ SendsSpaced
  BY DEF OneAccountPerAddress, AccountIsProven, SendsSpaced
<1>. QED
  BY <1>2, <1>3, <1>4, <1>5, <1>6, <1>7 DEF IInv

LEMMA NextIInv == IInv /\ [Next]_vars => IInv'
  BY TypePreserved, RowsPreserved, ReadsPreserved, LocksPreserved, GuessesPreserved,
     AccountsPreserved, SendsPreserved DEF IInv

THEOREM Invariance == Spec => []IInv
  BY InitIInv, NextIInv, PTL DEF Spec

\* Every variable keeps its type: in particular no step of any handler takes a
\* row's attempts past MAX_ATTEMPTS or its sends past MAX_SENDS.
THEOREM TypeCorrect == Spec => []TypeOK
<1>1. IInv => TypeOK
  BY DEF IInv
<1>. QED
  BY <1>1, Invariance, PTL

\* The guarded UPDATE of verify prices every guess: any number of concurrent
\* guesses at one sign-up gets at most MAX_ATTEMPTS comparisons.
THEOREM GuessesArePaid == Spec => []EveryGuessPaid
<1>1. IInv => EveryGuessPaid
  BY DEF IInv, EveryGuessPaid
<1>. QED
  BY <1>1, Invariance, PTL

\* However many sign-ups for one address run at once, one account comes of them.
THEOREM OneAccount == Spec => []OneAccountPerAddress
<1>1. IInv => OneAccountPerAddress
  BY DEF IInv
<1>. QED
  BY <1>1, Invariance, PTL

\* An account carries the address and the password of the sign-up whose code was
\* typed, and one sign-up makes one account.
THEOREM AccountsAreProven == Spec => []AccountIsProven
<1>1. IInv => AccountIsProven
  BY DEF IInv
<1>. QED
  BY <1>1, Invariance, PTL

\* The guarded UPDATE of resend numbers the codes of a sign-up and keeps them a
\* cooldown apart.
THEOREM CodesAreSpaced == Spec => []SendsSpaced
<1>1. IInv => SendsSpaced
  BY DEF IInv
<1>. QED
  BY <1>1, Invariance, PTL

\* A pending sign-up disappears only by running out of time or by its address being
\* registered: no other sign-up, of its address or another, takes it away.
THEOREM OnlyOwnAddress == Spec => OnlyOwnAddressEndsASignUp
<1>1. IInv /\ [Next]_vars => EndsRightly
  BY EndsOnlyRightly
<1>. QED
  BY <1>1, Invariance, PTL DEF Spec, OnlyOwnAddressEndsASignUp, EndsRightly

-----------------------------------------------------------------------------
(* What a request was told stays so *)

AnswerSound(q) ==
    /\ answer[q] # "UNREACHABLE"
    /\ answer[q] \in {"NO_PENDING_SIGNUP", "TOO_MANY_ATTEMPTS"} =>
         cookie[q] \in Rows /\ Issued(cookie[q])
    /\ answer[q] = "NO_PENDING_SIGNUP" => ~Live(cookie[q])
    /\ answer[q] = "ALREADY_REGISTERED" => Registered(seen[q].email)
    /\ answer[q] = "TOO_MANY_ATTEMPTS" => pending[cookie[q]].attempts = MaxAttempts
    /\ answer[q] = "ok" => \E u \in users : u.email = seen[q].email /\ u.password = cookie[q]

AnswersSound == \A q \in Requests : AnswerSound(q)

\* A row that is gone stays gone, spent attempts stay spent, and accounts stay.
LEMMA AnswersLast ==
    ASSUME IInv, [Next]_vars, users \subseteq users', NEW p \in Requests, AnswerSound(p),
           cookie'[p] = cookie[p], seen'[p] = seen[p], answer'[p] = answer[p]
    PROVE  AnswerSound(p)'
<1>1. RowsMove
  BY RowsOnlyMove
<1>2. ASSUME cookie[p] \in Rows, Issued(cookie[p])
      PROVE  /\ Issued(cookie[p])'
             /\ ~Live(cookie[p]) => ~Live(cookie[p])'
             /\ pending[cookie[p]].attempts = MaxAttempts
                  => pending'[cookie[p]].attempts = MaxAttempts
  <2>1. /\ pending[cookie[p]] \in RowRecord /\ pending'[cookie[p]] \in RowRecord
    BY <1>2, TypePreserved DEF IInv, TypeOK
  <2>2. /\ pending[cookie[p]].attempts \in 0..MaxAttempts
        /\ pending'[cookie[p]].attempts \in 0..MaxAttempts
        /\ pending[cookie[p]].status \in {"unused", "live", "gone"}
    BY <2>1 DEF RowRecord
  <2>. QED
    BY <1>1, <1>2, <2>2 DEF RowsMove, RowMoves, Live, Issued
<1>3. Registered(seen[p].email) => \E u \in users' : u.email = seen[p].email
  BY DEF Registered
<1>4. (\E u \in users : u.email = seen[p].email /\ u.password = cookie[p])
        => \E u \in users' : u.email = seen[p].email /\ u.password = cookie[p]
  OBVIOUS
<1>. QED
  BY <1>2, <1>3, <1>4 DEF AnswerSound, Registered, Live, Issued

Keeps(p) == cookie'[p] = cookie[p] /\ seen'[p] = seen[p] /\ answer'[p] = answer[p]

OthersKeep(q) == \A p \in Requests \ {q} : Keeps(p)

LEMMA OneAnswers ==
    ASSUME IInv, AnswersSound, [Next]_vars, users \subseteq users', NEW q \in Requests,
           OthersKeep(q), AnswerSound(q)'
    PROVE  AnswersSound'
  BY AnswersLast DEF AnswersSound, OthersKeep, Keeps

LEMMA NobodyAnswers ==
    ASSUME IInv, AnswersSound, [Next]_vars, users \subseteq users',
           \A p \in Requests : Keeps(p)
    PROVE  AnswersSound'
  BY AnswersLast DEF AnswersSound, Keeps

\* A request that is not answered, or answered with what says nothing of its sign-up.
Plain ==
    Answers \ {"NO_PENDING_SIGNUP", "TOO_MANY_ATTEMPTS", "ALREADY_REGISTERED", "ok", "UNREACHABLE"}

LEMMA PlainAnswers ==
    ASSUME IInv, AnswersSound, [Next]_vars, users \subseteq users', NEW q \in Requests,
           OthersKeep(q), answer'[q] \in Plain
    PROVE  AnswersSound'
<1>1. AnswerSound(q)'
  BY DEF AnswerSound, Plain
<1>. QED
  BY <1>1, OneAnswers

\* A request that is under way has been told nothing yet.
Untold == \A q \in Requests : pc[q] # "answered" => answer[q] = "none"

LEMMA UntoldPreserved ==
    ASSUME IInv, Untold, [Next]_vars
    PROVE  Untold'
<1>1. ASSUME NEW q \in Requests, NEW e \in Emails, StartRefused(q, e)
      PROVE  Untold'
  BY <1>1 DEF StartRefused, Answer, Step, tables, locks, IInv, TypeOK, Untold
<1>2. ASSUME NEW q \in Requests, NEW e \in Emails, NEW r \in Rows, NEW c \in Codes, StartLookup(q, e, r, c)
      PROVE  Untold'
  BY <1>2 DEF StartLookup, Step, tables, locks, IInv, TypeOK, Untold
<1>3. ASSUME NEW q \in Requests, StartInsert(q)
      PROVE  Untold'
  BY <1>3 DEF StartInsert, Answer, Step, tables, locks, IInv, TypeOK, Untold
<1>4. ASSUME NEW q \in Requests, NEW r \in Rows, NEW c \in Codes, VerifyCount(q, r, c)
      PROVE  Untold'
  BY <1>4 DEF VerifyCount, Step, tables, locks, IInv, TypeOK, Untold
<1>5. ASSUME NEW q \in Requests, NEW r \in Rows, VerifyRefused(q, r)
      PROVE  Untold'
  BY <1>5 DEF VerifyRefused, Step, tables, locks, IInv, TypeOK, Untold
<1>6. ASSUME NEW q \in Requests, VerifyExplain(q)
      PROVE  Untold'
  BY <1>6 DEF VerifyExplain, Answer, Step, tables, locks, IInv, TypeOK, Untold
<1>7. ASSUME NEW q \in Requests, VerifyJudge(q)
      PROVE  Untold'
  BY <1>7 DEF VerifyJudge, Answer, Step, tables, locks, IInv, TypeOK, Untold
<1>8. ASSUME NEW q \in Requests, TxConsume(q)
      PROVE  Untold'
  BY <1>8 DEF TxConsume, Step, tables, locks, IInv, TypeOK, Untold
<1>9. ASSUME NEW q \in Requests, TxGone(q)
      PROVE  Untold'
  BY <1>9 DEF TxGone, Rollback, Answer, Step, tables, locks, IInv, TypeOK, Untold
<1>10. ASSUME NEW q \in Requests, TxCreateUser(q)
      PROVE  Untold'
  BY <1>10 DEF TxCreateUser, Step, tables, locks, IInv, TypeOK, Untold
<1>11. ASSUME NEW q \in Requests, TxConflict(q)
      PROVE  Untold'
  BY <1>11 DEF TxConflict, Rollback, Answer, Step, tables, locks, IInv, TypeOK, Untold
<1>12. ASSUME NEW q \in Requests, TxDeleteSiblings(q)
      PROVE  Untold'
  BY <1>12 DEF TxDeleteSiblings, Step, tables, locks, IInv, TypeOK, Untold
<1>13. ASSUME NEW q \in Requests, NEW r \in Rows, TxLockSibling(q, r)
      PROVE  Untold'
  BY <1>13 DEF TxLockSibling, Step, tables, locks, IInv, TypeOK, Untold
<1>14. ASSUME NEW q \in Requests, TxCommit(q)
      PROVE  Untold'
  BY <1>14 DEF TxCommit, Answer, Step, tables, locks, IInv, TypeOK, Untold
<1>15. ASSUME NEW q \in Requests, NEW r \in Rows, NEW c \in Codes, ResendUpdate(q, r, c)
      PROVE  Untold'
  BY <1>15 DEF ResendUpdate, Answer, Step, tables, locks, IInv, TypeOK, Untold
<1>16. ASSUME NEW q \in Requests, NEW r \in Rows, ResendRefused(q, r)
      PROVE  Untold'
  BY <1>16 DEF ResendRefused, Step, tables, locks, IInv, TypeOK, Untold
<1>17. ASSUME NEW q \in Requests, ResendExplain(q)
      PROVE  Untold'
  BY <1>17 DEF ResendExplain, Answer, Step, tables, locks, IInv, TypeOK, Untold
<1>18. ASSUME NEW q \in Requests, DeadlockVictim(q)
      PROVE  Untold'
  BY <1>18 DEF DeadlockVictim, Rollback, Answer, Step, tables, locks, IInv, TypeOK, Untold
<1>19. CASE Cleanup
  BY <1>19 DEF Cleanup, tables, locks, local, Untold
<1>20. ASSUME NEW q \in Requests, Crash(q)
      PROVE  Untold'
  BY <1>20 DEF Crash, Forget, Step, tables, locks, IInv, TypeOK, Untold
<1>21. ASSUME NEW q \in Requests, Finish(q)
      PROVE  Untold'
  BY <1>21 DEF Finish, Forget, Step, tables, locks, IInv, TypeOK, Untold
<1>22. CASE Tick
  BY <1>22 DEF Tick, tables, locks, local, Untold
<1>23. CASE UNCHANGED vars
  BY <1>23 DEF vars, tables, locks, local, Untold
<1>. QED
  BY <1>1, <1>2, <1>3, <1>4, <1>5, <1>6, <1>7, <1>8, <1>9, <1>10, <1>11, <1>12, <1>13, <1>14, <1>15, <1>16, <1>17, <1>18, <1>19, <1>20, <1>21, <1>22, <1>23
  DEF Next, Arrive, Progress

LEMMA AnswersPreserved ==
    ASSUME IInv, Untold, AnswersSound, [Next]_vars
    PROVE  AnswersSound'
<1>1. ASSUME NEW q \in Requests, NEW e \in Emails, StartRefused(q, e)
      PROVE  AnswersSound'
  <2>1. users \subseteq users' /\ OthersKeep(q)
    BY <1>1 DEF StartRefused, Answer, Step, tables, locks, IInv, TypeOK, OthersKeep, Keeps
  <2>2. answer'[q] \in Plain
    BY <1>1 DEF StartRefused, Answer, Step, tables, locks, IInv, TypeOK, Plain, Answers
  <2>. QED
    BY <2>1, <2>2, PlainAnswers
<1>2. ASSUME NEW q \in Requests, NEW e \in Emails, NEW r \in Rows, NEW c \in Codes, StartLookup(q, e, r, c)
      PROVE  AnswersSound'
  <2>1. users \subseteq users' /\ OthersKeep(q)
    BY <1>2 DEF StartLookup, Step, tables, locks, IInv, TypeOK, OthersKeep, Keeps
  <2>2. answer'[q] \in Plain
    BY <1>2 DEF StartLookup, Step, tables, locks, IInv, TypeOK, Untold, Plain, Answers
  <2>. QED
    BY <2>1, <2>2, PlainAnswers
<1>3. ASSUME NEW q \in Requests, StartInsert(q)
      PROVE  AnswersSound'
  <2>1. users \subseteq users' /\ OthersKeep(q)
    BY <1>3 DEF StartInsert, Answer, Step, tables, locks, IInv, TypeOK, OthersKeep, Keeps
  <2>2. answer'[q] \in Plain
    BY <1>3 DEF StartInsert, Answer, Step, tables, locks, IInv, TypeOK, Plain, Answers
  <2>. QED
    BY <2>1, <2>2, PlainAnswers
<1>4. ASSUME NEW q \in Requests, NEW r \in Rows, NEW c \in Codes, VerifyCount(q, r, c)
      PROVE  AnswersSound'
  <2>1. users \subseteq users' /\ OthersKeep(q)
    BY <1>4 DEF VerifyCount, Step, tables, locks, IInv, TypeOK, OthersKeep, Keeps
  <2>2. answer'[q] \in Plain
    BY <1>4 DEF VerifyCount, Step, tables, locks, IInv, TypeOK, Untold, Plain, Answers
  <2>. QED
    BY <2>1, <2>2, PlainAnswers
<1>5. ASSUME NEW q \in Requests, NEW r \in Rows, VerifyRefused(q, r)
      PROVE  AnswersSound'
  <2>1. users \subseteq users' /\ OthersKeep(q)
    BY <1>5 DEF VerifyRefused, Step, tables, locks, IInv, TypeOK, OthersKeep, Keeps
  <2>2. answer'[q] \in Plain
    BY <1>5 DEF VerifyRefused, Step, tables, locks, IInv, TypeOK, Untold, Plain, Answers
  <2>. QED
    BY <2>1, <2>2, PlainAnswers
<1>6. ASSUME NEW q \in Requests, VerifyExplain(q)
      PROVE  AnswersSound'
  <2>1. users \subseteq users' /\ OthersKeep(q)
    BY <1>6 DEF VerifyExplain, Answer, Step, tables, locks, IInv, TypeOK, OthersKeep, Keeps
  <2>2. /\ answer'[q] = WhyUnusable(cookie[q]) /\ cookie'[q] = cookie[q]
        /\ pending' = pending /\ cookie[q] \in Rows /\ Issued(cookie[q]) /\ ~Usable(cookie[q])
        /\ pending[cookie[q]].attempts \in 0..MaxAttempts
    BY <1>6 DEF VerifyExplain, Answer, Step, tables, locks, IInv, TypeOK, ReadsSound, ReadSound, RowRecord
  <2>3. AnswerSound(q)'
    BY <2>2 DEF AnswerSound, WhyUnusable, Usable, Live, Issued, Expired
  <2>. QED
    BY <2>1, <2>3, OneAnswers
<1>7. ASSUME NEW q \in Requests, VerifyJudge(q)
      PROVE  AnswersSound'
  <2>1. users \subseteq users' /\ OthersKeep(q)
    BY <1>7 DEF VerifyJudge, Answer, Step, tables, locks, IInv, TypeOK, OthersKeep, Keeps
  <2>2. /\ cookie[q] \in Rows /\ Issued(cookie[q]) /\ pending' = pending
        /\ cookie'[q] = cookie[q]
        /\ seen[q].attempts \in 1..pending[cookie[q]].attempts
        /\ pending[cookie[q]].attempts \in 0..MaxAttempts
    BY <1>7 DEF VerifyJudge, Answer, Step, tables, locks, IInv, TypeOK, ReadsSound, ReadSound, RowRecord
  <2>3. \/ answer'[q] = "none"
        \/ answer'[q] = "INVALID_CODE"
        \/ answer'[q] = "TOO_MANY_ATTEMPTS" /\ seen[q].attempts >= MaxAttempts
    BY <1>7 DEF VerifyJudge, Answer, Step, tables, locks, IInv, TypeOK, Untold
  <2>4. AnswerSound(q)'
    BY <2>2, <2>3 DEF AnswerSound, Issued
  <2>. QED
    BY <2>1, <2>4, OneAnswers
<1>8. ASSUME NEW q \in Requests, TxConsume(q)
      PROVE  AnswersSound'
  <2>1. users \subseteq users' /\ OthersKeep(q)
    BY <1>8 DEF TxConsume, Step, tables, locks, IInv, TypeOK, OthersKeep, Keeps
  <2>2. answer'[q] \in Plain
    BY <1>8 DEF TxConsume, Step, tables, locks, IInv, TypeOK, Untold, Plain, Answers
  <2>. QED
    BY <2>1, <2>2, PlainAnswers
<1>9. ASSUME NEW q \in Requests, TxGone(q)
      PROVE  AnswersSound'
  <2>1. users \subseteq users' /\ OthersKeep(q)
    BY <1>9 DEF TxGone, Rollback, Answer, Step, tables, locks, IInv, TypeOK, OthersKeep, Keeps
  <2>2. /\ answer'[q] = "NO_PENDING_SIGNUP" /\ cookie'[q] = cookie[q] /\ pending' = pending
        /\ cookie[q] \in Rows /\ Issued(cookie[q])
        /\ pending[cookie[q]].password = cookie[q]
    BY <1>9 DEF TxGone, Rollback, Answer, Step, tables, locks, IInv, TypeOK, ReadsSound, ReadSound
  <2>3. ~Live(cookie[q])
    BY <1>9, <2>2 DEF TxGone
  <2>4. AnswerSound(q)'
    BY <2>2, <2>3 DEF AnswerSound, Issued, Live
  <2>. QED
    BY <2>1, <2>4, OneAnswers
<1>10. ASSUME NEW q \in Requests, TxCreateUser(q)
      PROVE  AnswersSound'
  <2>1. users \subseteq users' /\ OthersKeep(q)
    BY <1>10 DEF TxCreateUser, Step, tables, locks, IInv, TypeOK, OthersKeep, Keeps
  <2>2. answer'[q] \in Plain
    BY <1>10 DEF TxCreateUser, Step, tables, locks, IInv, TypeOK, Untold, Plain, Answers
  <2>. QED
    BY <2>1, <2>2, PlainAnswers
<1>11. ASSUME NEW q \in Requests, TxConflict(q)
      PROVE  AnswersSound'
  <2>1. users \subseteq users' /\ OthersKeep(q)
    BY <1>11 DEF TxConflict, Rollback, Answer, Step, tables, locks, IInv, TypeOK, OthersKeep, Keeps
  <2>2. /\ answer'[q] = "ALREADY_REGISTERED" /\ seen'[q] = seen[q]
        /\ users' = users /\ Registered(seen[q].email)
    BY <1>11 DEF TxConflict, Rollback, Answer, Step, tables, locks, IInv, TypeOK
  <2>3. AnswerSound(q)'
    BY <2>2 DEF AnswerSound, Registered
  <2>. QED
    BY <2>1, <2>3, OneAnswers
<1>12. ASSUME NEW q \in Requests, TxDeleteSiblings(q)
      PROVE  AnswersSound'
  <2>1. users \subseteq users' /\ OthersKeep(q)
    BY <1>12 DEF TxDeleteSiblings, Step, tables, locks, IInv, TypeOK, OthersKeep, Keeps
  <2>2. answer'[q] \in Plain
    BY <1>12 DEF TxDeleteSiblings, Step, tables, locks, IInv, TypeOK, Untold, Plain, Answers
  <2>. QED
    BY <2>1, <2>2, PlainAnswers
<1>13. ASSUME NEW q \in Requests, NEW r \in Rows, TxLockSibling(q, r)
      PROVE  AnswersSound'
  <2>1. users \subseteq users' /\ OthersKeep(q)
    BY <1>13 DEF TxLockSibling, Step, tables, locks, IInv, TypeOK, OthersKeep, Keeps
  <2>2. answer'[q] \in Plain
    BY <1>13 DEF TxLockSibling, Step, tables, locks, IInv, TypeOK, Untold, Plain, Answers
  <2>. QED
    BY <2>1, <2>2, PlainAnswers
<1>14. ASSUME NEW q \in Requests, TxCommit(q)
      PROVE  AnswersSound'
  <2>1. users \subseteq users' /\ OthersKeep(q)
    BY <1>14 DEF TxCommit, Answer, Step, tables, locks, IInv, TypeOK, OthersKeep, Keeps
  <2> DEFINE u == [email |-> seen[q].email, password |-> seen[q].password, proof |-> typed[q]]
  <2>2. /\ answer'[q] = "ok" /\ seen'[q] = seen[q] /\ cookie'[q] = cookie[q]
        /\ users' = users \cup {u} /\ seen[q].password = cookie[q]
    BY <1>14 DEF TxCommit, Answer, Step, tables, locks, IInv, TypeOK, ReadsSound, ReadSound, InTransaction
  <2>3. u \in users' /\ u.email = seen'[q].email /\ u.password = cookie'[q]
    BY <2>2
  <2>4. AnswerSound(q)'
    BY <2>2, <2>3 DEF AnswerSound
  <2>. QED
    BY <2>1, <2>4, OneAnswers
<1>15. ASSUME NEW q \in Requests, NEW r \in Rows, NEW c \in Codes, ResendUpdate(q, r, c)
      PROVE  AnswersSound'
  <2>1. users \subseteq users' /\ OthersKeep(q)
    BY <1>15 DEF ResendUpdate, Answer, Step, tables, locks, IInv, TypeOK, OthersKeep, Keeps
  <2>2. answer'[q] \in Plain
    BY <1>15 DEF ResendUpdate, Answer, Step, tables, locks, IInv, TypeOK, Plain, Answers
  <2>. QED
    BY <2>1, <2>2, PlainAnswers
<1>16. ASSUME NEW q \in Requests, NEW r \in Rows, ResendRefused(q, r)
      PROVE  AnswersSound'
  <2>1. users \subseteq users' /\ OthersKeep(q)
    BY <1>16 DEF ResendRefused, Step, tables, locks, IInv, TypeOK, OthersKeep, Keeps
  <2>2. answer'[q] \in Plain
    BY <1>16 DEF ResendRefused, Step, tables, locks, IInv, TypeOK, Untold, Plain, Answers
  <2>. QED
    BY <2>1, <2>2, PlainAnswers
<1>17. ASSUME NEW q \in Requests, ResendExplain(q)
      PROVE  AnswersSound'
  <2>1. users \subseteq users' /\ OthersKeep(q)
    BY <1>17 DEF ResendExplain, Answer, Step, tables, locks, IInv, TypeOK, OthersKeep, Keeps
  <2>2. /\ answer'[q] = WhyNotResent(cookie[q]) /\ cookie'[q] = cookie[q]
        /\ pending' = pending /\ cookie[q] \in Rows /\ Issued(cookie[q])
        /\ pending[cookie[q]].attempts \in 0..MaxAttempts
    BY <1>17 DEF ResendExplain, Answer, Step, tables, locks, IInv, TypeOK, ReadsSound, ReadSound, RowRecord
  <2>3. AnswerSound(q)'
    BY <2>2 DEF AnswerSound, WhyNotResent, WhyUnusable, Live, Issued, Expired
  <2>. QED
    BY <2>1, <2>3, OneAnswers
<1>18. ASSUME NEW q \in Requests, DeadlockVictim(q)
      PROVE  AnswersSound'
  <2>1. users \subseteq users' /\ OthersKeep(q)
    BY <1>18 DEF DeadlockVictim, Rollback, Answer, Step, tables, locks, IInv, TypeOK, OthersKeep, Keeps
  <2>2. answer'[q] \in Plain
    BY <1>18 DEF DeadlockVictim, Rollback, Answer, Step, tables, locks, IInv, TypeOK, Plain, Answers
  <2>. QED
    BY <2>1, <2>2, PlainAnswers
<1>19. CASE Cleanup
  <2>1. users' = users /\ \A p \in Requests : Keeps(p)
    BY <1>19 DEF Cleanup, tables, locks, local, Keeps
  <2>. QED
    BY <2>1, NobodyAnswers
<1>20. ASSUME NEW q \in Requests, Crash(q)
      PROVE  AnswersSound'
  <2>1. users \subseteq users' /\ OthersKeep(q)
    BY <1>20 DEF Crash, Forget, Step, tables, locks, IInv, TypeOK, OthersKeep, Keeps
  <2>2. answer'[q] \in Plain
    BY <1>20 DEF Crash, Forget, Step, tables, locks, IInv, TypeOK, Plain, Answers
  <2>. QED
    BY <2>1, <2>2, PlainAnswers
<1>21. ASSUME NEW q \in Requests, Finish(q)
      PROVE  AnswersSound'
  <2>1. users \subseteq users' /\ OthersKeep(q)
    BY <1>21 DEF Finish, Forget, Step, tables, locks, IInv, TypeOK, OthersKeep, Keeps
  <2>2. answer'[q] \in Plain
    BY <1>21 DEF Finish, Forget, Step, tables, locks, IInv, TypeOK, Plain, Answers
  <2>. QED
    BY <2>1, <2>2, PlainAnswers
<1>22. CASE Tick
  <2>1. users' = users /\ \A p \in Requests : Keeps(p)
    BY <1>22 DEF Tick, tables, locks, local, Keeps
  <2>. QED
    BY <2>1, NobodyAnswers
<1>23. CASE UNCHANGED vars
  <2>1. users' = users /\ \A p \in Requests : Keeps(p)
    BY <1>23 DEF vars, tables, locks, local, Keeps
  <2>. QED
    BY <2>1, NobodyAnswers
<1>. QED
  BY <1>1, <1>2, <1>3, <1>4, <1>5, <1>6, <1>7, <1>8, <1>9, <1>10, <1>11, <1>12, <1>13, <1>14, <1>15, <1>16, <1>17, <1>18, <1>19, <1>20, <1>21, <1>22, <1>23
  DEF Next, Arrive, Progress

\* What a browser is told of its sign-up is so for as long as it can read it: gone is gone,
\* registered is registered, spent is spent, whyUnusable never runs out of reasons, and "ok"
\* means an account with the password it sent.
THEOREM AnswersHold == Spec => []AnswersAreTrue
<1>1. Init => Untold /\ AnswersSound
  BY DEF Init, Untold, AnswersSound, AnswerSound
<1>2. IInv /\ Untold /\ AnswersSound /\ [Next]_vars => Untold' /\ AnswersSound'
  BY UntoldPreserved, AnswersPreserved
<1>3. AnswersSound => AnswersAreTrue
  BY DEF AnswersSound, AnswerSound, AnswersAreTrue, RefusalsAreTrue, OkMeansOwnAccount
<1>. QED
  BY <1>1, <1>2, <1>3, Invariance, PTL DEF Spec

=============================================================================
