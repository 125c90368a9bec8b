------------------------- MODULE UsernameFormsProofs -------------------------
(***************************************************************************)
(* Two components that share no state.                                     *)
(*                                                                         *)
(* What UsernameClaim guarantees for any number of members, names and      *)
(* saves, with crashes, deletions and the cleanup between any two          *)
(* statements: names stay unique, changes stay spaced and a hold is seen.  *)
(* The lock of the member's row makes what a transaction has judged stay   *)
(* true until it commits (RowsHeld, WaitsOver); the unique index keeps the *)
(* name for whoever has written it (NamesReserved); and since a wait is no *)
(* shorter than a hold, the one column that remembers the last name is     *)
(* enough for every hold that has not run out (LeavingsKept).              *)
(*                                                                         *)
(* What Forms guarantees for any number of tabs, edits and requests, lost  *)
(* and refused ones included: every form is answered, what it says is      *)
(* about what is in it, and the codes it shows are the stored ones.        *)
(* Whoever asked is still there when the answer comes, with what was asked *)
(* about (CallFits), since a form that expects an answer is off and runs   *)
(* exactly one request (TabSound); questions about a name are told apart   *)
(* by their tickets; and until two-factor is on, the stored codes are      *)
(* those that were made with the secret (FactorSound).                     *)
(***************************************************************************)
EXTENDS UsernameClaim, Forms, FiniteSetTheorems, TLAPS

-----------------------------------------------------------------------------
(* Usernames *)

\* A request that has begun knows its member, its name, and a time not in the future.
RequestsSound ==
    \A q \in Requests : pc[q] # "idle" =>
        who[q] \in Members /\ wants[q] \in Names /\ at[q] <= now

\* A transaction holds the lock of its member's row, so the member is still here.
RowsHeld ==
    \A q \in Requests : pc[q] \in InTransaction =>
        account[who[q]].here /\ rowOwner[who[q]] = q

\* A name that has been written is nobody else's, and nobody else has written it.
NamesReserved ==
    \A q \in Requests : pc[q] = "written" =>
        /\ \A o \in Members : account[o].here /\ account[o].username = wants[q] => o = who[q]
        /\ \A p \in Requests : pc[p] = "written" /\ wants[p] = wants[q] => p = q

\* The wait that LockRow judged is over for as long as the lock is held.
WaitsOver ==
    \A q \in Requests : pc[q] \in InTransaction =>
        \/ account[who[q]].changedAt = None
        \/ account[who[q]].changedAt + CooldownDays <= at[q]

\* A name that was left is in the row of whoever left it, or its hold has run out.
LeavingsKept ==
    \A l \in left :
        /\ account[l.by].here
        /\ account[l.by].changedAt \in Nat
        /\ l.at <= account[l.by].changedAt
        /\ \/ account[l.by].previous = l.name /\ account[l.by].changedAt = l.at
           \/ l.at + HoldDays <= now

IInv ==
    /\ TypeOK /\ RequestsSound /\ RowsHeld /\ NamesReserved /\ WaitsOver /\ LeavingsKept
    /\ NamesUnique /\ ChangesSpaced

-----------------------------------------------------------------------------
(* What a step may do *)

\* The steps of a request but for its commit.
Own(q) ==
    \/ \E m \in Members, n \in Names : Begin(q, m, n)
    \/ LockRow(q) \/ NoAccount(q) \/ AlreadyTheirs(q) \/ ChangeTooSoon(q)
    \/ CheckHold(q) \/ NameHeld(q) \/ Write(q) \/ NameInUse(q)
    \/ SaveDisplayName(q) \/ Crash(q) \/ Finish(q)

LEMMA StepsAre ==
    ASSUME [Next]_vars
    PROVE  \/ \E q \in Requests : Own(q) \/ Commit(q)
           \/ \E m \in Members : DeleteAccount(m) \/ Register(m)
           \/ CleanupHolds \/ Tick \/ UNCHANGED vars
BY DEF Next, Progress, Own

\* A request's own steps leave the tables as they are.
LEMMA OwnKeepsTables ==
    ASSUME NEW q \in Requests, Own(q)
    PROVE  UNCHANGED <<now, account, left>>
BY DEF Own, Begin, LockRow, NoAccount, AlreadyTheirs, ChangeTooSoon, CheckHold, NameHeld, Write,
   NameInUse, SaveDisplayName, Crash, Finish, Rollback

\* They leave the other requests as they are, and the rows these hold.
LEMMA OwnKeepsOthers ==
    ASSUME TypeOK, NEW q \in Requests, Own(q) \/ Commit(q)
    PROVE  /\ \A p \in Requests \ {q} :
                pc'[p] = pc[p] /\ who'[p] = who[p] /\ wants'[p] = wants[p] /\ at'[p] = at[p]
           /\ \A m \in Members : rowOwner[m] \notin {q, None} => rowOwner'[m] = rowOwner[m]
<1> USE DEF TypeOK
<1>1. CASE \E m \in Members, n \in Names : Begin(q, m, n)
  BY <1>1 DEF Begin, Step
<1>2. CASE LockRow(q) \/ AlreadyTheirs(q) \/ CheckHold(q) \/ Write(q)
  BY <1>2 DEF LockRow, AlreadyTheirs, CheckHold, Write, Step
<1>3. CASE NoAccount(q) \/ ChangeTooSoon(q) \/ NameHeld(q) \/ NameInUse(q)
  BY <1>3 DEF NoAccount, ChangeTooSoon, NameHeld, NameInUse, Rollback, Unlock, Answer, Step
<1>4. CASE SaveDisplayName(q)
  BY <1>4 DEF SaveDisplayName, Answer, Step
<1>5. CASE Crash(q) \/ Finish(q)
  BY <1>5 DEF Crash, Finish, Unlock, Forget, Step
<1>6. CASE Commit(q)
  BY <1>6 DEF Commit, Unlock, Step
<1>7. QED BY <1>1, <1>2, <1>3, <1>4, <1>5, <1>6 DEF Own

\* A request is in its transaction because it has just locked its row, or was there before
\* and keeps what it knows and holds.
LEMMA OwnInTransaction ==
    ASSUME TypeOK, NEW q \in Requests, Own(q), pc'[q] \in InTransaction
    PROVE  /\ UNCHANGED <<who, wants, at>>
           /\ \/ LockRow(q) /\ pc'[q] = "judged"
              \/ pc[q] \in InTransaction /\ rowOwner' = rowOwner /\ pc'[q] # "judged"
           /\ pc'[q] = "written" => Write(q)
           /\ pc'[q] = "unheld" => CheckHold(q)
<1> USE DEF TypeOK, InTransaction
<1>1. CASE \E m \in Members, n \in Names : Begin(q, m, n)
  BY <1>1 DEF Begin, Step
<1>2. CASE LockRow(q) \/ AlreadyTheirs(q) \/ CheckHold(q) \/ Write(q)
  BY <1>2 DEF LockRow, AlreadyTheirs, CheckHold, Write, Step
<1>3. CASE NoAccount(q) \/ ChangeTooSoon(q) \/ NameHeld(q) \/ NameInUse(q)
  BY <1>3 DEF NoAccount, ChangeTooSoon, NameHeld, NameInUse, Rollback, Answer, Step
<1>4. CASE SaveDisplayName(q)
  BY <1>4 DEF SaveDisplayName, Answer, Step
<1>5. CASE Crash(q) \/ Finish(q)
  BY <1>5 DEF Crash, Finish, Forget, Step
<1>6. QED BY <1>1, <1>2, <1>3, <1>4, <1>5 DEF Own

-----------------------------------------------------------------------------
(* Types *)

LEMMA WrittenIsTyped ==
    ASSUME TypeOK, NEW m \in Members, NEW n \in Names, NEW t \in Nat
    PROVE  /\ Written(m, n, t) \in AccountRecord
           /\ Written(m, n, t).here = account[m].here
           /\ Written(m, n, t).username = n
<1>1. account[m] \in AccountRecord
  BY DEF TypeOK
<1>2. QED BY <1>1 DEF Written, AccountRecord

LEMMA TypePreserved == ASSUME TypeOK, RequestsSound, [Next]_vars PROVE TypeOK'
<1> USE DEF TypeOK, InTransaction
<1>1. ASSUME NEW q \in Requests, NEW m \in Members, NEW n \in Names, Begin(q, m, n)
      PROVE  TypeOK'
  BY <1>1 DEF Begin, Step
<1>2. ASSUME NEW q \in Requests, LockRow(q) \/ AlreadyTheirs(q) \/ CheckHold(q) \/ Write(q)
      PROVE  TypeOK'
  <2>1. rowOwner' \in [Members -> Requests \cup {None}]
    BY <1>2 DEF LockRow, AlreadyTheirs, CheckHold, Write
  <2>2. pc' \in [Requests -> {"idle", "arrived", "named", "answered"} \cup InTransaction]
    BY <1>2 DEF LockRow, AlreadyTheirs, CheckHold, Write, Step
  <2>3. UNCHANGED <<now, account, who, wants, at, answer, left>>
    BY <1>2 DEF LockRow, AlreadyTheirs, CheckHold, Write
  <2>4. QED BY <2>1, <2>2, <2>3
<1>3. ASSUME NEW q \in Requests,
             NoAccount(q) \/ ChangeTooSoon(q) \/ NameHeld(q) \/ NameInUse(q)
      PROVE  TypeOK'
  <2>1. PICK what \in {"invalid", "too-soon", "taken"} : Rollback(q, what)
    BY <1>3 DEF NoAccount, ChangeTooSoon, NameHeld, NameInUse
  <2>2. QED BY <2>1 DEF Rollback, Unlock, Answer, Step
<1>4. ASSUME NEW q \in Requests, SaveDisplayName(q) PROVE TypeOK'
  BY <1>4 DEF SaveDisplayName, Answer, Step
<1>5. ASSUME NEW q \in Requests, Crash(q) \/ Finish(q) PROVE TypeOK'
  <2>1. rowOwner' \in [Members -> Requests \cup {None}]
    BY <1>5 DEF Crash, Finish, Unlock
  <2>2. Forget(q) /\ UNCHANGED <<now, account, left>>
    BY <1>5 DEF Crash, Finish
  <2>3. QED BY <2>1, <2>2 DEF Forget, Step
<1>6. ASSUME NEW q \in Requests, Commit(q) PROVE TypeOK'
  <2>1. who[q] \in Members /\ wants[q] \in Names /\ at[q] \in Nat
    BY <1>6 DEF Commit, RequestsSound
  <2>2. account' = [account EXCEPT ![who[q]] = Written(who[q], wants[q], at[q])]
    BY <1>6 DEF Commit
  <2>3. account' \in [Members -> AccountRecord]
    BY <2>1, <2>2, WrittenIsTyped
  <2>4. account[who[q]].username \in Names \cup {None}
    BY <2>1 DEF AccountRecord
  <2>5. \A l \in left' : l.by \in Members /\ l.name \in Names /\ l.at \in Nat
    BY <1>6, <2>1, <2>4 DEF Commit
  <2>6. /\ rowOwner' \in [Members -> Requests \cup {None}]
        /\ pc' \in [Requests -> {"idle", "arrived", "named", "answered"} \cup InTransaction]
        /\ UNCHANGED <<now, who, wants, at, answer>>
    BY <1>6 DEF Commit, Unlock, Step
  <2>7. QED BY <2>3, <2>5, <2>6
<1>7. ASSUME NEW m \in Members, DeleteAccount(m) PROVE TypeOK'
  <2> DEFINE gone == [account[m] EXCEPT !.here = FALSE]
  <2>1. gone \in AccountRecord
    <3>1. account[m] \in AccountRecord
      OBVIOUS
    <3>2. QED BY <3>1 DEF AccountRecord
  <2>2. account' = [account EXCEPT ![m] = gone]
    BY <1>7 DEF DeleteAccount
  <2> HIDE DEF gone
  <2>3. account' \in [Members -> AccountRecord]
    BY <2>1, <2>2
  <2>4. QED BY <1>7, <2>3 DEF DeleteAccount, local
<1>8. ASSUME NEW m \in Members, Register(m) PROVE TypeOK'
  <2>1. NewAccount \in AccountRecord
    BY DEF NewAccount, AccountRecord
  <2>2. account' \in [Members -> AccountRecord]
    BY <1>8, <2>1 DEF Register
  <2>3. QED BY <1>8, <2>2 DEF Register, local
<1>9. ASSUME CleanupHolds PROVE TypeOK'
  <2>1. account' \in [Members -> AccountRecord]
    <3>1. \A m \in Members : [account[m] EXCEPT !.previous = None] \in AccountRecord
      <4>1. \A m \in Members : account[m] \in AccountRecord
        OBVIOUS
      <4> HIDE DEF TypeOK
      <4>2. QED BY <4>1 DEF AccountRecord
    <3>2. QED BY <1>9, <3>1 DEF CleanupHolds
  <2>2. QED BY <1>9, <2>1 DEF CleanupHolds, local
<1>10. CASE Tick
  BY <1>10 DEF Tick, local
<1>11. CASE UNCHANGED vars
  BY <1>11 DEF vars, local
<1>12. QED
  BY <1>1, <1>2, <1>3, <1>4, <1>5, <1>6, <1>7, <1>8, <1>9, <1>10, <1>11 DEF Next, Progress

LEMMA RequestsSoundPreserved ==
    ASSUME TypeOK, RequestsSound, [Next]_vars
    PROVE  RequestsSound'
<1>1. ASSUME NEW q \in Requests, Own(q) \/ Commit(q) PROVE RequestsSound'
  <2>1. now' = now
    BY <1>1, OwnKeepsTables DEF Commit
  <2>2. pc'[q] # "idle" => who'[q] \in Members /\ wants'[q] \in Names /\ at'[q] <= now
    <3> USE DEF TypeOK, RequestsSound
    <3>1. CASE \E m \in Members, n \in Names : Begin(q, m, n)
      BY <3>1 DEF Begin
    <3>2. CASE LockRow(q) \/ AlreadyTheirs(q) \/ CheckHold(q) \/ Write(q) \/ Commit(q)
      BY <3>2 DEF LockRow, AlreadyTheirs, CheckHold, Write, Commit
    <3>3. CASE NoAccount(q) \/ ChangeTooSoon(q) \/ NameHeld(q) \/ NameInUse(q)
      BY <3>3 DEF NoAccount, ChangeTooSoon, NameHeld, NameInUse, Rollback, Answer
    <3>4. CASE SaveDisplayName(q)
      BY <3>4 DEF SaveDisplayName, Answer
    <3>5. CASE Crash(q) \/ Finish(q)
      BY <3>5 DEF Crash, Finish, Forget, Step
    <3>6. QED BY <1>1, <3>1, <3>2, <3>3, <3>4, <3>5 DEF Own
  <2>3. QED BY <1>1, <2>1, <2>2, OwnKeepsOthers DEF RequestsSound
<1>2. CASE \E m \in Members : DeleteAccount(m) \/ Register(m)
  BY <1>2 DEF DeleteAccount, Register, local, RequestsSound
<1>3. CASE CleanupHolds
  BY <1>3 DEF CleanupHolds, local, RequestsSound
<1>4. CASE Tick
  BY <1>4 DEF Tick, local, RequestsSound, TypeOK
<1>5. CASE UNCHANGED vars
  BY <1>5 DEF vars, local, RequestsSound
<1>6. QED BY <1>1, <1>2, <1>3, <1>4, <1>5, StepsAre

-----------------------------------------------------------------------------
(* Locks *)

\* What the surroundings do to a row: nothing while somebody has locked it, and nothing to
\* the requests.
LEMMA SurroundingsRespectLocks ==
    ASSUME TypeOK, \/ \E m \in Members : DeleteAccount(m) \/ Register(m)
                   \/ CleanupHolds \/ Tick
    PROVE  /\ UNCHANGED <<rowOwner, pc, who, wants, at>>
           /\ \A q \in Requests : who[q] \in Members /\ rowOwner[who[q]] # None
                                    /\ account[who[q]].here =>
                account'[who[q]] = account[who[q]]
<1> USE DEF TypeOK, local
<1>1. ASSUME NEW m \in Members, DeleteAccount(m)
      PROVE  /\ UNCHANGED <<rowOwner, pc, who, wants, at>>
             /\ \A o \in Members : o # m => account'[o] = account[o]
             /\ rowOwner[m] = None
  BY <1>1 DEF DeleteAccount
<1>2. ASSUME NEW m \in Members, Register(m)
      PROVE  /\ UNCHANGED <<rowOwner, pc, who, wants, at>>
             /\ \A o \in Members : o # m => account'[o] = account[o]
             /\ ~account[m].here
  BY <1>2 DEF Register
<1>3. CASE CleanupHolds
  <2>1. UNCHANGED <<rowOwner, pc, who, wants, at>>
    BY <1>3 DEF CleanupHolds
  <2>2. \A o \in Members : rowOwner[o] # None => account'[o] = account[o]
    BY <1>3 DEF CleanupHolds
  <2>3. QED BY <2>1, <2>2
<1>4. CASE Tick
  BY <1>4 DEF Tick
<1>5. QED BY <1>1, <1>2, <1>3, <1>4

\* What a commit does.
LEMMA CommitIs ==
    ASSUME TypeOK, RequestsSound, RowsHeld, NEW q \in Requests, Commit(q)
    PROVE  LET m == who[q] IN
           /\ m \in Members /\ wants[q] \in Names /\ at[q] \in Nat /\ at[q] <= now
           /\ account[m].here /\ rowOwner[m] = q /\ account[m] \in AccountRecord
           /\ account'[m] = Written(m, wants[q], at[q])
           /\ \A o \in Members \ {m} : account'[o] = account[o]
           /\ pc'[q] \notin InTransaction
           /\ UNCHANGED <<now, who, wants, at>>
<1>1. pc[q] = "written"
  BY DEF Commit
<1>2. who[q] \in Members /\ wants[q] \in Names /\ at[q] <= now
  BY <1>1 DEF RequestsSound
<1>3. account[who[q]].here /\ rowOwner[who[q]] = q
  BY <1>1 DEF RowsHeld, InTransaction
<1>4. QED BY <1>2, <1>3 DEF Commit, TypeOK, Step, InTransaction

LEMMA RowsHeldPreserved ==
    ASSUME TypeOK, RequestsSound, RowsHeld, [Next]_vars
    PROVE  RowsHeld'
<1>1. SUFFICES ASSUME NEW p \in Requests, pc'[p] \in InTransaction
               PROVE  account'[who'[p]].here /\ rowOwner'[who'[p]] = p
  BY DEF RowsHeld
<1>2. ASSUME NEW q \in Requests, q # p, Own(q) \/ Commit(q)
      PROVE  account'[who'[p]].here /\ rowOwner'[who'[p]] = p
  <2>1. pc[p] \in InTransaction /\ who'[p] = who[p]
    BY <1>1, <1>2, OwnKeepsOthers
  <2>2. who[p] \in Members /\ account[who[p]].here /\ rowOwner[who[p]] = p
    BY <2>1 DEF RowsHeld, RequestsSound, InTransaction
  <2>3. rowOwner'[who[p]] = p
    BY <1>2, <2>2, OwnKeepsOthers, UsernameAssumption
  <2>4. account'[who[p]] = account[who[p]]
    <3>1. CASE Own(q)
      BY <3>1, OwnKeepsTables
    <3>2. CASE Commit(q)
      BY <1>2, <2>2, <3>2, CommitIs
    <3>3. QED BY <1>2, <3>1, <3>2
  <2>5. QED BY <2>1, <2>2, <2>3, <2>4
<1>3. CASE Own(p)
  <2>1. UNCHANGED <<who, account>>
    BY <1>1, <1>3, OwnInTransaction, OwnKeepsTables
  <2>2. CASE LockRow(p)
    BY <2>1, <2>2 DEF LockRow, TypeOK, RequestsSound
  <2>3. CASE pc[p] \in InTransaction /\ rowOwner' = rowOwner
    BY <2>1, <2>3 DEF RowsHeld
  <2>4. QED BY <1>1, <1>3, <2>2, <2>3, OwnInTransaction
<1>4. CASE Commit(p)
  BY <1>1, <1>4, CommitIs
<1>5. CASE (\E m \in Members : DeleteAccount(m) \/ Register(m)) \/ CleanupHolds \/ Tick
  <2>1. UNCHANGED <<rowOwner, pc, who>>
    BY <1>5, SurroundingsRespectLocks
  <2>2. who[p] \in Members /\ account[who[p]].here /\ rowOwner[who[p]] = p
    BY <1>1, <2>1 DEF RowsHeld, RequestsSound, InTransaction
  <2>3. account'[who[p]] = account[who[p]]
    BY <1>5, <2>2, SurroundingsRespectLocks, UsernameAssumption
  <2>4. QED BY <2>1, <2>2, <2>3
<1>6. CASE UNCHANGED vars
  BY <1>1, <1>6 DEF vars, local, RowsHeld
<1>7. QED BY <1>2, <1>3, <1>4, <1>5, <1>6, StepsAre

LEMMA WaitsOverPreserved ==
    ASSUME TypeOK, RequestsSound, RowsHeld, WaitsOver, [Next]_vars
    PROVE  WaitsOver'
<1>1. SUFFICES ASSUME NEW p \in Requests, pc'[p] \in InTransaction
               PROVE  \/ account'[who'[p]].changedAt = None
                      \/ account'[who'[p]].changedAt + CooldownDays <= at'[p]
  BY DEF WaitsOver
<1>2. ASSUME pc[p] \in InTransaction, who'[p] = who[p], at'[p] = at[p],
             account'[who[p]] = account[who[p]]
      PROVE  \/ account'[who'[p]].changedAt = None
             \/ account'[who'[p]].changedAt + CooldownDays <= at'[p]
  BY <1>2 DEF WaitsOver
<1>3. ASSUME NEW q \in Requests, q # p, Own(q) \/ Commit(q)
      PROVE  pc[p] \in InTransaction /\ who'[p] = who[p] /\ at'[p] = at[p]
               /\ account'[who[p]] = account[who[p]]
  <2>1. pc[p] \in InTransaction /\ who'[p] = who[p] /\ at'[p] = at[p]
    BY <1>1, <1>3, OwnKeepsOthers
  <2>2. who[p] \in Members /\ rowOwner[who[p]] = p
    BY <2>1 DEF RowsHeld, RequestsSound, InTransaction
  <2>3. account'[who[p]] = account[who[p]]
    <3>1. CASE Own(q)
      BY <3>1, OwnKeepsTables
    <3>2. CASE Commit(q)
      BY <1>3, <2>2, <3>2, CommitIs
    <3>3. QED BY <1>3, <3>1, <3>2
  <2>4. QED BY <2>1, <2>3
<1>4. CASE Own(p)
  <2>1. UNCHANGED <<who, at, account>>
    BY <1>1, <1>4, OwnInTransaction, OwnKeepsTables
  <2>2. CASE LockRow(p)
    <3>1. who[p] \in Members /\ at[p] \in Nat /\ account[who[p]] \in AccountRecord
      BY <2>2 DEF LockRow, RequestsSound, TypeOK
    <3>2. ~TooSoon(who[p], at[p])
      BY <2>2 DEF LockRow
    <3>3. QED BY <2>1, <3>1, <3>2, UsernameAssumption DEF TooSoon, AccountRecord
  <2>3. CASE pc[p] \in InTransaction
    BY <1>2, <2>1, <2>3
  <2>4. QED BY <1>1, <1>4, <2>2, <2>3, OwnInTransaction
<1>5. CASE Commit(p)
  BY <1>1, <1>5, CommitIs
<1>6. CASE (\E m \in Members : DeleteAccount(m) \/ Register(m)) \/ CleanupHolds \/ Tick
  <2>1. UNCHANGED <<pc, who, at>>
    BY <1>6, SurroundingsRespectLocks
  <2>2. who[p] \in Members /\ account[who[p]].here /\ rowOwner[who[p]] = p
    BY <1>1, <2>1 DEF RowsHeld, RequestsSound, InTransaction
  <2>3. account'[who[p]] = account[who[p]]
    BY <1>6, <2>2, SurroundingsRespectLocks, UsernameAssumption
  <2>4. QED BY <1>1, <1>2, <2>1, <2>3
<1>7. CASE UNCHANGED vars
  BY <1>1, <1>2, <1>7 DEF vars, local
<1>8. QED BY <1>2, <1>3, <1>4, <1>5, <1>6, <1>7, StepsAre

-----------------------------------------------------------------------------
(* Names *)

\* Nobody gets a name but by a commit.
LEMMA SurroundingsGiveNoNames ==
    ASSUME TypeOK, \/ \E m \in Members : DeleteAccount(m) \/ Register(m)
                   \/ CleanupHolds \/ Tick
    PROVE  \A o \in Members : account'[o].here /\ account'[o].username # None =>
               account[o].here /\ account[o].username = account'[o].username
<1> USE DEF TypeOK, AccountRecord
<1>1. ASSUME NEW m \in Members, DeleteAccount(m), NEW o \in Members, account'[o].here
      PROVE  account'[o] = account[o]
  <2>1. CASE o = m
    BY <1>1, <2>1 DEF DeleteAccount
  <2>2. CASE o # m
    BY <1>1, <2>2 DEF DeleteAccount
  <2>3. QED BY <2>1, <2>2
<1>2. ASSUME NEW m \in Members, Register(m), NEW o \in Members, account'[o].username # None
      PROVE  account'[o] = account[o]
  BY <1>2 DEF Register, NewAccount
<1>3. ASSUME CleanupHolds, NEW o \in Members
      PROVE  account'[o].here = account[o].here /\ account'[o].username = account[o].username
  BY <1>3 DEF CleanupHolds
<1>4. CASE Tick
  BY <1>4 DEF Tick
<1>5. QED BY <1>1, <1>2, <1>3, <1>4

LEMMA NamesReservedPreserved ==
    ASSUME TypeOK, RequestsSound, RowsHeld, NamesReserved, [Next]_vars
    PROVE  NamesReserved'
<1>1. SUFFICES ASSUME NEW p \in Requests, pc'[p] = "written"
               PROVE  /\ \A o \in Members : account'[o].here /\ account'[o].username = wants'[p]
                                              => o = who'[p]
                      /\ \A r \in Requests : pc'[r] = "written" /\ wants'[r] = wants'[p] => r = p
  BY DEF NamesReserved
<1> DEFINE Reserved ==
      /\ \A o \in Members : account'[o].here /\ account'[o].username = wants'[p] => o = who'[p]
      /\ \A r \in Requests : pc'[r] = "written" /\ wants'[r] = wants'[p] => r = p
<1>2. ASSUME NEW q \in Requests, q # p, Own(q) PROVE Reserved
  <2>1. pc[p] = "written" /\ who'[p] = who[p] /\ wants'[p] = wants[p] /\ account' = account
    BY <1>1, <1>2, OwnKeepsOthers, OwnKeepsTables
  <2>2. ASSUME pc'[q] = "written" PROVE wants'[q] # wants[p]
    <3>1. Write(q) /\ wants'[q] = wants[q]
      BY <1>2, <2>2, OwnInTransaction DEF InTransaction
    <3>2. QED BY <2>1, <3>1 DEF Write, Pending
  <2>3. ASSUME NEW r \in Requests, r # q, pc'[r] = "written", wants'[r] = wants[p] PROVE r = p
    BY <1>2, <2>1, <2>3, OwnKeepsOthers DEF NamesReserved
  <2>4. QED BY <2>1, <2>2, <2>3 DEF NamesReserved
<1>3. ASSUME NEW q \in Requests, q # p, Commit(q) PROVE Reserved
  <2>1. pc[p] = "written" /\ who'[p] = who[p] /\ wants'[p] = wants[p] /\ pc[q] = "written"
    BY <1>1, <1>3, OwnKeepsOthers DEF Commit
  <2>2. wants[q] # wants[p]
    BY <1>3, <2>1 DEF NamesReserved
  <2>3. /\ who[q] \in Members
        /\ account'[who[q]].username = wants[q]
        /\ \A o \in Members \ {who[q]} : account'[o] = account[o]
    BY <1>3, CommitIs, WrittenIsTyped
  <2>4. \A r \in Requests : pc'[r] = "written" => r # q /\ pc[r] = "written" /\ wants'[r] = wants[r]
    BY <1>3, CommitIs, OwnKeepsOthers DEF InTransaction
  <2>5. QED BY <2>1, <2>2, <2>3, <2>4 DEF NamesReserved
<1>4. CASE Own(p)
  <2>1. Write(p) /\ UNCHANGED <<who, wants, account>>
    BY <1>1, <1>4, OwnInTransaction, OwnKeepsTables DEF InTransaction
  <2>2. \A o \in Members : ~(account'[o].here /\ account'[o].username = wants'[p])
    BY <2>1 DEF Write, InUse
  <2>3. ASSUME NEW r \in Requests, r # p, pc'[r] = "written" PROVE wants'[r] # wants'[p]
    <3>1. pc[r] = "written"
      BY <1>4, <2>3, OwnKeepsOthers
    <3>2. QED BY <2>1, <3>1 DEF Write, Pending
  <2>4. QED BY <2>2, <2>3
<1>5. CASE Commit(p)
  BY <1>1, <1>5, CommitIs DEF InTransaction
<1>6. CASE (\E m \in Members : DeleteAccount(m) \/ Register(m)) \/ CleanupHolds \/ Tick
  <2>1. UNCHANGED <<pc, who, wants>>
    BY <1>6, SurroundingsRespectLocks
  <2>2. wants[p] \in Names
    BY <1>1, <2>1 DEF RequestsSound
  <2>3. QED
    BY <1>1, <1>6, <2>1, <2>2, SurroundingsGiveNoNames, UsernameAssumption DEF NamesReserved
<1>7. CASE UNCHANGED vars
  BY <1>1, <1>7 DEF vars, local, NamesReserved
<1>8. QED BY <1>2, <1>3, <1>4, <1>5, <1>6, <1>7, StepsAre

LEMMA NamesUniquePreserved ==
    ASSUME TypeOK, RequestsSound, RowsHeld, NamesReserved, NamesUnique, [Next]_vars
    PROVE  NamesUnique'
<1>1. ASSUME NEW q \in Requests, Own(q) PROVE NamesUnique'
  BY <1>1, OwnKeepsTables DEF NamesUnique
<1>2. ASSUME NEW q \in Requests, Commit(q) PROVE NamesUnique'
  <2>1. /\ who[q] \in Members
        /\ account'[who[q]].username = wants[q]
        /\ \A o \in Members \ {who[q]} : account'[o] = account[o]
    BY <1>2, CommitIs, WrittenIsTyped
  <2>2. \A o \in Members : account[o].here /\ account[o].username = wants[q] => o = who[q]
    BY <1>2 DEF Commit, NamesReserved
  <2>3. QED BY <2>1, <2>2 DEF NamesUnique
<1>3. CASE (\E m \in Members : DeleteAccount(m) \/ Register(m)) \/ CleanupHolds \/ Tick
  BY <1>3, SurroundingsGiveNoNames DEF NamesUnique
<1>4. CASE UNCHANGED vars
  BY <1>4 DEF vars, NamesUnique
<1>5. QED BY <1>1, <1>2, <1>3, <1>4, StepsAre

-----------------------------------------------------------------------------
(* Changes and holds *)

\* A commit that is a change comes after the wait of every change before it.
LEMMA CommitComesAfter ==
    ASSUME IInv, NEW q \in Requests, Commit(q), NEW l \in left, l.by = who[q]
    PROVE  /\ l.at + CooldownDays <= at[q] /\ l.at + HoldDays <= now
           /\ l.at \in Nat /\ l.at <= at[q]
<1>1. account[l.by].changedAt \in Nat /\ l.at \in Nat /\ l.at <= account[l.by].changedAt
  BY DEF IInv, LeavingsKept, TypeOK
<1>2. account[l.by].changedAt + CooldownDays <= at[q]
  BY <1>1, UsernameAssumption DEF IInv, WaitsOver, InTransaction, Commit
<1>3. at[q] \in Nat /\ now \in Nat /\ at[q] <= now
  BY CommitIs DEF IInv, TypeOK
<1>4. QED BY <1>1, <1>2, <1>3, UsernameAssumption

LEMMA LeavingsKeptPreserved ==
    ASSUME IInv, [Next]_vars
    PROVE  LeavingsKept'
<1>1. ASSUME NEW q \in Requests, Own(q) PROVE LeavingsKept'
  BY <1>1, OwnKeepsTables DEF IInv, LeavingsKept
<1>2. ASSUME NEW q \in Requests, Commit(q) PROVE LeavingsKept'
  <2> DEFINE m == who[q]
  <2>1. /\ m \in Members /\ wants[q] \in Names /\ at[q] \in Nat /\ at[q] <= now
        /\ account[m].here /\ account[m] \in AccountRecord /\ now' = now
        /\ account'[m] = Written(m, wants[q], at[q])
        /\ \A o \in Members \ {m} : account'[o] = account[o]
    BY <1>2, CommitIs DEF IInv
  <2>2. account'[m].here
    BY <1>2, <2>1, WrittenIsTyped DEF IInv
  <2> SUFFICES ASSUME NEW l \in left'
               PROVE  /\ account'[l.by].here
                      /\ account'[l.by].changedAt \in Nat
                      /\ l.at <= account'[l.by].changedAt
                      /\ \/ account'[l.by].previous = l.name /\ account'[l.by].changedAt = l.at
                         \/ l.at + HoldDays <= now'
    BY DEF LeavingsKept
  <2>3. CASE l \in left /\ l.by # m
    BY <2>1, <2>3 DEF IInv, LeavingsKept, TypeOK
  <2>4. CASE l \in left /\ l.by = m
    <3>1. l.at + HoldDays <= now /\ l.at <= at[q] /\ l.at <= account[m].changedAt
            /\ account[m].changedAt \in Nat
      BY <1>2, <2>4, CommitComesAfter DEF IInv, LeavingsKept
    <3>2. account'[m].changedAt \in {account[m].changedAt, at[q]}
      BY <2>1 DEF Written, AccountRecord
    <3>3. QED BY <2>1, <2>2, <2>4, <3>1, <3>2
  <2>5. CASE l \notin left
    <3>1. account[m].username # None /\ l = [by |-> m, name |-> account[m].username, at |-> at[q]]
      BY <1>2, <2>5 DEF Commit
    <3>2. account'[m].previous = account[m].username /\ account'[m].changedAt = at[q]
      BY <2>1, <3>1 DEF Written, AccountRecord
    <3>3. QED BY <2>1, <2>2, <3>1, <3>2
  <2>6. QED BY <2>3, <2>4, <2>5
<1>3. ASSUME NEW m \in Members, DeleteAccount(m) PROVE LeavingsKept'
  <2>1. left' = {l \in left : l.by # m} /\ now' = now
    BY <1>3 DEF DeleteAccount
  <2>2. \A o \in Members \ {m} : account'[o] = account[o]
    BY <1>3 DEF DeleteAccount, IInv, TypeOK
  <2>3. QED BY <2>1, <2>2 DEF IInv, LeavingsKept, TypeOK
<1>4. ASSUME NEW m \in Members, Register(m) PROVE LeavingsKept'
  <2>1. left' = left /\ now' = now /\ ~account[m].here
    BY <1>4 DEF Register
  <2>2. \A o \in Members \ {m} : account'[o] = account[o]
    BY <1>4 DEF Register, IInv, TypeOK
  <2>3. QED BY <2>1, <2>2 DEF IInv, LeavingsKept, TypeOK
<1>5. CASE CleanupHolds
  <2>1. left' = left /\ now' = now
    BY <1>5 DEF CleanupHolds
  <2>2. ASSUME NEW o \in Members
        PROVE  /\ account'[o].here = account[o].here
               /\ account'[o].changedAt = account[o].changedAt
               /\ \/ account'[o].previous = account[o].previous
                  \/ account[o].changedAt + HoldDays <= now
    BY <1>5 DEF CleanupHolds, Lapsed, IInv, TypeOK, AccountRecord
  <2>3. QED BY <2>1, <2>2 DEF IInv, LeavingsKept, TypeOK
<1>6. CASE Tick
  BY <1>6, UsernameAssumption DEF Tick, IInv, LeavingsKept, TypeOK
<1>7. CASE UNCHANGED vars
  BY <1>7 DEF vars, IInv, LeavingsKept
<1>8. QED BY <1>1, <1>2, <1>3, <1>4, <1>5, <1>6, <1>7, StepsAre

LEMMA ChangesSpacedPreserved ==
    ASSUME IInv, [Next]_vars
    PROVE  ChangesSpaced'
<1>1. ASSUME left' \subseteq left PROVE ChangesSpaced'
  BY <1>1 DEF IInv, ChangesSpaced
<1>2. ASSUME NEW q \in Requests, Commit(q) PROVE ChangesSpaced'
  <2> DEFINE new == [by |-> who[q], name |-> account[who[q]].username, at |-> at[q]]
  <2>1. left' \subseteq left \cup {new}
    BY <1>2 DEF Commit
  <2>2. \A l \in left : l.by = new.by => l.at + CooldownDays <= new.at
    BY <1>2, CommitComesAfter
  <2> HIDE DEF new
  <2>3. QED BY <2>1, <2>2 DEF IInv, ChangesSpaced
<1>3. ASSUME NEW q \in Requests, Own(q) PROVE left' \subseteq left
  BY <1>3, OwnKeepsTables
<1>4. CASE (\E m \in Members : DeleteAccount(m) \/ Register(m)) \/ CleanupHolds \/ Tick
  BY <1>1, <1>4 DEF DeleteAccount, Register, CleanupHolds, Tick
<1>5. CASE UNCHANGED vars
  BY <1>1, <1>5 DEF vars
<1>6. QED BY <1>1, <1>2, <1>3, <1>4, <1>5, StepsAre

-----------------------------------------------------------------------------
(* Theorems *)

LEMMA InitEstablishes == Init => IInv
BY UsernameAssumption
   DEF Init, IInv, TypeOK, RequestsSound, RowsHeld, NamesReserved, WaitsOver, LeavingsKept,
       NamesUnique, ChangesSpaced, NewAccount, AccountRecord, InTransaction

LEMMA NextPreserves == IInv /\ [Next]_vars => IInv'
BY TypePreserved, RequestsSoundPreserved, RowsHeldPreserved, WaitsOverPreserved,
   NamesReservedPreserved, NamesUniquePreserved, LeavingsKeptPreserved, ChangesSpacedPreserved
   DEF IInv

\* The invariant the theorems rest on holds in every state of setUsername, the cleanup and
\* the deletion of accounts.
THEOREM Invariance == Spec => []IInv
BY InitEstablishes, NextPreserves, PTL DEF Spec

\* Rows, requests and the record of names left stay well formed (users, username-claim.ts).
THEOREM TypeCorrect == Spec => []TypeOK
<1>1. IInv => TypeOK
  BY DEF IInv
<1>2. QED BY <1>1, Invariance, PTL

\* Two members never have one name, however many saves run at once and whatever server dies
\* between their statements (users_username_unique and the UPDATE of username-claim.ts).
THEOREM UniqueNames == Spec => []NamesUnique
<1>1. IInv => NamesUnique
  BY DEF IInv
<1>2. QED BY <1>1, Invariance, PTL

\* A row is locked by the transaction of a request that acts for its member.
LocksHeld ==
    \A m \in Members : rowOwner[m] # None =>
        pc[rowOwner[m]] \in InTransaction /\ who[rowOwner[m]] = m

\* Why: a transaction that ends lets go of its row, and one that goes on keeps its place.
LEMMA OwnKeepsLocks ==
    ASSUME TypeOK, RequestsSound, LocksHeld, NEW q \in Requests, Own(q) \/ Commit(q)
    PROVE  LocksHeld'
<1> USE DEF TypeOK, InTransaction
<1>1. ASSUME NEW m \in Members, rowOwner'[m] = q
      PROVE  pc'[q] \in InTransaction /\ who'[q] = m
  <2>0. rowOwner[m] = q => pc[q] \in InTransaction /\ who[q] = m
    BY UsernameAssumption DEF LocksHeld
  <2>1. CASE \E l \in Members, n \in Names : Begin(q, l, n)
    BY <1>1, <2>0, <2>1 DEF Begin, Step
  <2>2. CASE LockRow(q)
    <3>1. rowOwner' = [rowOwner EXCEPT ![who[q]] = q] /\ who' = who /\ pc'[q] = "judged"
      BY <2>2 DEF LockRow, Step
    <3>2. who[q] = m
      BY <1>1, <2>0, <2>2, <3>1 DEF LockRow
    <3>3. QED BY <3>1, <3>2
  <2>3. CASE AlreadyTheirs(q) \/ CheckHold(q) \/ Write(q)
    BY <1>1, <2>0, <2>3 DEF AlreadyTheirs, CheckHold, Write, Step
  <2>4. CASE NoAccount(q) \/ ChangeTooSoon(q) \/ NameHeld(q) \/ NameInUse(q) \/ Crash(q) \/ Commit(q)
    <3>1. Unlock(q)
      BY <2>4 DEF NoAccount, ChangeTooSoon, NameHeld, NameInUse, Crash, Commit, Rollback
    <3>2. QED BY <1>1, <3>1, UsernameAssumption DEF Unlock
  <2>5. CASE SaveDisplayName(q) \/ Finish(q)
    BY <1>1, <2>0, <2>5 DEF SaveDisplayName, Finish, Answer, Forget, Step
  <2>6. QED BY <2>1, <2>2, <2>3, <2>4, <2>5 DEF Own
<1>2. ASSUME NEW m \in Members, NEW p \in Requests \ {q}, rowOwner'[m] = p
      PROVE  rowOwner[m] = p
  <2>1. CASE Unlock(q)
    BY <1>2, <2>1, UsernameAssumption DEF Unlock
  <2>2. CASE LockRow(q)
    BY <1>2, <2>2, UsernameAssumption DEF LockRow
  <2>3. CASE UNCHANGED rowOwner
    BY <1>2, <2>3
  <2>4. Unlock(q) \/ LockRow(q) \/ UNCHANGED rowOwner
    BY DEF Own, Begin, NoAccount, AlreadyTheirs, ChangeTooSoon, CheckHold, NameHeld, Write,
       NameInUse, SaveDisplayName, Crash, Finish, Commit, Rollback
  <2>5. QED BY <2>1, <2>2, <2>3, <2>4
<1>3. ASSUME NEW p \in Requests \ {q} PROVE pc'[p] = pc[p] /\ who'[p] = who[p]
  BY OwnKeepsOthers
<1>4. ASSUME NEW m \in Members PROVE rowOwner'[m] \in Requests \cup {None}
  <2>1. Unlock(q) \/ LockRow(q) \/ UNCHANGED rowOwner
    BY DEF Own, Begin, NoAccount, AlreadyTheirs, ChangeTooSoon, CheckHold, NameHeld, Write,
       NameInUse, SaveDisplayName, Crash, Finish, Commit, Rollback
  <2>2. QED BY <2>1 DEF Unlock, LockRow
<1>5. QED BY <1>1, <1>2, <1>3, <1>4 DEF LocksHeld

THEOREM LocksAreHeld == Spec => []LocksHeld
<1>1. Init => LocksHeld
  BY DEF Init, LocksHeld
<1>2. IInv /\ LocksHeld /\ [Next]_vars => LocksHeld'
  <2> SUFFICES ASSUME IInv, LocksHeld, [Next]_vars PROVE LocksHeld'
    OBVIOUS
  <2>1. CASE \E q \in Requests : Own(q) \/ Commit(q)
    BY <2>1, OwnKeepsLocks DEF IInv
  <2>2. CASE (\E m \in Members : DeleteAccount(m) \/ Register(m)) \/ CleanupHolds \/ Tick
    BY <2>2 DEF DeleteAccount, Register, CleanupHolds, Tick, local, LocksHeld
  <2>3. CASE UNCHANGED vars
    BY <2>3 DEF vars, local, LocksHeld
  <2>4. QED BY <2>1, <2>2, <2>3, StepsAre
<1>3. QED BY <1>1, <1>2, Invariance, PTL DEF Spec

\* Whoever waits for a row waits for a transaction, a transaction waits for an entry at
\* most, and the one that wrote the entry has only to commit: no circle of waits.
THEOREM LocksAreSound == Spec => []LocksSound
<1>1. IInv /\ LocksHeld => NoStandstill
  <2> SUFFICES ASSUME IInv, LocksHeld, NEW q \in UnderWay PROVE \E p \in UnderWay : ~Waits(p)
    BY DEF NoStandstill
  <2> USE DEF UnderWay
  <2>1. ASSUME NEW p \in Requests, pc[p] \in InTransaction PROVE \E o \in UnderWay : ~Waits(o)
    <3>1. CASE pc[p] = "unheld" /\ Pending(wants[p])
      <4>1. PICK o \in Requests : pc[o] = "written"
        BY <3>1 DEF Pending
      <4>2. o \in UnderWay /\ ~Waits(o)
        BY <4>1 DEF Waits
      <4>3. QED BY <4>2
    <3>2. CASE ~(pc[p] = "unheld" /\ Pending(wants[p]))
      <4>1. p \in UnderWay /\ ~Waits(p)
        BY <2>1, <3>2 DEF Waits, InTransaction
      <4>2. QED BY <4>1
    <3>3. QED BY <3>1, <3>2
  <2>2. CASE pc[q] \in InTransaction
    BY <2>1, <2>2
  <2>3. CASE pc[q] \notin InTransaction
    <3>1. CASE Waits(q)
      <4>1. rowOwner[who[q]] # None /\ who[q] \in Members
        BY <2>3, <3>1 DEF Waits, InTransaction, IInv, RequestsSound
      <4>2. rowOwner[who[q]] \in Requests /\ pc[rowOwner[who[q]]] \in InTransaction
        BY <4>1 DEF LocksHeld, IInv, TypeOK
      <4>3. QED BY <4>2, <2>1
    <3>2. QED BY <3>1
  <2>4. QED BY <2>2, <2>3
<1>2. IInv => TypeOK /\ NamesUnique
  BY DEF IInv
<1>3. QED BY <1>1, <1>2, Invariance, LocksAreHeld, PTL DEF LocksSound

\* Changes of one member's name are COOLDOWN_DAYS apart, because the wait is judged on a row
\* that is locked until the change commits (SELECT ... FOR UPDATE).
THEOREM SpacedChanges == Spec => []ChangesSpaced
<1>1. IInv => ChangesSpaced
  BY DEF IInv
<1>2. QED BY <1>1, Invariance, PTL

\* One column for the last name is enough: a look-up that finds no hold on a name is right
\* about everybody who ever left it, as long as a hold is no longer than the wait.
THEOREM HoldsAreSeen == Spec => HoldSeen
<1>1. ASSUME IInv, [Next]_vars, NEW q \in Requests, pc[q] = "judged", pc'[q] = "unheld",
             NEW l \in left, l.name = wants[q], l.by # who[q]
      PROVE  l.at + HoldDays <= now
  <2>1. Own(q)
    <3>1. ASSUME NEW p \in Requests, p # q, Own(p) \/ Commit(p) PROVE FALSE
      BY <1>1, <3>1, OwnKeepsOthers DEF IInv
    <3>2. ~Commit(q)
      BY <1>1 DEF Commit
    <3>3. CASE (\E m \in Members : DeleteAccount(m) \/ Register(m)) \/ CleanupHolds \/ Tick
      BY <1>1, <3>3, SurroundingsRespectLocks DEF IInv
    <3>4. ~UNCHANGED vars
      BY <1>1 DEF vars, local
    <3>5. QED BY <1>1, <3>1, <3>2, <3>3, <3>4, StepsAre
  <2>2. CheckHold(q)
    BY <1>1, <2>1, OwnInTransaction DEF IInv, InTransaction
  <2>3. l.by \in Members /\ l.at \in Nat /\ account[l.by].here /\ account[l.by].changedAt \in Nat
    BY <1>1 DEF IInv, TypeOK, LeavingsKept
  <2>4. CASE account[l.by].previous = l.name /\ account[l.by].changedAt = l.at
    <3>1. ~(l.at + HoldDays > at[q])
      BY <1>1, <2>2, <2>3, <2>4 DEF CheckHold, HeldByAnother
    <3>2. at[q] \in Nat /\ now \in Nat /\ at[q] <= now
      BY <1>1 DEF IInv, TypeOK, RequestsSound
    <3>3. QED BY <2>3, <3>1, <3>2, UsernameAssumption
  <2>5. QED BY <1>1, <2>4 DEF IInv, LeavingsKept
<1>2. IInv /\ [Next]_vars =>
        [\A q \in Requests : pc[q] = "judged" /\ pc'[q] = "unheld" =>
           \A l \in left : l.name = wants[q] /\ l.by # who[q] => l.at + HoldDays <= now]_vars
  BY <1>1
<1>3. QED BY <1>2, Invariance, PTL DEF Spec, HoldSeen

-----------------------------------------------------------------------------
(* The forms *)

\* A tab expects an answer: its form is off because of a request, or the code screen asks.
Expects(p) == ~p.left /\ ((p.busy /\ p.step # "shrink") \/ p.step = "asking")

\* Where a form may stand, and what may be off there.
StepSound(p) ==
    /\ p.step \in {"loading", "asking"} => p.form = "verify" /\ ~p.busy
    /\ p.step = "dead" => p.form \in {"verify", "two-factor"} /\ ~p.busy
    /\ p.step = "shrink" => p.form = "avatar" /\ p.busy
    /\ p.form = "checkpoint" /\ p.step = "fill" => p.about = Blank
    /\ p.secret # 0 => p.codes = p.secret

\* What is said is about what is in the field, and a timer runs for a name worth asking about.
NameSound(p) ==
    /\ p.about # Blank => p.about = p.field /\ p.form \in Profile \cup {"checkpoint"}
    /\ p.timer => Candidate(p) # Blank /\ p.form \in Profile

\* Every request is asked by one form, ...
AskedBy(path, form) ==
    /\ path \in OneButton => form = path
    /\ path \in {"status", "verify", "resend"} => form = "verify"
    /\ path = "second" => form = "two-factor"
    /\ path \in {"start", "change"} => form = "email"
    /\ path = "avatar" => form = "avatar"
    /\ path \in {"available", "save"} => form \in Profile
    /\ path = "checkpoint" => form = "checkpoint"
    /\ path \in FactorPaths => form = "factor"

\* ... which is still there when the answer comes, with what was asked about; a question
\* about a name may be outdated, but then it has an old ticket.
CallFits(c, p) ==
    /\ AskedBy(c.path, p.form)
    /\ c.path # "confirm" => c.of \in Entries \cup {Blank}
    /\ c.path # "available" => (c.path = "status" <=> p.step = "asking")
    /\ c.path = "available" => c.held <= p.asked
    /\ c.path = "available" /\ c.held = p.asked => c.of = Candidate(p) /\ c.of # Blank
    /\ c.path = "checkpoint" => c.of = p.field /\ p.step = "fill"
    /\ c.path = "confirm" => c.held = p.codes /\ p.step = "scan"

TabSound(t) ==
    /\ StepSound(page[t]) /\ NameSound(page[t])
    /\ \A c \in calls : c.tab = t => CallFits(c, page[t])
    /\ Expects(page[t]) => \E c \in calls : Running(t) = {c}
    /\ ~Expects(page[t]) => Running(t) = {}
    /\ page[t].hint = "checking" /\ ~page[t].left =>
         \E c \in calls : c.tab = t /\ c.path = "available" /\ c.held = page[t].asked

\* Until two-factor is on, the codes stored are those that were made with the secret.
FactorSound ==
    /\ ~factor.on => factor.codes = factor.secret
    /\ \A s \in Numbers : paired[s] \in {0, s}

FInv ==
    /\ FormsTypeOK
    /\ \A t \in Tabs : TabSound(t)
    /\ FactorSound

-----------------------------------------------------------------------------
(* What a page may turn into *)

\* A form that turns into another, as far as names and the questions about them go.
Moves(p, q) ==
    /\ q \in PageRecord /\ StepSound(q) /\ NameSound(q)
    /\ q.hint = "checking" /\ ~q.left => p.hint = "checking" /\ ~p.left /\ q.asked = p.asked
    /\ \A c \in CallRecord : c.path = "available" /\ CallFits(c, p) => CallFits(c, q)

LEMMA OneButtonIs ==
    OneButton = {"signin", "signup", "forgot", "reset", "password", "delete", "devices", "discord", "lesson"}
BY DEF OneButton, Becomes

LEMMA HintFits ==
    ASSUME NEW p, NEW c, c.path = "available"
    PROVE  CallFits(c, p) <=>
             /\ p.form \in Profile /\ c.of \in Entries \cup {Blank} /\ c.held <= p.asked
             /\ c.held = p.asked => c.of = Candidate(p) /\ c.of # Blank
BY OneButtonIs DEF CallFits, AskedBy, FactorPaths, Purposes

\* What does not touch the name only has to leave the form where it may stand.
LEMMA NameStays ==
    ASSUME NEW p \in PageRecord, NEW q \in PageRecord, NameSound(p), StepSound(q),
           q.form = p.form, q.field = p.field, q.current = p.current, q.locked = p.locked,
           q.hint = p.hint, q.asked = p.asked, q.timer = p.timer, q.about = p.about,
           p.left => q.left
    PROVE  Moves(p, q)
<1>1. Candidate(q) = Candidate(p)
  BY DEF Candidate
<1>2. NameSound(q)
  BY <1>1 DEF NameSound
<1>3. \A c \in CallRecord : c.path = "available" /\ CallFits(c, p) => CallFits(c, q)
  BY <1>1, HintFits
<1>4. q.hint = "checking" /\ ~q.left => p.hint = "checking" /\ ~p.left /\ q.asked = p.asked
  OBVIOUS
<1>5. QED BY <1>2, <1>3, <1>4 DEF Moves

\* A new form knows no name, and no name was asked about at a form that another one follows.
LEMMA FreshMoves ==
    ASSUME NEW p \in PageRecord, NEW q \in PageRecord, StepSound(q), p.form \notin Profile,
           q.hint = "idle", ~q.timer, q.about = Blank
    PROVE  Moves(p, q)
<1>1. NameSound(q)
  BY DEF NameSound
<1>2. \A c \in CallRecord : c.path = "available" => ~CallFits(c, p)
  BY HintFits
<1>3. QED BY <1>1, <1>2 DEF Moves

-----------------------------------------------------------------------------
(* What a step may do to pages and requests *)

\* Somebody uses a form, and asks nothing.
LEMMA Turned ==
    ASSUME FInv, NEW t \in Tabs, NEW q, Show(t, q), Moves(page[t], q), calls' = calls,
           Expects(q) <=> Expects(page[t]),
           Expects(q) => \A c \in CallRecord : CallFits(c, page[t]) => CallFits(c, q)
    PROVE  page' \in [Tabs -> PageRecord] /\ \A u \in Tabs : TabSound(u)'
<1>0. page \in [Tabs -> PageRecord] /\ calls \subseteq CallRecord /\ \A u \in Tabs : TabSound(u)
  BY DEF FInv, FormsTypeOK
<1>1. page'[t] = q /\ \A u \in Tabs \ {t} : page'[u] = page[u]
  BY <1>0 DEF Show
<1>2. page' \in [Tabs -> PageRecord]
  BY <1>0 DEF Show, Moves
<1>3. \A u \in Tabs : Running(u)' = Running(u)
  BY DEF Running
<1>4. ASSUME NEW u \in Tabs \ {t} PROVE TabSound(u)'
  BY <1>0, <1>1, <1>3 DEF TabSound
<1>5. TabSound(t)'
  <2>1. ASSUME NEW c \in calls, c.tab = t PROVE CallFits(c, q)
    <3>1. CallFits(c, page[t]) /\ c \in CallRecord
      BY <1>0, <2>1 DEF TabSound
    <3>2. CASE c.path = "available"
      BY <3>1, <3>2 DEF Moves
    <3>3. CASE c.path # "available"
      <4>1. c \in Running(t)
        BY <2>1, <3>3 DEF Running
      <4>2. Expects(page[t])
        BY <1>0, <4>1 DEF TabSound
      <4>3. QED BY <3>1, <4>2
    <3>4. QED BY <3>2, <3>3
  <2>2. q.hint = "checking" /\ ~q.left =>
          \E c \in calls : c.tab = t /\ c.path = "available" /\ c.held = q.asked
    BY <1>0 DEF Moves, TabSound
  <2>3. StepSound(q) /\ NameSound(q)
    BY DEF Moves
  <2>4. QED BY <1>0, <1>1, <1>3, <2>1, <2>2, <2>3 DEF TabSound
<1>6. QED BY <1>2, <1>4, <1>5

\* Somebody sends a form.
LEMMA Asked ==
    ASSUME FInv, NEW t \in Tabs, NEW q, Show(t, q), Moves(page[t], q),
           NEW d, d.tab = t, d.path # "available", CallFits(d, q), calls' = calls \cup {d},
           ~Expects(page[t]), Expects(q)
    PROVE  page' \in [Tabs -> PageRecord] /\ \A u \in Tabs : TabSound(u)'
<1>0. page \in [Tabs -> PageRecord] /\ calls \subseteq CallRecord /\ \A u \in Tabs : TabSound(u)
  BY DEF FInv, FormsTypeOK
<1>1. page'[t] = q /\ \A u \in Tabs \ {t} : page'[u] = page[u]
  BY <1>0 DEF Show
<1>2. page' \in [Tabs -> PageRecord]
  BY <1>0 DEF Show, Moves
<1>3. Running(t) = {}
  BY <1>0 DEF TabSound
<1>4. Running(t)' = {d} /\ \A u \in Tabs \ {t} : Running(u)' = Running(u)
  BY <1>3 DEF Running
<1>5. ASSUME NEW u \in Tabs \ {t} PROVE TabSound(u)'
  <2>1. \A c \in calls' : c.tab = u => c \in calls
    OBVIOUS
  <2>2. QED BY <1>0, <1>1, <1>4, <2>1 DEF TabSound
<1>6. TabSound(t)'
  <2>1. ASSUME NEW c \in calls', c.tab = t PROVE CallFits(c, q)
    <3>1. CASE c = d
      BY <3>1
    <3>2. CASE c # d
      <4>1. c \in calls /\ CallFits(c, page[t]) /\ c \in CallRecord
        BY <1>0, <2>1, <3>2 DEF TabSound
      <4>2. c.path = "available"
        BY <1>3, <2>1, <4>1 DEF Running
      <4>3. QED BY <4>1, <4>2 DEF Moves
    <3>3. QED BY <3>1, <3>2
  <2>2. q.hint = "checking" /\ ~q.left =>
          \E c \in calls' : c.tab = t /\ c.path = "available" /\ c.held = q.asked
    BY <1>0 DEF Moves, TabSound
  <2>3. StepSound(q) /\ NameSound(q)
    BY DEF Moves
  <2>4. QED BY <1>1, <1>4, <2>1, <2>2, <2>3 DEF TabSound
<1>7. QED BY <1>2, <1>5, <1>6

\* The server answers, or the answer is lost: nothing of what was asked changes.
LEMMA Answered ==
    ASSUME FInv, NEW c \in calls, NEW a \in {"none", "ok", "no", "dead", "down", "code", "free", "taken",
                                             "passed", "failed"},
           NEW n \in Numbers, Reply(c, a, n), page' = page
    PROVE  calls' \subseteq CallRecord /\ \A u \in Tabs : TabSound(u)'
<1> DEFINE d == [c EXCEPT !.answer = a, !.data = n]
<1>0. calls \subseteq CallRecord /\ c \in CallRecord /\ \A u \in Tabs : TabSound(u)
  BY DEF FInv, FormsTypeOK
<1>1. /\ d \in CallRecord /\ d.tab = c.tab /\ d.path = c.path /\ d.of = c.of /\ d.held = c.held
  BY <1>0 DEF CallRecord
<1>2. calls' = (calls \ {c}) \cup {d}
  BY DEF Reply
<1> HIDE DEF d
<1>3. \A p : CallFits(c, p) => CallFits(d, p)
  BY <1>1 DEF CallFits
<1>4. ASSUME NEW u \in Tabs PROVE TabSound(u)'
  <2>1. \A e \in calls' : e.tab = u => CallFits(e, page[u])
    BY <1>0, <1>1, <1>2, <1>3 DEF TabSound
  <2>2. Expects(page[u]) => \E e \in calls' : Running(u)' = {e}
    <3>1. SUFFICES ASSUME Expects(page[u]) PROVE \E e \in calls' : Running(u)' = {e}
      OBVIOUS
    <3>2. PICK e \in calls : Running(u) = {e}
      BY <1>0, <3>1 DEF TabSound
    <3>3. CASE e = c
      <4>1. Running(u)' = {d}
        BY <1>1, <1>2, <3>2, <3>3 DEF Running
      <4>2. QED BY <1>2, <4>1
    <3>4. CASE e # c
      <4>1. Running(u)' = {e} /\ e \in calls'
        BY <1>1, <1>2, <3>2, <3>4 DEF Running
      <4>2. QED BY <4>1
    <3>5. QED BY <3>3, <3>4
  <2>3. ~Expects(page[u]) => Running(u)' = {}
    <3>1. Running(u) = {} => Running(u)' = {}
      BY <1>1, <1>2 DEF Running
    <3>2. QED BY <1>0, <3>1 DEF TabSound
  <2>4. page[u].hint = "checking" /\ ~page[u].left =>
          \E e \in calls' : e.tab = u /\ e.path = "available" /\ e.held = page[u].asked
    BY <1>0, <1>1, <1>2 DEF TabSound
  <2>5. QED BY <1>0, <2>1, <2>2, <2>3, <2>4 DEF TabSound
<1>5. QED BY <1>0, <1>1, <1>2, <1>4

\* The answer arrives, and the form is free again, or gone.
LEMMA Ended ==
    ASSUME FInv, NEW c \in calls, NEW q, c.path # "available", calls' = calls \ {c},
           Show(c.tab, q), Moves(page[c.tab], q), ~Expects(q)
    PROVE  page' \in [Tabs -> PageRecord] /\ \A u \in Tabs : TabSound(u)'
<1> DEFINE t == c.tab
<1>0. /\ page \in [Tabs -> PageRecord] /\ calls \subseteq CallRecord /\ \A u \in Tabs : TabSound(u)
      /\ t \in Tabs
  BY DEF FInv, FormsTypeOK, CallRecord
<1>1. page'[t] = q /\ \A u \in Tabs \ {t} : page'[u] = page[u]
  BY <1>0 DEF Show
<1>2. page' \in [Tabs -> PageRecord]
  BY <1>0 DEF Show, Moves
<1>3. c \in Running(t)
  BY DEF Running
<1>4. Running(t) = {c}
  BY <1>0, <1>3 DEF TabSound
<1>5. Running(t)' = {} /\ \A u \in Tabs \ {t} : Running(u)' = Running(u)
  BY <1>4 DEF Running
<1>6. ASSUME NEW u \in Tabs \ {t} PROVE TabSound(u)'
  <2>1. Expects(page[u]) => \E e \in calls' : Running(u) = {e}
    BY <1>0, <1>6 DEF TabSound, Running
  <2>2. QED BY <1>0, <1>1, <1>5, <2>1 DEF TabSound
<1>7. TabSound(t)'
  <2>1. ASSUME NEW e \in calls', e.tab = t PROVE CallFits(e, q)
    <3>1. e \in calls /\ CallFits(e, page[t]) /\ e \in CallRecord
      BY <1>0, <2>1 DEF TabSound
    <3>2. e.path = "available"
      BY <1>4, <2>1 DEF Running
    <3>3. QED BY <3>1, <3>2 DEF Moves
  <2>2. q.hint = "checking" /\ ~q.left =>
          \E e \in calls' : e.tab = t /\ e.path = "available" /\ e.held = q.asked
    BY <1>0 DEF Moves, TabSound
  <2>3. StepSound(q) /\ NameSound(q)
    BY DEF Moves
  <2>4. QED BY <1>1, <1>5, <2>1, <2>2, <2>3 DEF TabSound
<1>8. QED BY <1>2, <1>6, <1>7

-----------------------------------------------------------------------------
(* The pages that handlers show *)

SameName(p, q) ==
    /\ q.form = p.form /\ q.field = p.field /\ q.current = p.current /\ q.locked = p.locked
    /\ q.hint = p.hint /\ q.asked = p.asked /\ q.timer = p.timer /\ q.about = p.about

LEMMA BusyPage ==
    ASSUME NEW p \in PageRecord, NEW b \in BOOLEAN, NEW q, q = [p EXCEPT !.busy = b]
    PROVE  /\ q \in PageRecord /\ SameName(p, q) /\ q.busy = b
           /\ q.step = p.step /\ q.left = p.left /\ q.secret = p.secret /\ q.codes = p.codes
BY DEF PageRecord, SameName

LEMMA StepPage ==
    ASSUME NEW p \in PageRecord, NEW s \in StepNames, NEW q, q = [p EXCEPT !.step = s]
    PROVE  /\ q \in PageRecord /\ SameName(p, q) /\ q.step = s
           /\ q.busy = p.busy /\ q.left = p.left /\ q.secret = p.secret /\ q.codes = p.codes
BY DEF PageRecord, SameName

LEMMA GonePage ==
    ASSUME NEW p \in PageRecord, NEW q, q = Left(p)
    PROVE  /\ q \in PageRecord /\ SameName(p, q) /\ q.left
           /\ q.step = p.step /\ q.busy = p.busy /\ q.secret = p.secret /\ q.codes = p.codes
BY DEF PageRecord, SameName, Left

LEMMA GoPage ==
    ASSUME NEW p \in PageRecord, NEW s \in StepNames, NEW k \in Numbers, NEW m \in Numbers,
           NEW q, q = Go(p, s, k, m)
    PROVE  /\ q \in PageRecord /\ SameName(p, q) /\ q.step = s /\ q.secret = k /\ q.codes = m
           /\ q.busy = p.busy /\ q.left = p.left
BY DEF PageRecord, SameName, Go

LEMMA NumbersAre == Numbers \subseteq Nat /\ 0 \in Numbers
BY FormsAssumption DEF Numbers

LEMMA FreshPage ==
    ASSUME NEW form \in FormNames, NEW q, q = Fresh(form)
    PROVE  /\ q \in PageRecord /\ q.form = form /\ q.step = FirstStep(form) /\ ~q.left /\ ~q.busy
           /\ q.field = Blank /\ q.current = Blank /\ ~q.locked /\ q.hint = "idle" /\ q.asked = 0
           /\ ~q.timer /\ q.about = Blank /\ q.secret = 0 /\ q.codes = 0
<1>1. FirstStep(form) \in StepNames
  BY DEF FirstStep, StepNames
<1>2. 0 \in Numbers
  BY NumbersAre
<1>3. QED BY <1>1, <1>2 DEF Fresh, PageRecord

LEMMA FreshSound ==
    ASSUME NEW form \in FormNames
    PROVE  StepSound(Fresh(form)) /\ NameSound(Fresh(form)) /\ ~Expects(Fresh(form))
<1> DEFINE q == Fresh(form)
<1>1. /\ q.form = form /\ q.step = FirstStep(form) /\ ~q.left /\ ~q.busy
      /\ ~q.timer /\ q.about = Blank /\ q.secret = 0
  BY FreshPage
<1>2. /\ FirstStep(form) = "loading" => form = "verify"
      /\ FirstStep(form) \notin {"asking", "dead", "shrink"}
  BY DEF FirstStep
<1> HIDE DEF q
<1>3. StepSound(q) /\ NameSound(q) /\ ~Expects(q)
  BY <1>1, <1>2 DEF StepSound, NameSound, Expects
<1>4. QED BY <1>3 DEF q

\* The types of what is sent.
LEMMA SendTyped ==
    ASSUME FInv, NEW t \in Tabs, NEW path \in Paths, NEW of \in Entries \cup {Blank} \cup Numbers,
           NEW held \in Nat, Send(t, path, of, held)
    PROVE  calls' \subseteq CallRecord /\ sent' \in [Tabs -> 0..MaxCalls]
<1> DEFINE d == [tab |-> t, n |-> sent[t] + 1, path |-> path, of |-> of,
                 held |-> held, answer |-> "none", data |-> 0]
<1>0. sent \in [Tabs -> 0..MaxCalls] /\ calls \subseteq CallRecord /\ MaxCalls \in Nat
  BY FormsAssumption DEF FInv, FormsTypeOK
<1>1. sent[t] < MaxCalls /\ sent' = [sent EXCEPT ![t] = @ + 1] /\ calls' = calls \cup {d}
  BY DEF Send
<1>2. sent[t] + 1 \in 1..MaxCalls
  BY <1>0, <1>1
<1>3. d \in CallRecord
  BY <1>2, NumbersAre DEF CallRecord
<1> HIDE DEF d
<1>4. QED BY <1>0, <1>1, <1>2, <1>3

\* Every button that asks something.
LEMMA Submitted ==
    ASSUME FInv, NEW t \in Tabs, NEW path \in Paths \ {"available"},
           NEW of \in Entries \cup {Blank} \cup Numbers, NEW held \in Nat,
           Submit(t, path, of, held), ~page[t].left,
           page[t].step \notin {"loading", "asking", "dead", "shrink"},
           \A d : d.path = path /\ d.of = of /\ d.held = held => CallFits(d, page[t])
    PROVE  FInv'
<1> DEFINE p == page[t]
           q == [p EXCEPT !.busy = TRUE]
           d == [tab |-> t, n |-> sent[t] + 1, path |-> path, of |-> of,
                 held |-> held, answer |-> "none", data |-> 0]
<1>0. p \in PageRecord /\ TabSound(t) /\ StepSound(p) /\ NameSound(p) /\ ~p.busy
  BY DEF FInv, FormsTypeOK, TabSound, Submit, Idle
<1>1. /\ Show(t, q) /\ calls' = calls \cup {d} /\ Send(t, path, of, held) /\ UNCHANGED <<edits, server>>
  BY DEF Submit, Send
<1>2. /\ q \in PageRecord /\ SameName(p, q) /\ q.busy = TRUE
      /\ q.step = p.step /\ q.left = p.left /\ q.secret = p.secret /\ q.codes = p.codes
  <2>1. q = [p EXCEPT !.busy = TRUE] /\ TRUE \in BOOLEAN
    OBVIOUS
  <2> HIDE DEF p, q
  <2>2. QED BY <1>0, <2>1, BusyPage
<1>3. d.tab = t /\ d.path # "available" /\ CallFits(d, p)
  <2>1. d.tab = t /\ d.path = path /\ d.of = of /\ d.held = held
    OBVIOUS
  <2> HIDE DEF p, q, d
  <2>2. CallFits(d, p)
    BY <2>1 DEF p
  <2>3. QED BY <2>1, <2>2
<1> HIDE DEF p, q, d
<1>4. StepSound(q)
  BY <1>0, <1>2 DEF StepSound, SameName, p
<1>5. Moves(p, q)
  BY <1>0, <1>2, <1>4, NameStays DEF SameName
<1>6. CallFits(d, q)
  BY <1>2, <1>3 DEF CallFits, SameName, Candidate
<1>7. ~Expects(p) /\ Expects(q)
  BY <1>0, <1>2 DEF Expects, p
<1>8. page' \in [Tabs -> PageRecord] /\ \A u \in Tabs : TabSound(u)'
  BY <1>1, <1>3, <1>5, <1>6, <1>7, Asked DEF p
<1>9. calls' \subseteq CallRecord /\ sent' \in [Tabs -> 0..MaxCalls]
  BY <1>1, SendTyped
<1>10. QED BY <1>1, <1>8, <1>9 DEF FInv, FormsTypeOK, FactorSound, server

\* A handler that asks nothing.
LEMMA Shown ==
    ASSUME FInv, NEW t \in Tabs, NEW q, Show(t, q), UNCHANGED <<calls, sent, server>>,
           edits' \in [Tabs -> 0..MaxEdits], Moves(page[t], q),
           Expects(q) <=> Expects(page[t]),
           Expects(q) => \A c \in CallRecord : CallFits(c, page[t]) => CallFits(c, q)
    PROVE  FInv'
BY Turned DEF FInv, FormsTypeOK, FactorSound, server

-----------------------------------------------------------------------------
(* What the reader of a form does *)

\* What is known of a page.
LEMMA PageKnown ==
    ASSUME FInv, NEW t \in Tabs
    PROVE  /\ page[t] \in PageRecord /\ TabSound(t) /\ StepSound(page[t]) /\ NameSound(page[t])
           /\ edits \in [Tabs -> 0..MaxEdits]
BY DEF FInv, FormsTypeOK, TabSound

\* A request that only says which form it is of.
LEMMA PlainFits ==
    ASSUME NEW path, NEW p, AskedBy(path, p.form), path \notin {"available", "status", "checkpoint", "confirm"},
           p.step # "asking"
    PROVE  \A d : d.path = path /\ d.of \in Entries \cup {Blank} => CallFits(d, p)
BY DEF CallFits

LEMMA PathsAre ==
    /\ OneButton \cup CodePaths \cup SettingPaths \cup FactorPaths
         \cup {"available", "save", "checkpoint"} = Paths
    /\ OneButton \cap (CodePaths \cup SettingPaths \cup FactorPaths
                         \cup {"available", "save", "checkpoint"}) = {}
BY OneButtonIs DEF Paths, CodePaths, SettingPaths, FactorPaths, Purposes

\* The forms that a form of one button, and the others, may be.
LEMMA ButtonsKeep ==
    ASSUME FInv, NEW t \in Tabs,
           \/ Press(t) \/ SubmitCode(t) \/ Resend(t) \/ SubmitSecond(t)
           \/ StartChange(t) \/ VerifyChange(t) \/ RemovePicture(t) \/ OnPassword(t) \/ Save(t)
    PROVE  FInv'
<1> DEFINE p == page[t]
<1>0. p \in PageRecord /\ StepSound(p) /\ 0 \in Nat
  BY PageKnown
<1>a. ASSUME NEW path \in Paths \ {"available", "status", "checkpoint", "confirm"},
             NEW of \in Entries \cup {Blank}, AskedBy(path, p.form), ~p.left,
             p.step \notin {"loading", "asking", "dead", "shrink"}, Submit(t, path, of, 0)
      PROVE  FInv'
  <2>1. \A d : d.path = path /\ d.of = of /\ d.held = 0 => CallFits(d, p)
    BY <1>a, PlainFits
  <2>2. QED BY <1>0, <1>a, <2>1, Submitted
<1>1. CASE Press(t)
  <2>1. /\ p.form \in OneButton /\ p.step = "fill" /\ ~p.left /\ Submit(t, p.form, Blank, 0)
    BY <1>1 DEF Press
  <2>2. AskedBy(p.form, p.form) /\ p.form \in Paths \ {"available", "status", "checkpoint", "confirm"}
    BY <2>1, OneButtonIs, PathsAre DEF AskedBy, CodePaths, SettingPaths, FactorPaths, Purposes, Profile
  <2>3. QED BY <1>a, <2>1, <2>2
<1>2. CASE SubmitCode(t) \/ Resend(t)
  <2>1. PICK path \in {"verify", "resend"} : Submit(t, path, Blank, 0)
    BY <1>2 DEF SubmitCode, Resend
  <2>2. p.form = "verify" /\ p.step = "fill" /\ ~p.left
    BY <1>2 DEF SubmitCode, Resend, At
  <2>3. AskedBy(path, p.form) /\ path \in Paths
    BY <2>1, <2>2, OneButtonIs, PathsAre DEF AskedBy, CodePaths, FactorPaths, Purposes
  <2>4. QED BY <1>a, <2>1, <2>2, <2>3
<1>3. CASE SubmitSecond(t)
  <2>1. Submit(t, "second", Blank, 0) /\ p.form = "two-factor" /\ p.step \in {"app", "backup"} /\ ~p.left
    BY <1>3 DEF SubmitSecond, At
  <2>2. AskedBy("second", p.form) /\ "second" \in Paths
    BY <2>1, OneButtonIs, PathsAre DEF AskedBy, CodePaths, FactorPaths, Purposes
  <2>3. QED BY <1>a, <2>1, <2>2
<1>4. CASE StartChange(t)
  <2>1. Submit(t, "start", p.field, 0) /\ p.form = "email" /\ p.step = "fill" /\ ~p.left
    BY <1>4 DEF StartChange, At
  <2>2. AskedBy("start", p.form) /\ "start" \in Paths
    BY <2>1, OneButtonIs, PathsAre DEF AskedBy, SettingPaths, FactorPaths, Purposes
  <2>3. p.field \in Entries \cup {Blank}
    BY <1>0 DEF PageRecord
  <2>4. QED BY <1>a, <2>1, <2>2, <2>3
<1>5. CASE VerifyChange(t) \/ RemovePicture(t)
  <2>1. PICK path \in {"change", "avatar"} :
          /\ Submit(t, path, Blank, 0) /\ p.step \in {"code", "fill"} /\ ~p.left
          /\ p.form = IF path = "change" THEN "email" ELSE "avatar"
    BY <1>5 DEF VerifyChange, RemovePicture, At
  <2>2. AskedBy(path, p.form) /\ path \in Paths
    BY <2>1, OneButtonIs, PathsAre DEF AskedBy, SettingPaths, FactorPaths, Purposes
  <2>3. QED BY <1>a, <2>1, <2>2
<1>6. CASE OnPassword(t)
  <2>1. PICK path \in Purposes :
          Submit(t, path, Blank, 0) /\ p.step = path /\ ~p.left /\ p.form = "factor"
    BY <1>6 DEF OnPassword, At
  <2>2. AskedBy(path, p.form) /\ path \in Paths
    BY <2>1, OneButtonIs, PathsAre DEF AskedBy, FactorPaths, Purposes
  <2>3. QED BY <1>a, <2>1, <2>2 DEF Purposes
<1>7. CASE Save(t)
  <2>1. Submit(t, "save", p.field, 0) /\ p.form \in Profile /\ ~p.left
    BY <1>7 DEF Save, OnProfile
  <2>2. AskedBy("save", p.form) /\ "save" \in Paths
    BY <2>1, OneButtonIs, PathsAre DEF AskedBy, FactorPaths, Purposes
  <2>3. p.field \in Entries \cup {Blank} /\ p.step \notin {"loading", "asking", "dead", "shrink"}
    BY <1>0, <2>1 DEF PageRecord, StepSound, Profile
  <2>4. QED BY <1>a, <2>1, <2>2, <2>3
<1>8. QED BY <1>1, <1>2, <1>3, <1>4, <1>5, <1>6, <1>7

\* A full set of answers is graded as it stands in the form.
LEMMA SubmitAnswersKeeps == ASSUME FInv, NEW t \in Tabs, SubmitAnswers(t) PROVE FInv'
<1> DEFINE p == page[t]
<1>1. /\ Submit(t, "checkpoint", p.field, 0) /\ p.form = "checkpoint" /\ p.step = "fill" /\ ~p.left
  BY DEF SubmitAnswers, At
<1>2. p.field \in Entries \cup {Blank} /\ "checkpoint" \in Paths /\ 0 \in Nat
  BY PageKnown, PathsAre DEF PageRecord
<1>3. AskedBy("checkpoint", p.form)
  BY <1>1, OneButtonIs DEF AskedBy, FactorPaths, Purposes
<1>4. \A d : d.path = "checkpoint" /\ d.of = p.field /\ d.held = 0 => CallFits(d, p)
  BY <1>1, <1>2, <1>3 DEF CallFits
<1>5. QED BY <1>1, <1>2, <1>4, Submitted

\* The codes to show next go with the code of the QR code.
LEMMA OnConfirmKeeps ==
    ASSUME FInv, NEW t \in Tabs, NEW secret \in 1..made, OnConfirm(t, secret)
    PROVE  FInv'
<1> DEFINE p == page[t]
<1>1. /\ Submit(t, "confirm", secret, p.codes) /\ p.form = "factor" /\ p.step = "scan" /\ ~p.left
  BY DEF OnConfirm, At
<1>2. p.codes \in Nat /\ "confirm" \in Paths
  BY PageKnown, PathsAre, NumbersAre DEF PageRecord, FactorPaths
<1>3. secret \in Numbers
  <2>1. made \in 0..MaxSetUps /\ MaxSetUps \in Nat
    BY FormsAssumption DEF FInv, FormsTypeOK, Numbers
  <2>2. QED BY <2>1 DEF Numbers
<1>4. AskedBy("confirm", p.form)
  BY <1>1, OneButtonIs DEF AskedBy
<1>5. \A d : d.path = "confirm" /\ d.of = secret /\ d.held = p.codes => CallFits(d, p)
  BY <1>1, <1>4 DEF CallFits
<1>6. QED BY <1>1, <1>2, <1>3, <1>5, Submitted

\* The code screen asks where the sign-up stands.
LEMMA AskStatusKeeps == ASSUME FInv, NEW t \in Tabs, AskStatus(t) PROVE FInv'
<1> DEFINE p == page[t]
           q == [p EXCEPT !.step = "asking"]
           d == [tab |-> t, n |-> sent[t] + 1, path |-> "status", of |-> Blank,
                 held |-> 0, answer |-> "none", data |-> 0]
<1>0. p \in PageRecord /\ StepSound(p) /\ NameSound(p) /\ "status" \in Paths
  BY PageKnown, PathsAre DEF CodePaths
<1>1. /\ p.form = "verify" /\ p.step = "loading" /\ ~p.left /\ ~p.busy
      /\ Show(t, q) /\ calls' = calls \cup {d} /\ Send(t, "status", Blank, 0)
      /\ UNCHANGED <<edits, server>>
  BY <1>0 DEF AskStatus, At, Send, StepSound
<1>2. "asking" \in StepNames /\ q = [p EXCEPT !.step = "asking"]
  BY DEF StepNames
<1>3. d.tab = t /\ d.path = "status" /\ d.of = Blank
  OBVIOUS
<1> HIDE DEF p, q, d
<1>4. /\ q \in PageRecord /\ SameName(p, q) /\ q.step = "asking"
      /\ q.busy = p.busy /\ q.left = p.left /\ q.secret = p.secret /\ q.codes = p.codes
  BY <1>0, <1>2, StepPage
<1>5. StepSound(q)
  BY <1>0, <1>1, <1>4 DEF StepSound, SameName
<1>6. Moves(p, q)
  BY <1>0, <1>4, <1>5, NameStays DEF SameName
<1>7. AskedBy("status", "verify")
  BY OneButtonIs DEF AskedBy, FactorPaths, Purposes
<1>8. CallFits(d, q)
  BY <1>1, <1>3, <1>4, <1>7 DEF CallFits, SameName
<1>9. ~Expects(p) /\ Expects(q)
  BY <1>1, <1>4 DEF Expects
<1>10. page' \in [Tabs -> PageRecord] /\ \A u \in Tabs : TabSound(u)'
  BY <1>1, <1>3, <1>6, <1>8, <1>9, Asked DEF p
<1>11. calls' \subseteq CallRecord /\ sent' \in [Tabs -> 0..MaxCalls]
  <2>1. Send(t, "status", Blank, 0)
    BY <1>1
  <2>2. QED BY <1>0, <2>1, SendTyped
<1>12. QED BY <1>1, <1>10, <1>11 DEF FInv, FormsTypeOK, FactorSound, server

\* A picture that was made smaller is sent.
LEMMA UploadKeeps == ASSUME FInv, NEW t \in Tabs, Upload(t) PROVE FInv'
<1> DEFINE p == page[t]
           q == [p EXCEPT !.step = "fill"]
           d == [tab |-> t, n |-> sent[t] + 1, path |-> "avatar", of |-> Blank,
                 held |-> 0, answer |-> "none", data |-> 0]
<1>0. p \in PageRecord /\ StepSound(p) /\ NameSound(p) /\ "avatar" \in Paths
  BY PageKnown, PathsAre DEF SettingPaths
<1>1. /\ p.form = "avatar" /\ p.step = "shrink" /\ ~p.left /\ p.busy
      /\ Show(t, q) /\ calls' = calls \cup {d} /\ Send(t, "avatar", Blank, 0)
      /\ UNCHANGED <<edits, server>>
  BY <1>0 DEF Upload, At, Send, StepSound
<1>2. "fill" \in StepNames /\ q = [p EXCEPT !.step = "fill"]
  BY DEF StepNames
<1>3. d.tab = t /\ d.path = "avatar" /\ d.of = Blank
  OBVIOUS
<1> HIDE DEF p, q, d
<1>4. /\ q \in PageRecord /\ SameName(p, q) /\ q.step = "fill"
      /\ q.busy = p.busy /\ q.left = p.left /\ q.secret = p.secret /\ q.codes = p.codes
  BY <1>0, <1>2, StepPage
<1>5. StepSound(q)
  BY <1>0, <1>1, <1>4 DEF StepSound, SameName
<1>6. Moves(p, q)
  BY <1>0, <1>4, <1>5, NameStays DEF SameName
<1>7. AskedBy("avatar", "avatar")
  BY OneButtonIs DEF AskedBy, FactorPaths, Purposes
<1>8. CallFits(d, q)
  BY <1>1, <1>3, <1>4, <1>7 DEF CallFits, SameName
<1>9. ~Expects(p) /\ Expects(q)
  BY <1>1, <1>4 DEF Expects
<1>10. page' \in [Tabs -> PageRecord] /\ \A u \in Tabs : TabSound(u)'
  BY <1>1, <1>3, <1>6, <1>8, <1>9, Asked DEF p
<1>11. calls' \subseteq CallRecord /\ sent' \in [Tabs -> 0..MaxCalls]
  <2>1. Send(t, "avatar", Blank, 0)
    BY <1>1
  <2>2. QED BY <1>0, <2>1, SendTyped
<1>12. QED BY <1>1, <1>10, <1>11 DEF FInv, FormsTypeOK, FactorSound, server

\* The effect that asks about a name: a new name has a new ticket.
LEMMA EffectMoves ==
    ASSUME NEW p \in PageRecord, NameSound(p), NEW q0 \in PageRecord, StepSound(q0),
           q0.form = p.form, p.form \in Profile, q0.asked = p.asked, q0.timer = p.timer,
           q0.hint = "idle", q0.about = Blank, NEW q, q = Effect(p, q0)
    PROVE  /\ Moves(p, q) /\ q.form = q0.form /\ q.step = q0.step /\ q.busy = q0.busy
           /\ q.left = q0.left /\ q.secret = q0.secret /\ q.codes = q0.codes
<1>1. CASE Candidate(q0) = Candidate(p)
  <2>1. q = q0
    BY <1>1 DEF Effect
  <2>2. NameSound(q)
    BY <1>1, <2>1 DEF NameSound
  <2>3. \A c \in CallRecord : c.path = "available" /\ CallFits(c, p) => CallFits(c, q)
    BY <1>1, <2>1, HintFits
  <2>4. QED BY <2>1, <2>2, <2>3 DEF Moves
<1>2. CASE Candidate(q0) # Candidate(p)
  <2> DEFINE b == Candidate(q0) # Blank
             n == q0.asked + 1
  <2>1. q = [q0 EXCEPT !.asked = n, !.timer = b]
    BY <1>2 DEF Effect
  <2>2. b \in BOOLEAN /\ (b <=> Candidate(q0) # Blank) /\ n \in Nat /\ n = q0.asked + 1
    BY DEF PageRecord
  <2> HIDE DEF b, n
  <2>3. /\ q \in PageRecord /\ q.asked = n /\ q.timer = b
        /\ q.form = q0.form /\ q.step = q0.step /\ q.busy = q0.busy /\ q.left = q0.left
        /\ q.secret = q0.secret /\ q.codes = q0.codes /\ q.hint = q0.hint /\ q.about = q0.about
        /\ q.locked = q0.locked /\ q.field = q0.field /\ q.current = q0.current
    BY <2>1, <2>2 DEF PageRecord
  <2>4. Candidate(q) = Candidate(q0)
    BY <2>3 DEF Candidate
  <2>5. NameSound(q)
    BY <2>2, <2>3, <2>4 DEF NameSound
  <2>6. StepSound(q)
    BY <2>3 DEF StepSound
  <2>7. p.asked \in Nat /\ \A c \in CallRecord : c.held \in Nat
    BY DEF PageRecord, CallRecord
  <2>8. \A c \in CallRecord : c.path = "available" /\ CallFits(c, p) => CallFits(c, q)
    BY <2>2, <2>3, <2>7, HintFits
  <2>9. QED BY <2>3, <2>5, <2>6, <2>8 DEF Moves
<1>3. QED BY <1>1, <1>2

LEMMA TypeKeeps == ASSUME FInv, NEW t \in Tabs, Type(t) PROVE FInv'
<1> DEFINE p == page[t]
<1>0. p \in PageRecord /\ StepSound(p) /\ NameSound(p) /\ TabSound(t)
  BY PageKnown
<1>1. UNCHANGED <<calls, sent, server>> /\ edits' \in [Tabs -> 0..MaxEdits]
  <2>1. edits[t] < MaxEdits /\ edits' = [edits EXCEPT ![t] = @ + 1] /\ MaxEdits \in Nat
    BY FormsAssumption DEF Type
  <2>2. edits \in [Tabs -> 0..MaxEdits]
    BY PageKnown
  <2>3. edits[t] + 1 \in 0..MaxEdits
    BY <2>1, <2>2
  <2>4. UNCHANGED <<calls, sent, server>>
    BY DEF Type
  <2>5. QED BY <2>1, <2>2, <2>3, <2>4
<1>2. PICK e \in Entries \cup {Blank} :
        \/ TypeName(t, e)
        \/ Pick(t, e) /\ e # Blank
        \/ At(t, "email", "fill") /\ Show(t, [p EXCEPT !.field = e])
  BY DEF Type
<1>3. CASE TypeName(t, e)
  <2> DEFINE q0 == [p EXCEPT !.field = e, !.hint = "idle", !.about = Blank]
             q == Effect(p, q0)
  <2>1. p.form \in Profile /\ ~p.left /\ Show(t, q)
    BY <1>3 DEF TypeName, OnProfile
  <2>2. /\ q0 \in PageRecord /\ q0.form = p.form /\ q0.asked = p.asked /\ q0.timer = p.timer
        /\ q0.hint = "idle" /\ q0.about = Blank /\ q0.step = p.step /\ q0.busy = p.busy
        /\ q0.left = p.left /\ q0.secret = p.secret /\ q0.codes = p.codes
    BY <1>0 DEF PageRecord
  <2> HIDE DEF q0, p
  <2>3. StepSound(q0)
    BY <1>0, <2>2 DEF StepSound
  <2>4. /\ Moves(p, q) /\ q.form = p.form /\ q.step = p.step /\ q.busy = p.busy
        /\ q.left = p.left /\ q.codes = p.codes
    BY <1>0, <2>1, <2>2, <2>3, EffectMoves
  <2> HIDE DEF q
  <2>5. Expects(q) <=> Expects(p)
    BY <2>4 DEF Expects
  <2>6. ASSUME NEW c \in CallRecord, CallFits(c, p) PROVE CallFits(c, q)
    <3>1. CASE c.path = "available"
      BY <2>4, <2>6, <3>1 DEF Moves
    <3>2. CASE c.path # "available"
      <4>1. c.path # "checkpoint"
        BY <2>1, <2>6 DEF CallFits, AskedBy, Profile
      <4>2. QED BY <2>4, <2>6, <3>2, <4>1 DEF CallFits
    <3>3. QED BY <3>1, <3>2
  <2>7. QED BY <1>1, <2>1, <2>4, <2>5, <2>6, Shown DEF p
<1>4. CASE Pick(t, e) /\ e # Blank
  <2> DEFINE q == [p EXCEPT !.field = e]
  <2>1. p.form = "checkpoint" /\ p.step = "fill" /\ ~p.busy /\ Show(t, q)
    BY <1>4 DEF Pick, OpenToAnswers
  <2>2. /\ q \in PageRecord /\ q.form = p.form /\ q.step = p.step /\ q.left = p.left
        /\ q.busy = p.busy /\ q.secret = p.secret /\ q.codes = p.codes /\ q.asked = p.asked
        /\ q.hint = p.hint /\ q.timer = p.timer /\ q.about = p.about
    BY <1>0 DEF PageRecord
  <2> HIDE DEF q, p
  <2>3. p.about = Blank /\ ~p.timer /\ p.form \notin Profile
    BY <1>0, <2>1 DEF StepSound, NameSound, Profile
  <2>4. StepSound(q) /\ NameSound(q)
    BY <1>0, <2>2, <2>3 DEF StepSound, NameSound
  <2>5. \A c \in CallRecord : c.path = "available" => ~CallFits(c, p)
    BY <2>3, HintFits
  <2>6. Moves(p, q)
    BY <2>2, <2>4, <2>5 DEF Moves
  <2>7. ~Expects(p) /\ ~Expects(q)
    BY <2>1, <2>2 DEF Expects
  <2>8. QED BY <1>1, <2>1, <2>6, <2>7, Shown DEF p
<1>5. CASE At(t, "email", "fill") /\ Show(t, [p EXCEPT !.field = e])
  <2> DEFINE q == [p EXCEPT !.field = e]
  <2>1. p.form = "email" /\ p.step = "fill" /\ Show(t, q)
    BY <1>5 DEF At
  <2>2. /\ q \in PageRecord /\ q.form = p.form /\ q.step = p.step /\ q.left = p.left
        /\ q.busy = p.busy /\ q.secret = p.secret /\ q.codes = p.codes /\ q.asked = p.asked
        /\ q.hint = p.hint /\ q.timer = p.timer /\ q.about = p.about
    BY <1>0 DEF PageRecord
  <2> HIDE DEF q, p
  <2>3. p.about = Blank /\ ~p.timer /\ p.form \notin Profile
    BY <1>0, <2>1 DEF NameSound, Profile
  <2>4. StepSound(q) /\ NameSound(q)
    BY <1>0, <2>2, <2>3 DEF StepSound, NameSound
  <2>5. \A c \in CallRecord : CallFits(c, p) => c.path \notin {"available", "checkpoint"}
    BY <2>1 DEF CallFits, AskedBy, Profile
  <2>6. Moves(p, q)
    BY <2>2, <2>4, <2>5 DEF Moves
  <2>7. Expects(p) <=> Expects(q)
    BY <2>2 DEF Expects
  <2>8. \A c \in CallRecord : CallFits(c, p) => CallFits(c, q)
    BY <2>2, <2>5 DEF CallFits
  <2>9. QED BY <1>1, <2>1, <2>6, <2>7, <2>8, Shown DEF p
<1>6. QED BY <1>2, <1>3, <1>4, <1>5

\* The 450 ms are up: the question has the ticket of the name that is in the field.
LEMMA AskKeeps == ASSUME FInv, NEW t \in Tabs, Ask(t) PROVE FInv'
<1> DEFINE p == page[t]
           q == [p EXCEPT !.timer = FALSE, !.hint = "checking"]
           d == [tab |-> t, n |-> sent[t] + 1, path |-> "available", of |-> Candidate(p),
                 held |-> p.asked, answer |-> "none", data |-> 0]
<1>0. /\ p \in PageRecord /\ StepSound(p) /\ NameSound(p) /\ "available" \in Paths
      /\ \A u \in Tabs : TabSound(u)
  BY PageKnown, PathsAre DEF FInv
<1>1. /\ p.form \in Profile /\ ~p.left /\ p.timer
      /\ Show(t, q) /\ calls' = calls \cup {d} /\ Send(t, "available", Candidate(p), p.asked)
      /\ UNCHANGED <<edits, server>>
  BY DEF Ask, OnProfile, Send
<1>2. d.tab = t /\ d.path = "available" /\ d.of = Candidate(p) /\ d.held = p.asked
  OBVIOUS
<1>3. Candidate(p) \in Entries /\ p.asked \in Nat
  BY <1>0, <1>1 DEF NameSound, PageRecord, Candidate
<1>4. /\ q \in PageRecord /\ q.form = p.form /\ q.step = p.step /\ q.left = p.left
      /\ q.busy = p.busy /\ q.secret = p.secret /\ q.codes = p.codes /\ q.asked = p.asked
      /\ q.hint = "checking" /\ ~q.timer /\ q.about = p.about /\ q.field = p.field
      /\ q.locked = p.locked /\ q.current = p.current
  BY <1>0 DEF PageRecord
<1> HIDE DEF p, q, d
<1>5. Candidate(q) = Candidate(p)
  BY <1>4 DEF Candidate
<1>6. StepSound(q) /\ NameSound(q) /\ (Expects(q) <=> Expects(p))
  BY <1>0, <1>4 DEF StepSound, NameSound, Expects
<1>7. ASSUME NEW c, CallFits(c, p) PROVE CallFits(c, q)
  BY <1>4, <1>5, <1>7 DEF CallFits
<1>8. CallFits(d, q)
  <2>1. /\ q.form \in Profile /\ d.of \in Entries \cup {Blank} /\ d.held <= q.asked
        /\ d.of = Candidate(q) /\ d.of # Blank
    BY <1>1, <1>2, <1>3, <1>4, <1>5, FormsAssumption
  <2>2. QED BY <1>2, <2>1, HintFits
<1>9. page' = [page EXCEPT ![t] = q] /\ page \in [Tabs -> PageRecord] /\ d \in calls'
  BY <1>1 DEF Show, FInv, FormsTypeOK
<1>10. page'[t] = q /\ \A u \in Tabs \ {t} : page'[u] = page[u]
  BY <1>9
<1>11. \A u \in Tabs : Running(u)' = Running(u)
  BY <1>1, <1>2 DEF Running
<1>12. ASSUME NEW u \in Tabs \ {t} PROVE TabSound(u)'
  <2>1. \A c \in calls' : c.tab = u => c \in calls
    BY <1>1, <1>2
  <2>2. Expects(page[u]) => \E c \in calls' : Running(u) = {c}
    BY <1>0, <1>1 DEF TabSound
  <2>3. page[u].hint = "checking" /\ ~page[u].left =>
          \E c \in calls' : c.tab = u /\ c.path = "available" /\ c.held = page[u].asked
    BY <1>0, <1>1 DEF TabSound
  <2>4. QED BY <1>0, <1>10, <1>11, <2>1, <2>2, <2>3 DEF TabSound
<1>13. TabSound(t)'
  <2>1. ASSUME NEW c \in calls', c.tab = t PROVE CallFits(c, q)
    BY <1>0, <1>1, <1>7, <1>8, <2>1 DEF TabSound, p
  <2>2. Expects(p) => \E c \in calls' : Running(t) = {c}
    BY <1>0, <1>1 DEF TabSound, p
  <2>3. ~Expects(p) => Running(t) = {}
    BY <1>0 DEF TabSound, p
  <2>4. QED BY <1>2, <1>4, <1>6, <1>9, <1>10, <1>11, <2>1, <2>2, <2>3 DEF TabSound
<1>14. calls' \subseteq CallRecord /\ sent' \in [Tabs -> 0..MaxCalls]
  BY <1>0, <1>1, <1>3, SendTyped
<1>15. page' \in [Tabs -> PageRecord]
  BY <1>4, <1>9
<1>16. QED BY <1>1, <1>12, <1>13, <1>14, <1>15 DEF FInv, FormsTypeOK, FactorSound, server

\* A form turns to another of its steps, and keeps what it says of names.
LEMMA StepShown ==
    ASSUME FInv, NEW t \in Tabs, NEW q \in PageRecord, Show(t, q), UNCHANGED <<calls, sent, server>>,
           edits' \in [Tabs -> 0..MaxEdits], SameName(page[t], q), q.left = page[t].left, StepSound(q),
           Expects(q) <=> Expects(page[t]),
           Expects(q) => /\ page[t].form \in {"two-factor", "factor"}
                         /\ page[t].step # "scan" /\ q.step # "asking"
    PROVE  FInv'
<1> DEFINE p == page[t]
<1>0. p \in PageRecord /\ NameSound(p)
  BY PageKnown
<1>1. Moves(p, q)
  BY <1>0, NameStays DEF SameName
<1>2. ASSUME Expects(q), NEW c \in CallRecord, CallFits(c, p) PROVE CallFits(c, q)
  <2>1. c.path \notin {"available", "status", "checkpoint", "confirm"}
    BY <1>2 DEF CallFits, AskedBy, Profile
  <2>2. AskedBy(c.path, q.form) /\ (c.path # "confirm" => c.of \in Entries \cup {Blank})
    BY <1>2 DEF CallFits, SameName
  <2>3. QED BY <1>2, <2>1, <2>2 DEF CallFits
<1>3. QED BY <1>1, <1>2, Shown

\* The small steps of the forms.
LEMMA StepsKeep ==
    ASSUME FInv, NEW t \in Tabs,
           \/ OpenOrKeep(t) \/ SwitchMode(t) \/ Back(t) \/ Choose(t) \/ NotAPicture(t)
    PROVE  FInv'
<1> DEFINE p == page[t]
<1>0. p \in PageRecord /\ StepSound(p) /\ NameSound(p)
  BY PageKnown
<1>a. UNCHANGED edits => edits' \in [Tabs -> 0..MaxEdits]
  BY PageKnown
<1>1. CASE OpenOrKeep(t)
  <2> DEFINE s == IF p.step = "shut" THEN "fill" ELSE "shut"
             q == [p EXCEPT !.step = s]
  <2>1. p.form = "delete" /\ ~p.busy /\ Show(t, q) /\ UNCHANGED <<calls, sent, edits, server>>
    BY <1>1 DEF OpenOrKeep, Idle
  <2>2. s \in StepNames /\ s \in {"fill", "shut"} /\ q = [p EXCEPT !.step = s]
    BY DEF StepNames
  <2> HIDE DEF q, s, p
  <2>3. /\ q \in PageRecord /\ SameName(p, q) /\ q.step = s
        /\ q.busy = p.busy /\ q.left = p.left /\ q.secret = p.secret /\ q.codes = p.codes
    BY <1>0, <2>2, StepPage
  <2>4. StepSound(q) /\ ~Expects(q) /\ ~Expects(p)
    BY <1>0, <2>1, <2>2, <2>3 DEF StepSound, SameName, Expects
  <2>5. QED BY <1>a, <2>1, <2>3, <2>4, StepShown DEF p
<1>2. CASE SwitchMode(t)
  <2>1. PICK mode \in {"app", "backup"} :
          /\ At(t, "two-factor", mode)
          /\ Show(t, [p EXCEPT !.step = IF mode = "app" THEN "backup" ELSE "app"])
    BY <1>2 DEF SwitchMode
  <2> DEFINE s == IF mode = "app" THEN "backup" ELSE "app"
             q == [p EXCEPT !.step = s]
  <2>2. /\ p.form = "two-factor" /\ p.step = mode /\ Show(t, q)
        /\ UNCHANGED <<calls, sent, server>>
    BY <1>2, <2>1 DEF At, SwitchMode
  <2>3. s \in StepNames /\ s \in {"app", "backup"} /\ q = [p EXCEPT !.step = s]
    BY DEF StepNames
  <2>4. edits' \in [Tabs -> 0..MaxEdits]
    <3>1. edits[t] < MaxEdits /\ edits' = [edits EXCEPT ![t] = @ + 1] /\ MaxEdits \in Nat
      BY <1>2, FormsAssumption DEF SwitchMode
    <3>2. edits \in [Tabs -> 0..MaxEdits]
      BY PageKnown
    <3>3. edits[t] + 1 \in 0..MaxEdits
      BY <3>1, <3>2
    <3>4. QED BY <3>1, <3>2, <3>3
  <2> HIDE DEF q, s, p
  <2>5. /\ q \in PageRecord /\ SameName(p, q) /\ q.step = s
        /\ q.busy = p.busy /\ q.left = p.left /\ q.secret = p.secret /\ q.codes = p.codes
    BY <1>0, <2>3, StepPage
  <2>6. StepSound(q) /\ (Expects(q) <=> Expects(p))
    BY <1>0, <2>2, <2>3, <2>5 DEF StepSound, SameName, Expects
  <2>7. p.step # "scan" /\ q.step # "asking"
    BY <2>2, <2>3, <2>5
  <2>8. QED BY <2>2, <2>4, <2>5, <2>6, <2>7, StepShown DEF p
<1>3. CASE Back(t)
  <2> DEFINE q == [p EXCEPT !.step = "fill"]
  <2>1. /\ p.form = "email" /\ ~p.busy /\ p.step = "code" /\ Show(t, q)
        /\ UNCHANGED <<calls, sent, edits, server>>
    BY <1>3 DEF Back, Idle, At
  <2>2. "fill" \in StepNames /\ q = [p EXCEPT !.step = "fill"]
    BY DEF StepNames
  <2> HIDE DEF q, p
  <2>3. /\ q \in PageRecord /\ SameName(p, q) /\ q.step = "fill"
        /\ q.busy = p.busy /\ q.left = p.left /\ q.secret = p.secret /\ q.codes = p.codes
    BY <1>0, <2>2, StepPage
  <2>4. StepSound(q) /\ ~Expects(q) /\ ~Expects(p)
    BY <1>0, <2>1, <2>3 DEF StepSound, SameName, Expects
  <2>5. QED BY <1>a, <2>1, <2>3, <2>4, StepShown DEF p
<1>4. CASE Choose(t)
  <2> DEFINE q == [p EXCEPT !.busy = TRUE, !.step = "shrink"]
  <2>1. /\ p.form = "avatar" /\ ~p.busy /\ p.step = "fill" /\ Show(t, q)
        /\ UNCHANGED <<calls, sent, edits, server>>
    BY <1>4 DEF Choose, Idle, At
  <2>2. "shrink" \in StepNames
    BY DEF StepNames
  <2>q. q = [p EXCEPT !.busy = TRUE, !.step = "shrink"]
    OBVIOUS
  <2> HIDE DEF q, p
  <2>3. /\ q \in PageRecord /\ SameName(p, q) /\ q.step = "shrink" /\ q.busy = TRUE
        /\ q.left = p.left /\ q.secret = p.secret /\ q.codes = p.codes
    BY <1>0, <2>2, <2>q DEF PageRecord, SameName
  <2>4. StepSound(q) /\ ~Expects(q) /\ ~Expects(p)
    BY <1>0, <2>1, <2>3 DEF StepSound, SameName, Expects
  <2>5. QED BY <1>a, <2>1, <2>3, <2>4, StepShown DEF p
<1>5. CASE NotAPicture(t)
  <2> DEFINE r == Free(p)
             q == [r EXCEPT !.step = "fill"]
  <2>1. /\ p.form = "avatar" /\ p.step = "shrink" /\ Show(t, q)
        /\ UNCHANGED <<calls, sent, edits, server>>
    BY <1>5 DEF NotAPicture, Unreadable, At
  <2>2. "fill" \in StepNames
    BY DEF StepNames
  <2>q. q = [r EXCEPT !.step = "fill"] /\ r = [p EXCEPT !.busy = FALSE]
    BY DEF Free
  <2> HIDE DEF r, q, p
  <2>3. /\ r \in PageRecord /\ SameName(p, r) /\ r.busy = FALSE
        /\ r.step = p.step /\ r.left = p.left /\ r.secret = p.secret /\ r.codes = p.codes
    BY <1>0, <2>q, BusyPage
  <2>4. /\ q \in PageRecord /\ SameName(r, q) /\ q.step = "fill"
        /\ q.busy = r.busy /\ q.left = r.left /\ q.secret = r.secret /\ q.codes = r.codes
    BY <2>2, <2>3, <2>q DEF PageRecord, SameName
  <2>5. SameName(p, q) /\ StepSound(q) /\ ~Expects(q) /\ ~Expects(p)
    BY <1>0, <2>1, <2>3, <2>4 DEF StepSound, SameName, Expects
  <2>6. QED BY <1>a, <2>1, <2>3, <2>4, <2>5, StepShown DEF p
<1>6. QED BY <1>1, <1>2, <1>3, <1>4, <1>5

\* The settings of two-factor: going to another step forgets secret and codes.
LEMMA FactorSteps ==
    ASSUME FInv, NEW t \in Tabs,
           (\E purpose \in Purposes : Offer(t, purpose)) \/ Cancel(t) \/ Done(t)
    PROVE  FInv'
<1> DEFINE p == page[t]
<1>0. p \in PageRecord /\ StepSound(p) /\ NameSound(p) /\ edits \in [Tabs -> 0..MaxEdits]
  BY PageKnown
<1>1. PICK s \in Purposes \cup {"idle"} :
        /\ p.form = "factor" /\ (p.step \in {"idle", "showing"} \/ (~p.busy /\ p.step # "asking"))
        /\ Show(t, Go(p, s, 0, 0)) /\ UNCHANGED <<calls, sent, edits, server>>
  BY DEF Offer, Cancel, Done, At, Idle, Purposes
<1> DEFINE q == Go(p, s, 0, 0)
<1>2. s \in StepNames /\ s \notin {"loading", "asking", "dead", "shrink", "fill"} /\ 0 \in Numbers
  BY NumbersAre DEF StepNames, Purposes
<1>3. Show(t, q) /\ q = Go(p, s, 0, 0)
  BY <1>1
<1> HIDE DEF p, q
<1>4. /\ q \in PageRecord /\ SameName(p, q) /\ q.step = s /\ q.secret = 0 /\ q.codes = 0
      /\ q.busy = p.busy /\ q.left = p.left
  BY <1>0, <1>2, <1>3, GoPage
<1>5. StepSound(q)
  BY <1>0, <1>2, <1>4 DEF StepSound, SameName
<1>6. p.step # "shrink"
  BY <1>0, <1>1 DEF StepSound
<1>7. Expects(q) <=> Expects(p)
  BY <1>1, <1>2, <1>4, <1>6 DEF Expects
<1>8. Expects(q) => p.step # "scan" /\ q.step # "asking"
  BY <1>1, <1>2, <1>4 DEF Expects
<1>9. QED BY <1>0, <1>1, <1>3, <1>4, <1>5, <1>7, <1>8, StepShown DEF p

\* Starting again, and trying a checkpoint again.
LEMMA StartsAgain ==
    ASSUME FInv, NEW t \in Tabs, StartAgain(t) \/ Retry(t)
    PROVE  FInv'
<1> DEFINE p == page[t]
<1>0. p \in PageRecord /\ StepSound(p) /\ NameSound(p) /\ edits \in [Tabs -> 0..MaxEdits]
  BY PageKnown
<1>1. CASE StartAgain(t)
  <2> DEFINE form == IF p.form = "verify" THEN "signup" ELSE "signin"
             q == Fresh(form)
  <2>1. /\ p.form \in {"verify", "two-factor"} /\ p.step = "dead" /\ Show(t, q)
        /\ UNCHANGED <<calls, sent, edits, server>>
    BY <1>1 DEF StartAgain, At
  <2>2. form \in FormNames /\ q = Fresh(form)
    BY DEF FormNames
  <2> HIDE DEF form, q, p
  <2>3. /\ q \in PageRecord /\ q.hint = "idle" /\ ~q.timer /\ q.about = Blank
        /\ StepSound(q) /\ ~Expects(q)
    BY <2>2, FreshPage, FreshSound
  <2>4. Moves(p, q) /\ ~Expects(p)
    <3>1. p.form \notin Profile
      BY <2>1 DEF Profile
    <3>2. ~Expects(p)
      BY <1>0, <2>1 DEF Expects, StepSound
    <3>3. QED BY <1>0, <2>3, <3>1, <3>2, FreshMoves
  <2>5. QED BY <1>0, <2>1, <2>3, <2>4, Shown DEF p
<1>2. CASE Retry(t)
  <2> DEFINE q == [p EXCEPT !.step = "fill", !.field = Blank, !.about = Blank]
  <2>1. /\ p.form = "checkpoint" /\ p.step = "failed" /\ Show(t, q)
        /\ UNCHANGED <<calls, sent, edits, server>>
    BY <1>2 DEF Retry, At
  <2>2. /\ q \in PageRecord /\ q.form = p.form /\ q.step = "fill" /\ q.left = p.left
        /\ q.busy = p.busy /\ q.secret = p.secret /\ q.codes = p.codes /\ q.asked = p.asked
        /\ q.hint = p.hint /\ q.timer = p.timer /\ q.about = Blank
    BY <1>0 DEF PageRecord, StepNames
  <2> HIDE DEF q, p
  <2>3. ~p.timer /\ p.form \notin Profile
    BY <1>0, <2>1 DEF NameSound, Profile
  <2>4. StepSound(q) /\ NameSound(q)
    BY <1>0, <2>1, <2>2, <2>3 DEF StepSound, NameSound
  <2>5. \A c \in CallRecord : c.path = "available" => ~CallFits(c, p)
    BY <2>3, HintFits
  <2>6. Moves(p, q)
    BY <2>2, <2>4, <2>5 DEF Moves
  <2>7. Expects(p) <=> Expects(q)
    BY <2>1, <2>2 DEF Expects
  <2>8. ASSUME NEW c \in CallRecord, CallFits(c, p) PROVE CallFits(c, q)
    <3>1. c.path \notin {"available", "checkpoint", "status", "confirm"}
      BY <2>1, <2>8 DEF CallFits, AskedBy, Profile, FactorPaths
    <3>2. QED BY <2>2, <2>8, <3>1 DEF CallFits
  <2>9. QED BY <1>0, <2>1, <2>6, <2>7, <2>8, Shown DEF p
<1>3. QED BY <1>1, <1>2

LEMMA ReaderKeeps == ASSUME FInv, NEW t \in Tabs, Reader(t) PROVE FInv'
BY ButtonsKeep, SubmitAnswersKeeps, OnConfirmKeeps, AskStatusKeeps, UploadKeeps, TypeKeeps, AskKeeps,
   StepsKeep, FactorSteps, StartsAgain DEF Reader, CodeScreens, Settings

-----------------------------------------------------------------------------
(* What the server does *)

Answers == {"none", "ok", "no", "dead", "down", "code", "free", "taken", "passed", "failed"}

\* An answer that leaves the member's account as it is.
LEMMA SaidOnly ==
    ASSUME FInv, NEW c \in calls, NEW a \in Answers, Reply(c, a, 0),
           UNCHANGED <<page, sent, edits, server>>
    PROVE  FInv'
<1>1. calls' \subseteq CallRecord /\ \A u \in Tabs : TabSound(u)'
  BY NumbersAre, Answered DEF Answers
<1>2. QED BY <1>1 DEF FInv, FormsTypeOK, FactorSound, server

LEMMA AnswersKeep ==
    ASSUME FInv, NEW c \in calls,
           \/ ActOnButton(c) \/ ActOnCode(c) \/ ActOnSetting(c) \/ ActOnAvailable(c) \/ ActOnSave(c)
           \/ ActOnCheckpoint(c) \/ RefuseFactor(c) \/ Lose(c)
    PROVE  FInv'
<1>1. UNCHANGED <<page, sent, edits, server>>
  BY DEF ActOnButton, ActOnCode, ActOnSetting, ActOnAvailable, ActOnSave, ActOnCheckpoint, RefuseFactor, Lose
<1>2. \E a \in Answers : Reply(c, a, 0)
  BY DEF ActOnButton, ActOnCode, ActOnSetting, ActOnAvailable, ActOnSave, ActOnCheckpoint, RefuseFactor,
         Lose, Answers, Acted, Refuse
<1>3. QED BY <1>1, <1>2, SaidOnly

\* A secret and codes are made together, codes alone only while two-factor is on, and the
\* codes that turn it on are those of the secret.
LEMMA FactorKeeps ==
    ASSUME FInv, NEW c \in calls, ActOnEnable(c) \/ ActOnCodes(c) \/ ActOnDisable(c) \/ ActOnConfirm(c)
    PROVE  FInv'
<1>0. /\ factor \in [on : BOOLEAN, secret : Numbers, codes : Numbers] /\ made \in Numbers
      /\ paired \in [Numbers -> Numbers] /\ FactorSound /\ MaxSetUps \in Nat /\ c \in CallRecord
  BY FormsAssumption DEF FInv, FormsTypeOK
<1>1. page' = page /\ UNCHANGED <<sent, edits, taken, claims>>
  BY DEF ActOnEnable, ActOnCodes, ActOnDisable, ActOnConfirm
<1>a. made < MaxSetUps => made + 1 \in Numbers
  BY <1>0 DEF Numbers
<1>2. PICK n \in Numbers : Acted(c, n)
  BY <1>a, NumbersAre DEF ActOnEnable, ActOnCodes, ActOnDisable, ActOnConfirm
<1>3. \E a \in {"ok", "down"} : Reply(c, a, n)
  BY <1>2 DEF Acted
<1>4. calls' \subseteq CallRecord /\ \A u \in Tabs : TabSound(u)'
  BY <1>1, <1>3, Answered
<1>5. /\ factor' \in [on : BOOLEAN, secret : Numbers, codes : Numbers] /\ made' \in Numbers
      /\ paired' \in [Numbers -> Numbers] /\ FactorSound'
  <2> DEFINE k == made + 1
  <2>1. CASE ActOnEnable(c)
    <3>1. /\ k \in Numbers /\ made' = k /\ paired' = paired
          /\ factor' = [factor EXCEPT !.secret = k, !.codes = k]
      BY <1>a, <2>1 DEF ActOnEnable
    <3> HIDE DEF k
    <3>2. QED BY <1>0, <3>1 DEF FactorSound
  <2>2. CASE ActOnCodes(c)
    <3>1. /\ k \in Numbers /\ made' = k /\ paired' = paired /\ factor.on
          /\ factor' = [factor EXCEPT !.codes = k]
      BY <1>a, <2>2 DEF ActOnCodes, MayRenew
    <3> HIDE DEF k
    <3>2. QED BY <1>0, <3>1 DEF FactorSound
  <2>3. CASE ActOnDisable(c)
    <3>1. /\ made' = made /\ paired' = paired
          /\ factor' = [on |-> FALSE, secret |-> 0, codes |-> 0]
      BY <2>3 DEF ActOnDisable
    <3>2. QED BY <1>0, <3>1, NumbersAre DEF FactorSound
  <2>4. CASE ActOnConfirm(c)
    <3>1. /\ made' = made /\ c.of = factor.secret
          /\ factor' = [factor EXCEPT !.on = TRUE]
          /\ paired' = IF factor.on THEN paired ELSE [paired EXCEPT ![c.of] = factor.codes]
      BY <2>4 DEF ActOnConfirm
    <3>2. /\ factor' \in [on : BOOLEAN, secret : Numbers, codes : Numbers] /\ factor'.on
      BY <1>0, <3>1
    <3>3. paired' \in [Numbers -> Numbers] /\ \A s \in Numbers : paired'[s] \in {0, s}
      BY <1>0, <3>1 DEF FactorSound
    <3>4. QED BY <1>0, <3>1, <3>2, <3>3 DEF FactorSound
  <2>5. QED BY <2>1, <2>2, <2>3, <2>4
<1>6. QED BY <1>1, <1>4, <1>5 DEF FInv, FormsTypeOK

LEMMA ActKeeps == ASSUME FInv, NEW c \in calls, Act(c) \/ Lose(c) PROVE FInv'
BY AnswersKeep, FactorKeeps DEF Act

\* Other members' names are not a form's matter.
LEMMA OthersKeep == ASSUME FInv, OthersRename PROVE FInv'
<1>1. UNCHANGED <<page, calls, sent, edits, factor, made, paired>>
  BY DEF OthersRename
<1>2. taken' \subseteq Entries /\ claims' \in 0..MaxClaims
  <2>1. claims \in 0..MaxClaims /\ taken \subseteq Entries /\ MaxClaims \in Nat
    BY FormsAssumption DEF FInv, FormsTypeOK
  <2>2. claims < MaxClaims /\ claims' = claims + 1
    BY DEF OthersRename
  <2>3. \E e \in Entries : taken' \subseteq taken \cup {e}
    BY DEF OthersRename
  <2>4. QED BY <2>1, <2>2, <2>3
<1>3. \A t \in Tabs : TabSound(t)'
  <2>1. SUFFICES ASSUME NEW t \in Tabs PROVE TabSound(t)'
    OBVIOUS
  <2>2. TabSound(t) /\ Running(t)' = Running(t)
    BY <1>1 DEF FInv, Running
  <2>3. QED BY <1>1, <2>2 DEF TabSound
<1>4. QED BY <1>1, <1>2, <1>3 DEF FInv, FormsTypeOK, FactorSound

-----------------------------------------------------------------------------
(* Answers that arrive *)

\* A form that runs a request is still there, and off because of it.
LEMMA CallKnown ==
    ASSUME FInv, NEW c \in calls
    PROVE  /\ c \in CallRecord /\ c.tab \in Tabs /\ page[c.tab] \in PageRecord
           /\ StepSound(page[c.tab]) /\ NameSound(page[c.tab]) /\ CallFits(c, page[c.tab])
           /\ c.path # "available" =>
                /\ ~page[c.tab].left /\ page[c.tab].step # "shrink"
                /\ c.path = "status" <=> page[c.tab].step = "asking"
<1>1. c \in CallRecord /\ c.tab \in Tabs /\ TabSound(c.tab)
  BY DEF FInv, FormsTypeOK, CallRecord
<1>2. CallFits(c, page[c.tab])
  BY <1>1 DEF TabSound
<1>3. c.path # "available" => Expects(page[c.tab])
  BY <1>1 DEF TabSound, Running
<1>4. page[c.tab] \in PageRecord /\ StepSound(page[c.tab]) /\ NameSound(page[c.tab])
  BY <1>1, PageKnown
<1>5. QED BY <1>1, <1>2, <1>3, <1>4 DEF Expects, CallFits, StepSound

LEMMA ArrivalKeeps ==
    ASSUME FInv, NEW c \in calls, NEW q, calls' = calls \ {c}, Show(c.tab, q),
           UNCHANGED <<sent, edits, server>>,
           c.path # "available", Moves(page[c.tab], q), ~Expects(q)
    PROVE  FInv'
<1>1. page' \in [Tabs -> PageRecord] /\ \A u \in Tabs : TabSound(u)'
  BY Ended
<1>2. calls' \subseteq CallRecord
  BY DEF FInv, FormsTypeOK
<1>3. QED BY <1>1, <1>2 DEF FInv, FormsTypeOK, FactorSound, server

\* The form is free again, at another of its steps perhaps.
LEMMA FreedKeeps ==
    ASSUME FInv, NEW c \in calls, NEW q \in PageRecord, calls' = calls \ {c}, Show(c.tab, q),
           UNCHANGED <<sent, edits, server>>, c.path # "available",
           SameName(page[c.tab], q), StepSound(q), ~Expects(q)
    PROVE  FInv'
<1> DEFINE p == page[c.tab]
<1>1. p \in PageRecord /\ NameSound(p) /\ ~p.left
  BY CallKnown
<1>2. Moves(p, q)
  BY <1>1, NameStays DEF SameName
<1>3. QED BY <1>2, ArrivalKeeps

LEMMA FreePage ==
    ASSUME NEW p \in PageRecord, NEW q, q = Free(p)
    PROVE  /\ q \in PageRecord /\ SameName(p, q) /\ q.busy = FALSE
           /\ q.step = p.step /\ q.left = p.left /\ q.secret = p.secret /\ q.codes = p.codes
BY DEF PageRecord, SameName, Free

LEMMA SameNames ==
    ASSUME NEW p, NEW q, NEW r, SameName(p, q), SameName(q, r)
    PROVE  SameName(p, r)
BY DEF SameName

\* It is free where it stands.
LEMMA FreeKeeps ==
    ASSUME FInv, NEW c \in calls, NEW answers, Receive(c, c.path, answers, Free(page[c.tab])),
           c.path \notin {"available", "status"}
    PROVE  FInv'
<1> DEFINE p == page[c.tab]
           q == Free(p)
<1>1. /\ p \in PageRecord /\ StepSound(p) /\ ~p.left /\ p.step \notin {"shrink", "asking"}
      /\ calls' = calls \ {c} /\ Show(c.tab, q) /\ UNCHANGED <<sent, edits, server>>
  BY CallKnown DEF Receive
<1>2. /\ q \in PageRecord /\ SameName(p, q) /\ q.busy = FALSE
      /\ q.step = p.step /\ q.left = p.left /\ q.secret = p.secret /\ q.codes = p.codes
  BY <1>1, FreePage
<1> HIDE DEF q
<1>3. StepSound(q) /\ ~Expects(q)
  BY <1>1, <1>2 DEF StepSound, SameName, Expects
<1>4. QED BY <1>1, <1>2, <1>3, FreedKeeps

\* The browser goes to another page.
LEMMA LeftKeeps ==
    ASSUME FInv, NEW c \in calls, NEW answers, Receive(c, c.path, answers, Left(page[c.tab])),
           c.path # "available"
    PROVE  FInv'
<1> DEFINE p == page[c.tab]
           q == Left(p)
<1>1. /\ p \in PageRecord /\ StepSound(p)
      /\ calls' = calls \ {c} /\ Show(c.tab, q) /\ UNCHANGED <<sent, edits, server>>
  BY CallKnown DEF Receive
<1>2. /\ q \in PageRecord /\ SameName(p, q) /\ q.left
      /\ q.step = p.step /\ q.busy = p.busy /\ q.secret = p.secret /\ q.codes = p.codes
  BY <1>1, GonePage
<1> HIDE DEF q
<1>3. StepSound(q) /\ ~Expects(q)
  BY <1>1, <1>2 DEF StepSound, SameName, Expects
<1>4. QED BY <1>1, <1>2, <1>3, FreedKeeps

\* It is free, at a step that the form it is has.
LEMMA FreeStepKeeps ==
    ASSUME FInv, NEW c \in calls, NEW answers, NEW s \in {"dead", "code", "fill"},
           Receive(c, c.path, answers, [Free(page[c.tab]) EXCEPT !.step = s]),
           c.path # "available",
           s = "dead" => page[c.tab].form \in {"verify", "two-factor"},
           s = "fill" => page[c.tab].form # "checkpoint"
    PROVE  FInv'
<1> DEFINE p == page[c.tab]
           r == Free(p)
           q == [r EXCEPT !.step = s]
<1>1. /\ p \in PageRecord /\ StepSound(p) /\ ~p.left /\ p.step # "shrink"
      /\ calls' = calls \ {c} /\ Show(c.tab, q) /\ UNCHANGED <<sent, edits, server>>
  BY CallKnown DEF Receive
<1>2. /\ r \in PageRecord /\ SameName(p, r) /\ r.busy = FALSE
      /\ r.step = p.step /\ r.left = p.left /\ r.secret = p.secret /\ r.codes = p.codes
  BY <1>1, FreePage
<1>3. s \in StepNames /\ q = [r EXCEPT !.step = s]
  BY DEF StepNames
<1> HIDE DEF r, q
<1>4. /\ q \in PageRecord /\ SameName(r, q) /\ q.step = s
      /\ q.busy = r.busy /\ q.left = r.left /\ q.secret = r.secret /\ q.codes = r.codes
  BY <1>2, <1>3, StepPage
<1>5. SameName(p, q)
  BY <1>2, <1>4, SameNames
<1>6. StepSound(q) /\ ~Expects(q)
  BY <1>1, <1>2, <1>4, <1>5 DEF StepSound, SameName, Expects
<1>7. QED BY <1>1, <1>4, <1>5, <1>6, FreedKeeps

\* A new form takes its place.
LEMMA FreshKeeps ==
    ASSUME FInv, NEW c \in calls, NEW answers, NEW form \in FormNames, NEW s \in StepNames,
           Receive(c, c.path, answers, [Fresh(form) EXCEPT !.step = s]),
           c.path # "available", page[c.tab].form \notin Profile,
           s \in {"loading", "asking"} => form = "verify",
           s \notin {"asking", "dead", "shrink"}
    PROVE  FInv'
<1> DEFINE p == page[c.tab]
           r == Fresh(form)
           q == [r EXCEPT !.step = s]
<1>1. /\ p \in PageRecord /\ calls' = calls \ {c} /\ Show(c.tab, q) /\ UNCHANGED <<sent, edits, server>>
  BY CallKnown DEF Receive
<1>2. /\ r \in PageRecord /\ r.form = form /\ ~r.left /\ ~r.busy
      /\ r.hint = "idle" /\ ~r.timer /\ r.about = Blank /\ r.secret = 0
  BY FreshPage
<1>3. q = [r EXCEPT !.step = s]
  OBVIOUS
<1> HIDE DEF r, q, p
<1>4. /\ q \in PageRecord /\ SameName(r, q) /\ q.step = s
      /\ q.busy = r.busy /\ q.left = r.left /\ q.secret = r.secret /\ q.codes = r.codes
  BY <1>2, <1>3, StepPage
<1>5. StepSound(q) /\ ~Expects(q)
  BY <1>2, <1>4 DEF StepSound, SameName, Expects
<1>6. q.hint = "idle" /\ ~q.timer /\ q.about = Blank
  BY <1>2, <1>4 DEF SameName
<1>7. Moves(p, q)
  BY <1>1, <1>4, <1>5, <1>6, FreshMoves DEF p
<1>8. QED BY <1>1, <1>5, <1>7, ArrivalKeeps DEF p

\* two-factor: to a step of the settings, with a secret and codes that go together.
LEMMA GoKeeps ==
    ASSUME FInv, NEW c \in calls, NEW answers, NEW s \in {"scan", "showing", "idle"},
           NEW k \in Numbers, NEW m \in Numbers,
           Receive(c, c.path, answers, Go(Free(page[c.tab]), s, k, m)),
           c.path # "available", k # 0 => m = k
    PROVE  FInv'
<1> DEFINE p == page[c.tab]
           r == Free(p)
           q == Go(r, s, k, m)
<1>1. /\ p \in PageRecord /\ calls' = calls \ {c} /\ Show(c.tab, q) /\ UNCHANGED <<sent, edits, server>>
  BY CallKnown DEF Receive
<1>2. /\ r \in PageRecord /\ SameName(p, r) /\ r.busy = FALSE
      /\ r.step = p.step /\ r.left = p.left /\ r.secret = p.secret /\ r.codes = p.codes
  BY <1>1, FreePage
<1>3. s \in StepNames /\ q = Go(r, s, k, m)
  BY DEF StepNames
<1> HIDE DEF r, q
<1>4. /\ q \in PageRecord /\ SameName(r, q) /\ q.step = s /\ q.secret = k /\ q.codes = m
      /\ q.busy = r.busy /\ q.left = r.left
  BY <1>2, <1>3, GoPage
<1>5. SameName(p, q)
  BY <1>2, <1>4, SameNames
<1>6. StepSound(q) /\ ~Expects(q)
  BY <1>2, <1>4 DEF StepSound, Expects
<1>7. QED BY <1>1, <1>4, <1>5, <1>6, FreedKeeps

\* Whose answer it is.
LEMMA AskedByIts ==
    ASSUME FInv, NEW c \in calls
    PROVE  /\ c.path \in OneButton => page[c.tab].form = c.path
           /\ c.path \in {"status", "verify", "resend"} => page[c.tab].form = "verify"
           /\ c.path = "second" => page[c.tab].form = "two-factor"
           /\ c.path \in {"start", "change"} => page[c.tab].form = "email"
           /\ c.path = "avatar" => page[c.tab].form = "avatar"
           /\ c.path \in {"available", "save"} => page[c.tab].form \in Profile
           /\ c.path = "checkpoint" => page[c.tab].form = "checkpoint"
           /\ c.path \in FactorPaths => page[c.tab].form = "factor"
BY CallKnown DEF CallFits, AskedBy

LEMMA BecomesForm ==
    ASSUME NEW path \in OneButton
    PROVE  /\ Becomes[path][1] \in FormNames /\ Becomes[path][2] \in StepNames \cup {"left"}
           /\ Becomes[path][2] = "loading" => Becomes[path][1] = "verify"
           /\ Becomes[path][2] \notin {"asking", "dead", "shrink"}
BY OneButtonIs DEF Becomes, SignInForm, SignUpForm, ForgotPasswordForm, ResetPasswordForm, PasswordForm,
   DeleteForm, DevicesList, DiscordConnection, LessonActions, FormNames, StepNames

LEMMA ButtonAnswerKeeps == ASSUME FInv, NEW c \in calls, ButtonAnswered(c) PROVE FInv'
<1> DEFINE p == page[c.tab]
           form == Becomes[c.path][1]
           s == Becomes[c.path][2]
<1>1. c.path \in OneButton /\ c.path \notin {"available", "status"}
  BY OneButtonIs DEF ButtonAnswered
<1>2. p.form \notin Profile
  BY <1>1, AskedByIts, OneButtonIs DEF Profile
<1>3. /\ form \in FormNames /\ s \in StepNames \cup {"left"}
      /\ s = "loading" => form = "verify"
      /\ s \notin {"asking", "dead", "shrink"}
  BY <1>1, BecomesForm
<1>4. \/ Receive(c, c.path, {"ok"}, Left(p))
      \/ s # "left" /\ Receive(c, c.path, {"ok"}, [Fresh(form) EXCEPT !.step = s])
      \/ Receive(c, c.path, {"code"}, Fresh("two-factor"))
      \/ Receive(c, c.path, Failed, Free(p))
  BY DEF ButtonAnswered, AfterRefusal
<1>5. CASE Receive(c, c.path, {"ok"}, Left(p))
  BY <1>1, <1>5, LeftKeeps
<1>6. CASE s # "left" /\ Receive(c, c.path, {"ok"}, [Fresh(form) EXCEPT !.step = s])
  <2> HIDE DEF form, s
  <2>1. s \in StepNames /\ (s \in {"loading", "asking"} => form = "verify")
    BY <1>3, <1>6
  <2>2. QED BY <1>1, <1>2, <1>3, <1>6, <2>1, FreshKeeps
<1>7. CASE Receive(c, c.path, {"code"}, Fresh("two-factor"))
  <2>1. Fresh("two-factor") = [Fresh("two-factor") EXCEPT !.step = "app"]
    <3>1. Fresh("two-factor") \in PageRecord /\ Fresh("two-factor").step = "app"
      BY FreshPage DEF FormNames, FirstStep
    <3>2. \A r \in PageRecord : [r EXCEPT !.step = r.step] = r
      BY DEF PageRecord
    <3>3. QED BY <3>1, <3>2
  <2>2. Receive(c, c.path, {"code"}, [Fresh("two-factor") EXCEPT !.step = "app"])
    BY <1>7, <2>1
  <2>3. "two-factor" \in FormNames /\ "app" \in StepNames
    BY DEF FormNames, StepNames
  <2>4. QED BY <1>1, <1>2, <2>2, <2>3, FreshKeeps
<1>8. CASE Receive(c, c.path, Failed, Free(p))
  BY <1>1, <1>8, FreeKeeps
<1>9. QED BY <1>4, <1>5, <1>6, <1>7, <1>8

LEMMA CodeAnswerKeeps == ASSUME FInv, NEW c \in calls, CodeAnswered(c) PROVE FInv'
<1> DEFINE p == page[c.tab]
<1>1. CASE Receive(c, "status", {"ok"}, [p EXCEPT !.step = "fill"])
  <2> DEFINE q == [p EXCEPT !.step = "fill"]
  <2>1. /\ c.path = "status" /\ calls' = calls \ {c} /\ Show(c.tab, q) /\ UNCHANGED <<sent, edits, server>>
    BY <1>1 DEF Receive
  <2>2. p \in PageRecord /\ StepSound(p) /\ p.step = "asking" /\ p.form = "verify" /\ ~p.busy
    BY <2>1, CallKnown, AskedByIts DEF StepSound
  <2>3. "fill" \in StepNames /\ q = [p EXCEPT !.step = "fill"]
    BY DEF StepNames
  <2> HIDE DEF q
  <2>4. /\ q \in PageRecord /\ SameName(p, q) /\ q.step = "fill"
        /\ q.busy = p.busy /\ q.left = p.left /\ q.secret = p.secret /\ q.codes = p.codes
    BY <2>2, <2>3, StepPage
  <2>5. StepSound(q) /\ ~Expects(q)
    BY <2>2, <2>4 DEF StepSound, SameName, Expects
  <2>6. QED BY <2>1, <2>4, <2>5, FreedKeeps
<1>2. CASE c.path \in CodePaths /\ \E answers : Receive(c, c.path, answers, [Free(p) EXCEPT !.step = "dead"])
  <2>1. p.form \in {"verify", "two-factor"} /\ c.path # "available"
    BY <1>2, AskedByIts DEF CodePaths
  <2>2. PICK answers : Receive(c, c.path, answers, [Free(p) EXCEPT !.step = "dead"])
    BY <1>2
  <2>3. QED BY <2>1, <2>2, FreeStepKeeps
<1>3. CASE c.path \in {"verify", "second"} /\ Receive(c, c.path, {"ok"}, Left(p))
  BY <1>3, LeftKeeps
<1>4. CASE c.path \in {"verify", "resend", "second"} /\ \E answers : Receive(c, c.path, answers, Free(p))
  BY <1>4, FreeKeeps
<1>5. \/ Receive(c, "status", {"ok"}, [p EXCEPT !.step = "fill"])
      \/ c.path \in CodePaths /\ \E answers : Receive(c, c.path, answers, [Free(p) EXCEPT !.step = "dead"])
      \/ c.path \in {"verify", "second"} /\ Receive(c, c.path, {"ok"}, Left(p))
      \/ c.path \in {"verify", "resend", "second"} /\ \E answers : Receive(c, c.path, answers, Free(p))
  <2>1. CASE Receive(c, "status", {"ok"}, [p EXCEPT !.step = "fill"])
    BY <2>1
  <2>2. CASE Receive(c, "status", Failed, [Free(p) EXCEPT !.step = "dead"])
    <3>1. c.path = "status"
      BY <2>2 DEF Receive
    <3>2. QED BY <2>2, <3>1 DEF CodePaths
  <2>3. CASE c.path \in {"verify", "second"} /\ Receive(c, c.path, {"ok"}, Left(p))
    BY <2>3
  <2>4. CASE Receive(c, "resend", {"ok"}, Free(p))
    <3>1. c.path = "resend"
      BY <2>4 DEF Receive
    <3>2. QED BY <2>4, <3>1
  <2>5. CASE c.path \in {"verify", "resend", "second"} /\ Receive(c, c.path, {"dead"}, [Free(p) EXCEPT !.step = "dead"])
    BY <2>5 DEF CodePaths
  <2>6. CASE c.path \in {"verify", "resend", "second"} /\ Receive(c, c.path, {"no", "down"}, Free(p))
    BY <2>6
  <2>7. QED BY <2>1, <2>2, <2>3, <2>4, <2>5, <2>6 DEF CodeAnswered, AfterRefusal
<1>6. QED BY <1>1, <1>2, <1>3, <1>4, <1>5

LEMMA SettingAnswerKeeps == ASSUME FInv, NEW c \in calls, SettingAnswered(c) PROVE FInv'
<1> DEFINE p == page[c.tab]
<1>1. CASE Receive(c, "start", {"ok"}, [Free(p) EXCEPT !.step = "code"])
  <2>1. c.path = "start"
    BY <1>1 DEF Receive
  <2>2. QED BY <1>1, <2>1, FreeStepKeeps
<1>2. CASE Receive(c, "change", {"ok"}, [Free(p) EXCEPT !.step = "fill", !.field = Blank])
  <2> DEFINE r == Free(p)
             q == [r EXCEPT !.step = "fill", !.field = Blank]
  <2>1. /\ c.path = "change" /\ calls' = calls \ {c} /\ Show(c.tab, q) /\ UNCHANGED <<sent, edits, server>>
    BY <1>2 DEF Receive
  <2>2. /\ p \in PageRecord /\ p.form = "email" /\ StepSound(p) /\ NameSound(p)
    BY <2>1, CallKnown, AskedByIts
  <2>3. /\ r \in PageRecord /\ SameName(p, r) /\ r.busy = FALSE
        /\ r.step = p.step /\ r.left = p.left /\ r.secret = p.secret /\ r.codes = p.codes
    BY <2>2, FreePage
  <2> HIDE DEF r
  <2>4. /\ q \in PageRecord /\ q.form = r.form /\ q.step = "fill" /\ q.left = r.left /\ q.busy = r.busy
        /\ q.secret = r.secret /\ q.codes = r.codes /\ q.hint = r.hint /\ q.asked = r.asked
        /\ q.timer = r.timer /\ q.about = r.about
    BY <2>3 DEF PageRecord, StepNames
  <2> HIDE DEF q, p
  <2>5. q.form = "email" /\ ~q.timer /\ q.about = Blank /\ q.hint = p.hint /\ q.asked = p.asked /\ ~q.busy
    BY <2>2, <2>3, <2>4 DEF SameName, NameSound, Profile
  <2>6. StepSound(q) /\ NameSound(q) /\ ~Expects(q)
    BY <2>2, <2>3, <2>4, <2>5 DEF StepSound, NameSound, Expects
  <2>7. \A d \in CallRecord : d.path = "available" => ~CallFits(d, p)
    BY <2>2, HintFits DEF Profile
  <2>8. ~p.left
    BY <2>1, CallKnown DEF p
  <2>9. Moves(p, q)
    BY <2>4, <2>5, <2>6, <2>7, <2>8 DEF Moves
  <2>10. QED BY <2>1, <2>6, <2>9, ArrivalKeeps DEF p
<1>3. CASE Receive(c, "change", {"dead"}, [Free(p) EXCEPT !.step = "fill"])
  <2>1. c.path = "change"
    BY <1>3 DEF Receive
  <2>2. p.form = "email"
    BY <2>1, AskedByIts
  <2>3. QED BY <1>3, <2>1, <2>2, FreeStepKeeps
<1>4. CASE Receive(c, "avatar", {"ok"}, Free(p))
  <2>1. c.path = "avatar"
    BY <1>4 DEF Receive
  <2>2. QED BY <1>4, <2>1, FreeKeeps
<1>5. CASE c.path \in SettingPaths /\ Receive(c, c.path, {"no", "down"}, Free(p))
  BY <1>5, FreeKeeps DEF SettingPaths
<1>6. QED BY <1>1, <1>2, <1>3, <1>4, <1>5 DEF SettingAnswered, AfterRefusal

\* The codes shown once two-factor is on are those the form held when it sent the code.
LEMMA FactorAnswerKeeps == ASSUME FInv, NEW c \in calls, FactorAnswered(c) PROVE FInv'
<1> DEFINE p == page[c.tab]
<1>0. p \in PageRecord /\ StepSound(p) /\ c \in CallRecord /\ CallFits(c, p) /\ 0 \in Numbers
  BY CallKnown, NumbersAre
<1>1. CASE Receive(c, "enable", {"ok"}, Go(Free(p), "scan", c.data, c.data))
  <2>1. c.path = "enable" /\ c.data \in Numbers
    BY <1>0, <1>1 DEF Receive, CallRecord
  <2>2. QED BY <1>1, <2>1, GoKeeps
<1>2. CASE Receive(c, "codes", {"ok"}, Go(Free(p), "showing", 0, c.data))
  <2>1. c.path = "codes" /\ c.data \in Numbers
    BY <1>0, <1>2 DEF Receive, CallRecord
  <2>2. QED BY <1>0, <1>2, <2>1, GoKeeps
<1>3. CASE Receive(c, "disable", {"ok"}, Go(Free(p), "idle", 0, 0))
  <2>1. c.path = "disable"
    BY <1>3 DEF Receive
  <2>2. QED BY <1>0, <1>3, <2>1, GoKeeps
<1>4. CASE Receive(c, "confirm", {"ok"}, Go(Free(p), "showing", p.secret, c.held))
  <2>1. c.path = "confirm"
    BY <1>4 DEF Receive
  <2>2. c.held = p.codes /\ p.codes \in Numbers /\ p.secret \in Numbers
    BY <1>0, <2>1 DEF CallFits, PageRecord
  <2>3. p.secret # 0 => c.held = p.secret
    BY <1>0, <2>2 DEF StepSound
  <2>4. QED BY <1>4, <2>1, <2>2, <2>3, GoKeeps
<1>5. CASE c.path \in FactorPaths /\ Receive(c, c.path, Failed, Free(p))
  BY <1>5, FreeKeeps DEF FactorPaths, Purposes
<1>6. QED BY <1>1, <1>2, <1>3, <1>4, <1>5 DEF FactorAnswered

\* What the last question was about is what is in the field; an older answer changes nothing.
LEMMA HintArrives ==
    ASSUME FInv, NEW c \in calls,
           Receive(c, "available", {"free", "taken"} \cup Failed, Hinted(page[c.tab], c))
    PROVE  FInv'
<1> DEFINE t == c.tab
           p == page[c.tab]
           q == Hinted(p, c)
<1>0. /\ p \in PageRecord /\ StepSound(p) /\ NameSound(p) /\ CallFits(c, p) /\ t \in Tabs
      /\ \A u \in Tabs : TabSound(u)
      /\ page \in [Tabs -> PageRecord] /\ calls \subseteq CallRecord
  BY CallKnown DEF FInv, FormsTypeOK
<1>1. /\ c.path = "available" /\ calls' = calls \ {c} /\ page' = [page EXCEPT ![t] = q]
      /\ UNCHANGED <<sent, edits, server>>
  BY DEF Receive, Show
<1>2. \A u \in Tabs : Running(u)' = Running(u)
  BY <1>1 DEF Running
<1>3. ASSUME NEW u \in Tabs PROVE Expects(page[u]) => \E e \in calls' : Running(u) = {e}
  <2>1. SUFFICES ASSUME Expects(page[u]) PROVE \E e \in calls' : Running(u) = {e}
    OBVIOUS
  <2>2. PICK e \in calls : Running(u) = {e}
    BY <1>0, <2>1 DEF TabSound
  <2>3. e.path # "available"
    BY <2>2 DEF Running
  <2>4. QED BY <1>1, <2>2, <2>3
<1>4. /\ q \in PageRecord /\ q.form = p.form /\ q.step = p.step /\ q.left = p.left /\ q.busy = p.busy
      /\ q.field = p.field /\ q.current = p.current /\ q.locked = p.locked /\ q.asked = p.asked
      /\ q.timer = p.timer /\ q.secret = p.secret /\ q.codes = p.codes
      /\ c.held # p.asked => q = p
      /\ c.held = p.asked => q.hint # "checking" /\ q.about \in {c.of, Blank}
  <2>1. c.of \in Entries \cup {Blank}
    BY <1>0, <1>1 DEF CallFits
  <2>2. CASE c.held # p.asked
    BY <1>0, <2>2 DEF Hinted, Latest
  <2>3. CASE c.held = p.asked /\ c.answer \in {"free", "taken"}
    <3>1. q = [p EXCEPT !.hint = c.answer, !.about = c.of]
      BY <2>3 DEF Hinted, Latest
    <3> HIDE DEF p, q
    <3>2. QED BY <1>0, <2>1, <2>3, <3>1 DEF PageRecord
  <2>4. CASE c.held = p.asked /\ c.answer \notin {"free", "taken"}
    <3>1. q = [p EXCEPT !.hint = "unknown", !.about = Blank]
      BY <2>4 DEF Hinted, Latest
    <3> HIDE DEF p, q
    <3>2. QED BY <1>0, <2>4, <3>1 DEF PageRecord
  <2>5. QED BY <2>2, <2>3, <2>4
<1> HIDE DEF q
<1>5. page' \in [Tabs -> PageRecord] /\ page'[t] = q /\ \A u \in Tabs \ {t} : page'[u] = page[u]
  BY <1>0, <1>1, <1>4
<1>6. ASSUME NEW u \in Tabs \ {t} PROVE TabSound(u)'
  <2>1. page[u].hint = "checking" /\ ~page[u].left =>
          \E e \in calls' : e.tab = u /\ e.path = "available" /\ e.held = page[u].asked
    BY <1>0, <1>1 DEF TabSound
  <2>2. \A e \in calls' : e.tab = u => CallFits(e, page[u])
    BY <1>0, <1>1 DEF TabSound
  <2>3. QED BY <1>0, <1>2, <1>3, <1>5, <2>1, <2>2 DEF TabSound
<1>7. TabSound(t)'
  <2>1. Candidate(q) = Candidate(p)
    BY <1>4 DEF Candidate
  <2>2. StepSound(q) /\ NameSound(q)
    <3>1. CASE c.held # p.asked
      BY <1>0, <1>4, <3>1
    <3>2. CASE c.held = p.asked
      <4>1. c.of = p.field /\ p.form \in Profile
        BY <1>0, <1>1, <3>2, HintFits DEF Candidate
      <4>2. NameSound(q)
        BY <1>0, <1>4, <2>1, <3>2, <4>1 DEF NameSound
      <4>3. StepSound(q)
        BY <1>0, <1>4, <4>1 DEF StepSound, Profile
      <4>4. QED BY <4>2, <4>3
    <3>3. QED BY <3>1, <3>2
  <2>3. ASSUME NEW e \in calls', e.tab = t PROVE CallFits(e, q)
    <3>1. CallFits(e, p)
      BY <1>0, <1>1, <2>3 DEF TabSound
    <3>2. QED BY <1>4, <2>1, <3>1 DEF CallFits
  <2>4. Expects(q) <=> Expects(p)
    BY <1>4 DEF Expects
  <2>5. (Expects(q) => \E e \in calls' : Running(t) = {e}) /\ (~Expects(q) => Running(t) = {})
    BY <1>0, <1>3, <2>4 DEF TabSound
  <2>6. q.hint = "checking" /\ ~q.left =>
          \E e \in calls' : e.tab = t /\ e.path = "available" /\ e.held = q.asked
    <3>1. SUFFICES ASSUME q.hint = "checking", ~q.left, c.held # p.asked
                   PROVE  \E e \in calls' : e.tab = t /\ e.path = "available" /\ e.held = q.asked
      BY <1>4
    <3>2. PICK e \in calls : e.tab = t /\ e.path = "available" /\ e.held = p.asked
      BY <1>0, <1>4, <3>1 DEF TabSound
    <3>3. QED BY <1>1, <1>4, <3>1, <3>2
  <2>7. page'[t] = q /\ Running(t)' = Running(t)
    BY <1>0, <1>2, <1>5
  <2> HIDE DEF p, t
  <2>8. (Expects(q) => \E e \in calls' : Running(t)' = {e}) /\ (~Expects(q) => Running(t)' = {})
    BY <2>5, <2>7
  <2>9. QED BY <2>2, <2>3, <2>6, <2>7, <2>8 DEF TabSound
<1>8. QED BY <1>0, <1>1, <1>5, <1>6, <1>7 DEF FInv, FormsTypeOK, FactorSound, server

\* A name that was saved is the current one, and no question about it is open.
LEMMA SavedKeeps ==
    ASSUME FInv, NEW c \in calls, NEW locked \in BOOLEAN,
           Receive(c, "save", {"ok"}, Saved(page[c.tab], c, locked))
    PROVE  FInv'
<1> DEFINE p == page[c.tab]
           r == Free(p)
           of == c.of
           q0 == [r EXCEPT !.current = of, !.field = of, !.hint = "idle", !.about = Blank, !.locked = locked]
           q == Effect(p, q0)
<1>1. c.path = "save" /\ calls' = calls \ {c} /\ Show(c.tab, q) /\ UNCHANGED <<sent, edits, server>>
  BY DEF Receive, Saved
<1>2. /\ p \in PageRecord /\ StepSound(p) /\ NameSound(p) /\ p.form \in Profile
      /\ p.step # "asking" /\ of \in Entries \cup {Blank}
  BY <1>1, CallKnown, AskedByIts DEF CallFits
<1>3. /\ r \in PageRecord /\ SameName(p, r) /\ r.busy = FALSE
      /\ r.step = p.step /\ r.left = p.left /\ r.secret = p.secret /\ r.codes = p.codes
  BY <1>2, FreePage
<1> HIDE DEF r, of
<1>4. /\ q0 \in PageRecord /\ q0.form = r.form /\ q0.step = r.step /\ q0.left = r.left
      /\ q0.busy = r.busy /\ q0.secret = r.secret /\ q0.codes = r.codes /\ q0.asked = r.asked
      /\ q0.timer = r.timer /\ q0.hint = "idle" /\ q0.about = Blank
  BY <1>2, <1>3 DEF PageRecord
<1> HIDE DEF q0
<1>5. q0.form = p.form /\ q0.asked = p.asked /\ q0.timer = p.timer /\ q0.step = p.step
  BY <1>3, <1>4 DEF SameName
<1>6. StepSound(q0)
  BY <1>2, <1>3, <1>4, <1>5 DEF StepSound, Profile
<1>7. Moves(p, q) /\ q.step = q0.step /\ q.busy = q0.busy
  BY <1>2, <1>4, <1>5, <1>6, EffectMoves
<1>8. ~Expects(q)
  BY <1>2, <1>3, <1>4, <1>5, <1>7 DEF Expects
<1>9. QED BY <1>1, <1>7, <1>8, ArrivalKeeps

LEMMA ProfileAnswerKeeps == ASSUME FInv, NEW c \in calls, ProfileAnswered(c) PROVE FInv'
<1> DEFINE p == page[c.tab]
<1>1. CASE Receive(c, "available", {"free", "taken"} \cup Failed, Hinted(p, c))
  BY <1>1, HintArrives
<1>2. CASE \E locked \in BOOLEAN : Receive(c, "save", {"ok"}, Saved(p, c, locked))
  BY <1>2, SavedKeeps
<1>3. CASE Receive(c, "save", {"ok"}, Left(p))
  <2>1. c.path = "save"
    BY <1>3 DEF Receive
  <2>2. QED BY <1>3, <2>1, LeftKeeps
<1>4. CASE Receive(c, "save", Failed, Free(p))
  <2>1. c.path = "save"
    BY <1>4 DEF Receive
  <2>2. QED BY <1>4, <2>1, FreeKeeps
<1>5. QED BY <1>1, <1>2, <1>3, <1>4 DEF ProfileAnswered

\* What was graded is what the form shows: it could not be changed meanwhile.
LEMMA CheckpointAnswerKeeps == ASSUME FInv, NEW c \in calls, CheckpointAnswered(c) PROVE FInv'
<1> DEFINE p == page[c.tab]
           r == Free(p)
           of == c.of
           s == c.answer
           q == [r EXCEPT !.step = s, !.about = of]
<1>1. CASE Receive(c, "checkpoint", {"passed", "failed"}, q)
  <2>1. /\ c.path = "checkpoint" /\ calls' = calls \ {c} /\ Show(c.tab, q) /\ UNCHANGED <<sent, edits, server>>
        /\ s \in {"passed", "failed"}
    BY <1>1 DEF Receive
  <2>2. /\ p \in PageRecord /\ StepSound(p) /\ NameSound(p) /\ p.form = "checkpoint" /\ ~p.left
        /\ of = p.field /\ of \in Entries \cup {Blank}
    BY <2>1, CallKnown, AskedByIts DEF CallFits
  <2>3. /\ r \in PageRecord /\ SameName(p, r) /\ r.busy = FALSE
        /\ r.step = p.step /\ r.left = p.left /\ r.secret = p.secret /\ r.codes = p.codes
    BY <2>2, FreePage
  <2>4. s \in StepNames
    BY <2>1 DEF StepNames
  <2> HIDE DEF r, of, s
  <2>5. /\ q \in PageRecord /\ q.form = r.form /\ q.step = s /\ q.left = r.left
        /\ q.busy = r.busy /\ q.secret = r.secret /\ q.codes = r.codes /\ q.asked = r.asked
        /\ q.timer = r.timer /\ q.hint = r.hint /\ q.about = of /\ q.field = r.field
    BY <2>2, <2>3, <2>4 DEF PageRecord
  <2> HIDE DEF q
  <2>6. q.form = "checkpoint" /\ q.about = q.field /\ ~q.timer /\ q.hint = p.hint /\ q.asked = p.asked /\ ~q.busy
    BY <2>2, <2>3, <2>5 DEF SameName, NameSound, Profile
  <2>7. StepSound(q) /\ NameSound(q) /\ ~Expects(q)
    BY <2>1, <2>2, <2>3, <2>5, <2>6 DEF StepSound, NameSound, Expects
  <2>8. \A d \in CallRecord : d.path = "available" => ~CallFits(d, p)
    BY <2>2, HintFits DEF Profile
  <2>9. Moves(p, q)
    BY <2>2, <2>5, <2>6, <2>7, <2>8 DEF Moves
  <2>10. QED BY <2>1, <2>7, <2>9, ArrivalKeeps
<1>2. CASE Receive(c, "checkpoint", Failed, Free(p))
  <2>1. c.path = "checkpoint"
    BY <1>2 DEF Receive
  <2>2. QED BY <1>2, <2>1, FreeKeeps
<1>3. QED BY <1>1, <1>2 DEF CheckpointAnswered

LEMMA ArriveKeeps == ASSUME FInv, NEW c \in calls, Arrive(c) PROVE FInv'
BY ButtonAnswerKeeps, CodeAnswerKeeps, SettingAnswerKeeps, ProfileAnswerKeeps, CheckpointAnswerKeeps,
   FactorAnswerKeeps DEF Arrive

-----------------------------------------------------------------------------
(* The invariant *)

LEMMA FormsStart == FormsInit => FInv
<1> SUFFICES ASSUME FormsInit PROVE FInv
  OBVIOUS
<1>1. PICK opening \in [Tabs -> FormNames] : page = [t \in Tabs |-> Fresh(opening[t])]
  BY FormsAssumption DEF FormsInit
<1>2. \A form \in FormNames : Fresh(form) \in PageRecord /\ Fresh(form).hint = "idle"
  BY FreshPage
<1>3. FormsTypeOK
  <2>1. /\ 0 \in 0..MaxCalls /\ 0 \in 0..MaxEdits /\ 0 \in 0..MaxClaims /\ 0 \in Numbers
    BY FormsAssumption, NumbersAre
  <2>2. page \in [Tabs -> PageRecord] /\ calls = {}
    BY <1>1, <1>2 DEF FormsInit
  <2>3. QED BY <2>1, <2>2 DEF FormsInit, FormsTypeOK
<1>4. ASSUME NEW t \in Tabs PROVE TabSound(t)
  <2>1. opening[t] \in FormNames /\ page[t] = Fresh(opening[t]) /\ calls = {}
    BY <1>1 DEF FormsInit
  <2>2. StepSound(page[t]) /\ NameSound(page[t]) /\ ~Expects(page[t]) /\ page[t].hint = "idle"
    BY <1>2, <2>1, FreshSound
  <2>3. QED BY <2>1, <2>2 DEF TabSound, Running
<1>5. FactorSound
  BY DEF FormsInit, FactorSound
<1>6. QED BY <1>3, <1>4, <1>5 DEF FInv

LEMMA FormsStep == FInv /\ [FormsNext]_formsVars => FInv'
<1> SUFFICES ASSUME FInv, [FormsNext]_formsVars PROVE FInv'
  OBVIOUS
<1>1. CASE FormsNext
  BY <1>1, OthersKeep, ReaderKeeps, ActKeeps, ArriveKeeps DEF FormsNext
<1>2. CASE UNCHANGED formsVars
  <2>1. UNCHANGED <<page, calls, sent, edits, taken, claims, factor, made, paired>>
    BY <1>2 DEF formsVars, server
  <2>2. ASSUME NEW t \in Tabs PROVE TabSound(t)'
    <3>1. TabSound(t) /\ Running(t)' = Running(t)
      BY <2>1 DEF FInv, Running
    <3>2. QED BY <2>1, <3>1 DEF TabSound
  <2>3. QED BY <2>1, <2>2 DEF FInv, FormsTypeOK, FactorSound
<1>3. QED BY <1>1, <1>2

LEMMA FormsInvariant == FormsSpec => []FInv
BY FormsStart, FormsStep, PTL DEF FormsSpec

-----------------------------------------------------------------------------
(* Theorems *)

\* Types, of all forms and requests: a form only ever stands at one of its steps' names, and
\* every number of a secret or a set of codes is one that was made.
THEOREM FormsTypes == FormsSpec => []FormsTypeOK
<1>1. FInv => FormsTypeOK
  BY DEF FInv
<1>2. QED BY <1>1, FormsInvariant, PTL

\* No form is stuck and none sends twice, in any number of tabs and with any number of
\* requests, lost ones and refused ones included (setBusy around every authFetch).
THEOREM FormsAreAnswered == FormsSpec => []FormsAnswer
<1>1. ASSUME FInv PROVE FormsAnswer
  <2>1. SUFFICES ASSUME NEW t \in Tabs, ~page[t].left
                 PROVE  /\ Cardinality(Running(t)) =
                             IF (page[t].busy /\ page[t].step # "shrink") \/ page[t].step = "asking" THEN 1 ELSE 0
                        /\ page[t].hint = "checking" =>
                             \E c \in calls : c.tab = t /\ c.path = "available" /\ c.held = page[t].asked
    BY DEF FormsAnswer
  <2>2. TabSound(t)
    BY <1>1 DEF FInv
  <2>3. CASE Expects(page[t])
    <3>1. PICK c \in calls : Running(t) = {c}
      BY <2>2, <2>3 DEF TabSound
    <3>2. Cardinality(Running(t)) = 1
      BY <3>1, FS_Singleton
    <3>3. QED BY <2>1, <2>2, <2>3, <3>2 DEF Expects, TabSound
  <2>4. CASE ~Expects(page[t])
    <3>1. Cardinality(Running(t)) = 0
      BY <2>2, <2>4, FS_EmptySet DEF TabSound
    <3>2. QED BY <2>1, <2>2, <2>4, <3>1 DEF Expects, TabSound
  <2>5. QED BY <2>3, <2>4
<1>2. QED BY <1>1, FormsInvariant, PTL

\* What a form says is about what is in it, however the answers came back and whatever was
\* typed meanwhile (profile-form.tsx, checkpoint-form.tsx).
THEOREM ShownStaysAbout == FormsSpec => []ShownIsAbout
<1>1. ASSUME FInv PROVE ShownIsAbout
  BY <1>1 DEF FInv, TabSound, NameSound, ShownIsAbout
<1>2. QED BY <1>1, FormsInvariant, PTL

\* The codes a member saves are the ones stored, whatever other tabs do (two-factor-settings.tsx).
THEOREM CodesStayStored == FormsSpec => []CodesAreStored
<1>1. ASSUME FInv PROVE CodesAreStored
  <2>1. SUFFICES ASSUME NEW t \in Tabs, page[t].secret # 0, paired[page[t].secret] # 0
                 PROVE  page[t].codes = paired[page[t].secret]
    BY DEF CodesAreStored
  <2>2. page[t].codes = page[t].secret
    BY <1>1, <2>1 DEF FInv, TabSound, StepSound
  <2>3. page[t].secret \in Numbers
    BY <1>1, PageKnown DEF PageRecord
  <2>4. paired[page[t].secret] = page[t].secret
    BY <1>1, <2>1, <2>3 DEF FInv, FactorSound
  <2>5. QED BY <2>2, <2>4
<1>2. QED BY <1>1, FormsInvariant, PTL

=============================================================================
