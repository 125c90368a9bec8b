----------------------------- MODULE EmailProofs -----------------------------
(***************************************************************************)
(* What a pending change of an address is good for, for any number of      *)
(* members, changes and requests: five guesses, one move, and only of the  *)
(* member who asked for it to the address its code was sent to.            *)
(*                                                                         *)
(* A row is written once and then only removed, so what a request has read *)
(* of it stays true of it (RequestsSound); the transaction that consumes   *)
(* it holds it until it commits (RowsHeld); and the counter of its guesses *)
(* outlives it (GuessesKept).                                              *)
(***************************************************************************)
EXTENDS EmailChange, TLAPS, FiniteSetTheorems

Inserting == {p \in Requests : pc[p] \in {"start", "replace", "insert"}}

\* Every start that is under way has a row left to insert.
RoomLeft == issued \in Nat /\ issued + Cardinality(Inserting) <= MaxRows

Places ==
    {"idle", "start", "replace", "insert", "mail", "verify", "count", "burn", "consume", "move",
     "moved", "notify"}

HasRow == {"count", "consume", "move", "moved"}

\* What a request knows, and what it has read of its pending change, if that is still there.
RequestSound(q) ==
    /\ pc[q] \notin {"idle", "mail", "burn", "notify"} => req[q].member \in Members
    /\ pc[q] \in {"start", "replace", "insert"} => req[q].address \in Addresses
    /\ pc[q] \in {"mail", "burn"} => req[q].row \in 1..issued
    /\ pc[q] \in {"verify"} \cup HasRow => req[q].typed \in mailed \cup {Wrong}
    /\ pc[q] \in HasRow =>
         /\ req[q].row \in 1..issued /\ req[q].address \in Addresses
         /\ pending[req[q].row] # None =>
              /\ pending[req[q].row].member = req[q].member
              /\ pending[req[q].row].address = req[q].address
    /\ pc[q] \in {"consume", "move", "moved"} => req[q].typed = req[q].row

RequestsSound == \A q \in Requests : RequestSound(q)

\* A row that was not inserted yet has no history; one that is there was not used.
RowsFresh ==
    \A r \in Rows :
        /\ r > issued =>
             pending[r] = None /\ guesses[r] = None /\ judged[r] = 0 /\ spent[r] = 0
        /\ pending[r] # None => spent[r] = 0
        /\ lapses[r] <= now + TTL

\* A request that has consumed its row holds it, and it is there.
RowsHeld ==
    \A q \in Requests : pc[q] \in {"move", "moved"} =>
        rowOwner[req[q].row] = q /\ pending[req[q].row] # None

\* As long as a row may be guessed at, its guesses are on its counter, which outlives it.
GuessesKept ==
    \A r \in Rows : now < lapses[r] =>
        /\ judged[r] > 0 => guesses[r] # None /\ guesses[r].count >= judged[r]
        /\ guesses[r] # None => guesses[r].expiresAt >= lapses[r]

\* An address that is being moved to is nobody else's, and nobody else is moving to it.
AddressesReserved ==
    /\ \A m \in Members : userOwner[m] # None =>
         HasAccount(m) /\ req[userOwner[m]].member = m
    /\ \A q \in Movers :
         /\ \A l \in Members \ {req[q].member} : email[l] # req[q].address
         /\ \A p \in Movers : req[p].address = req[q].address => p = q

IInv ==
    /\ TypeOK /\ RoomLeft /\ RequestsSound /\ RowsFresh /\ RowsHeld /\ GuessesKept
    /\ GuessesBounded /\ CodeWorksOnce /\ AddressesReserved /\ EmailsUnique

-----------------------------------------------------------------------------
(* What a step may do *)

\* The steps of a request, and those of its surroundings.
Own(q) ==
    \/ \E m \in Members, a \in Addresses : Start(q, m, a)
    \/ \E m \in Members, code \in mailed \cup {Wrong} : Verify(q, m, code)
    \/ Progress(q) \/ Crash(q)

Surroundings ==
    \/ \E m \in Members : DeleteAccount(m) \/ \E a \in Addresses : Register(m, a)
    \/ Cleanup \/ Tick \/ UNCHANGED vars

LEMMA StepsAre ==
    ASSUME [Next]_vars
    PROVE  (\E q \in Requests : Own(q)) \/ Surroundings
BY DEF Next, Own, Surroundings, Horizon

\* The surroundings leave requests, locks and what was mailed alone.
LEMMA SurroundingsKeep ==
    ASSUME Surroundings
    PROVE  UNCHANGED <<pc, req, rowOwner, userOwner, issued, mailed, lapses, judged, spent>>
BY DEF Surroundings, DeleteAccount, Register, Cleanup, Tick, vars, tables, locks, history

\* A request's step is a step of that request alone: the others stand where they stood and
\* know what they knew.
LEMMA OthersKnow ==
    ASSUME TypeOK, NEW q \in Requests, Own(q), NEW p \in Requests \ {q}
    PROVE  pc'[p] = pc[p] /\ req'[p] = req[p]
<1>0. pc \in [Requests -> Places] /\ req \in [Requests -> RequestRecord]
  BY DEF TypeOK, Places
<1>1. CASE (\E m \in Members, a \in Addresses : Start(q, m, a))
             \/ (\E m \in Members, code \in mailed \cup {Wrong} : Verify(q, m, code))
  <2>1. Step(q, "start") \/ Step(q, "verify")
    BY <1>1 DEF Start, Verify
  <2>2. \E x : req' = [req EXCEPT ![q] = x]
    BY <1>1 DEF Start, Verify
  <2>3. QED BY <1>0, <2>1, <2>2 DEF Step
<1>2. CASE LookUp(q)
  <2>1. req'[p] = req[p]
    BY <1>0, <1>2 DEF LookUp
  <2>2. QED BY <1>0, <1>2, <2>1 DEF LookUp, Step
<1>3. CASE Replace(q)
  <2>1. req'[p] = req[p]
    BY <1>0, <1>3 DEF Replace
  <2>2. QED BY <1>0, <1>3, <2>1 DEF Replace, Step
<1>4. CASE ReplaceNext(q)
  <2>1. req'[p] = req[p]
    BY <1>0, <1>4 DEF ReplaceNext
  <2>2. QED BY <1>4, <2>1 DEF ReplaceNext
<1>5. CASE Insert(q)
  <2>1. req'[p] = req[p]
    BY <1>0, <1>5 DEF Insert, Keep
  <2>2. QED BY <1>0, <1>5, <2>1 DEF Insert, Step
<1>6. CASE Find(q)
  <2>1. CASE Answer(q)
    BY <1>0, <2>1 DEF Answer, Step
  <2>2. CASE ~Answer(q)
    <3>1. PICK r \in Live(req[q].member) :
            /\ req' = [req EXCEPT ![q].row = r, ![q].address = pending[r].address,
                                  ![q].coded = pending[r].coded]
            /\ Step(q, "count")
      BY <1>6, <2>2 DEF Find
    <3>2. req'[p] = req[p]
      BY <1>0, <3>1
    <3>3. QED BY <1>0, <3>1, <3>2 DEF Step
  <2>3. QED BY <2>1, <2>2
<1>7. CASE Count(q)
  <2>1. \/ Answer(q)
        \/ /\ req' = req \/ Keep(q, req[q].row, FALSE)
           /\ \E at \in {"burn", "consume"} : Step(q, at)
    BY <1>7 DEF Count
  <2>2. QED BY <1>0, <2>1 DEF Answer, Keep, Step
<1>8. CASE Consume(q)
  <2>1. Answer(q) \/ (req' = req /\ Step(q, "move"))
    BY <1>8 DEF Consume
  <2>2. QED BY <1>0, <2>1 DEF Answer, Step
<1>9. CASE Move(q) \/ Commit(q)
  BY <1>0, <1>9 DEF Move, Commit, Step
<1>10. CASE Mail(q) \/ Burn(q) \/ Notify(q) \/ MoveRefused(q) \/ Crash(q)
  <2>1. Answer(q)
    BY <1>10 DEF Mail, Burn, Notify, MoveRefused, Crash
  <2>2. QED BY <1>0, <2>1 DEF Answer, Step
<1>11. QED
  BY <1>1, <1>2, <1>3, <1>4, <1>5, <1>6, <1>7, <1>8, <1>9, <1>10 DEF Own, Progress

\* It takes locks that are free and gives back its own.
LEMMA LocksMove ==
    ASSUME TypeOK, NEW q \in Requests, Own(q)
    PROVE  /\ now' = now
           /\ \A r \in Rows :
                \/ rowOwner'[r] = rowOwner[r]
                \/ rowOwner[r] = None /\ rowOwner'[r] = q /\ (ReplaceNext(q) \/ Consume(q))
                \/ rowOwner[r] = q /\ rowOwner'[r] = None /\ Unlock(q)
           /\ \A m \in Members :
                \/ userOwner'[m] = userOwner[m]
                \/ userOwner[m] = None /\ userOwner'[m] = q /\ Move(q)
                \/ userOwner[m] = q /\ userOwner'[m] = None /\ Unlock(q)
           /\ rowOwner' \in [Rows -> Requests \cup {None}]
           /\ userOwner' \in [Members -> Requests \cup {None}]
<1>0. /\ rowOwner \in [Rows -> Requests \cup {None}]
      /\ userOwner \in [Members -> Requests \cup {None}]
  BY DEF TypeOK
<1>1. CASE UNCHANGED <<now, locks>>
  BY <1>0, <1>1 DEF locks
<1>2. CASE Unlock(q) /\ now' = now
  BY <1>0, <1>2 DEF Unlock
<1>3. CASE ReplaceNext(q)
  <2>1. PICK r \in req[q].todo :
          /\ rowOwner[r] = None
          /\ rowOwner' = IF pending[r] = None THEN rowOwner ELSE [rowOwner EXCEPT ![r] = q]
    BY <1>3 DEF ReplaceNext
  <2>2. r \in Rows
    BY DEF TypeOK, RequestRecord
  <2>3. UNCHANGED <<now, userOwner>>
    BY <1>3 DEF ReplaceNext
  <2>4. QED BY <1>0, <1>3, <2>1, <2>2, <2>3
<1>4. CASE Consume(q)
  BY <1>0, <1>4 DEF Consume
<1>5. CASE Move(q)
  BY <1>0, <1>5 DEF Move
<1>6. CASE (\E m \in Members, a \in Addresses : Start(q, m, a))
             \/ (\E m \in Members, code \in mailed \cup {Wrong} : Verify(q, m, code))
             \/ LookUp(q) \/ Replace(q) \/ Find(q) \/ Count(q) \/ Mail(q) \/ Burn(q) \/ Notify(q)
  <2>1. UNCHANGED <<now, locks>>
    BY <1>6 DEF Start, Verify, LookUp, Replace, Find, Count, Mail, Burn, Notify
  <2>2. QED BY <1>1, <2>1
<1>7. CASE Insert(q) \/ Commit(q) \/ MoveRefused(q) \/ Crash(q)
  <2>1. Unlock(q) /\ now' = now
    BY <1>7 DEF Insert, Commit, MoveRefused, Crash
  <2>2. QED BY <1>2, <2>1
<1>8. QED BY <1>3, <1>4, <1>5, <1>6, <1>7 DEF Own, Progress

\* What the others hold, they keep.
LEMMA OthersHold ==
    ASSUME TypeOK, NEW q \in Requests, Own(q), NEW p \in Requests \ {q}
    PROVE  /\ \A r \in Rows : rowOwner'[r] = p <=> rowOwner[r] = p
           /\ \A m \in Members : userOwner'[m] = p <=> userOwner[m] = p
<1>1. p # None
  BY EmailChangeAssumption
<1>2. QED BY <1>1, LocksMove

\* A request that knows something wrong at its steps' end would know it at their beginning:
\* where a request stands after its own step.
LEMMA StandsAt ==
    ASSUME TypeOK, NEW q \in Requests, Own(q)
    PROVE  /\ pc'[q] = "start" => \E m \in Members, a \in Addresses : Start(q, m, a)
           /\ pc'[q] = "replace" => LookUp(q)
           /\ pc'[q] = "insert" => Replace(q) \/ ReplaceNext(q)
           /\ pc'[q] = "mail" => Insert(q)
           /\ pc'[q] = "verify" =>
                \E m \in Members, code \in mailed \cup {Wrong} : Verify(q, m, code)
           /\ pc'[q] = "count" => Find(q)
           /\ pc'[q] \in {"burn", "consume"} => Count(q)
           /\ pc'[q] = "move" => Consume(q)
           /\ pc'[q] = "moved" => Move(q)
           /\ pc'[q] = "notify" => Commit(q)
<1> USE DEF TypeOK
<1>1. CASE (\E m \in Members, a \in Addresses : Start(q, m, a))
             \/ (\E m \in Members, code \in mailed \cup {Wrong} : Verify(q, m, code))
  BY <1>1 DEF Start, Verify, Step
<1>2. CASE LookUp(q) \/ Replace(q) \/ ReplaceNext(q)
  BY <1>2 DEF LookUp, Replace, ReplaceNext, Step
<1>3. CASE Mail(q) \/ Burn(q) \/ Notify(q) \/ MoveRefused(q) \/ Crash(q)
  BY <1>3 DEF Mail, Burn, Notify, MoveRefused, Crash, Answer, Step
<1>4. CASE Find(q)
  BY <1>4 DEF Find, Answer, Step
<1>5. CASE Count(q)
  <2>1. Step(q, "burn") \/ Step(q, "consume") \/ Answer(q)
    BY <1>5 DEF Count
  <2>2. QED BY <1>5, <2>1 DEF Answer, Step
<1>6. CASE Consume(q)
  BY <1>6 DEF Consume, Answer, Step
<1>7. CASE Insert(q) \/ Move(q) \/ Commit(q)
  BY <1>7 DEF Insert, Move, Commit, Step
<1>8. QED BY <1>1, <1>2, <1>3, <1>4, <1>5, <1>6, <1>7 DEF Own, Progress

-----------------------------------------------------------------------------
(* Types *)

\* There is a row for whoever is about to insert one.
LEMMA RowToInsert ==
    ASSUME RoomLeft, NEW q \in Requests, Insert(q)
    PROVE  issued + 1 \in Rows
<1>1. q \in Inserting /\ IsFiniteSet(Inserting)
  BY EmailChangeAssumption, FS_Subset DEF Insert, Inserting
<1>2. Cardinality(Inserting) \in Nat /\ Cardinality(Inserting) > 0
  BY <1>1, FS_CardinalityType, FS_EmptySet
<1>3. QED BY <1>2, EmailChangeAssumption DEF RoomLeft, Rows

LEMMA RequestTyped ==
    ASSUME TypeOK, NEW q \in Requests, NEW x \in RequestRecord, req' = [req EXCEPT ![q] = x]
    PROVE  req' \in [Requests -> RequestRecord] /\ req'[q] = x
BY DEF TypeOK

LEMMA NothingIsTyped == Nothing \in RequestRecord
BY DEF Nothing, RequestRecord

\* Where the request of a step stands and what it knows.
LEMMA RequestsTyped ==
    ASSUME TypeOK, RoomLeft, RequestsSound, NEW q \in Requests, Own(q)
    PROVE  req' \in [Requests -> RequestRecord]
<1> DEFINE known == req[q]
<1>1. req \in [Requests -> RequestRecord] /\ known \in RequestRecord
  BY DEF TypeOK
<1>2. CASE req' = req
  BY <1>1, <1>2
<1>3. CASE Answer(q)
  BY <1>3, RequestTyped, NothingIsTyped DEF Answer
<1>4. ASSUME NEW m \in Members, NEW a \in Addresses, Start(q, m, a)
      PROVE  req' \in [Requests -> RequestRecord]
  <2>1. [Nothing EXCEPT !.member = m, !.address = a] \in RequestRecord
    BY DEF Nothing, RequestRecord
  <2>2. QED BY <1>4, <2>1, RequestTyped DEF Start
<1>5. ASSUME NEW m \in Members, NEW code \in mailed \cup {Wrong}, Verify(q, m, code)
      PROVE  req' \in [Requests -> RequestRecord]
  <2>1. [Nothing EXCEPT !.member = m, !.typed = code] \in RequestRecord
    BY DEF Nothing, RequestRecord, TypeOK
  <2>2. QED BY <1>5, <2>1, RequestTyped DEF Verify
<1>6. CASE LookUp(q)
  <2> DEFINE x == [known EXCEPT !.coded = \A m \in Members : email[m] # known.address]
  <2>1. x \in RequestRecord
    BY <1>1 DEF RequestRecord
  <2>2. req' = [req EXCEPT ![q] = x]
    BY <1>1, <1>6 DEF LookUp
  <2> HIDE DEF x
  <2>3. QED BY <2>1, <2>2, RequestTyped
<1>7. CASE Replace(q)
  <2> DEFINE x == [known EXCEPT !.todo =
                     {r \in Rows : pending[r] # None /\ pending[r].member = known.member}]
  <2>1. x \in RequestRecord
    BY <1>1 DEF RequestRecord
  <2>2. req' = [req EXCEPT ![q] = x]
    BY <1>1, <1>7 DEF Replace
  <2> HIDE DEF x
  <2>3. QED BY <2>1, <2>2, RequestTyped
<1>8. CASE ReplaceNext(q)
  <2>1. PICK r \in known.todo : req' = [req EXCEPT ![q].todo = @ \ {r}]
    BY <1>8 DEF ReplaceNext
  <2> DEFINE x == [known EXCEPT !.todo = @ \ {r}]
  <2>2. x \in RequestRecord
    BY <1>1 DEF RequestRecord
  <2>3. req' = [req EXCEPT ![q] = x]
    BY <1>1, <2>1
  <2> HIDE DEF x
  <2>4. QED BY <2>2, <2>3, RequestTyped
<1>9. CASE Insert(q)
  <2> DEFINE x == [Nothing EXCEPT !.row = issued + 1, !.coded = known.coded]
  <2>1. issued + 1 \in Rows
    BY <1>9, RowToInsert
  <2>2. x \in RequestRecord
    BY <1>1, <2>1 DEF RequestRecord, Nothing
  <2>3. req' = [req EXCEPT ![q] = x]
    BY <1>1, <1>9 DEF Insert, Keep
  <2> HIDE DEF x
  <2>4. QED BY <2>2, <2>3, RequestTyped
<1>10. CASE Find(q)
  <2>1. CASE Answer(q)
    BY <1>3, <2>1
  <2>2. ASSUME NEW r \in Live(known.member),
               req' = [req EXCEPT ![q].row = r, ![q].address = pending[r].address,
                                  ![q].coded = pending[r].coded]
        PROVE  req' \in [Requests -> RequestRecord]
    <3> DEFINE x == [known EXCEPT !.row = r, !.address = pending[r].address,
                                  !.coded = pending[r].coded]
    <3>1. r \in Rows /\ pending[r] \in PendingRecord
      BY DEF Live, TypeOK
    <3>2. pending[r].address \in Addresses /\ pending[r].coded \in BOOLEAN
      BY <3>1 DEF PendingRecord
    <3>3. x \in RequestRecord
      BY <1>1, <3>1, <3>2 DEF RequestRecord
    <3>4. req' = [req EXCEPT ![q] = x]
      BY <1>1, <2>2
    <3> HIDE DEF x
    <3>5. QED BY <3>3, <3>4, RequestTyped
  <2>3. QED BY <1>10, <2>1, <2>2 DEF Find
<1>11. CASE Count(q) \/ Consume(q)
  <2>1. ASSUME Keep(q, known.row, FALSE)
        PROVE  req' \in [Requests -> RequestRecord]
    <3> DEFINE x == [Nothing EXCEPT !.row = known.row, !.coded = FALSE]
    <3>1. x \in RequestRecord
      BY <1>1 DEF RequestRecord, Nothing
    <3>2. req' = [req EXCEPT ![q] = x]
      BY <2>1 DEF Keep
    <3> HIDE DEF x
    <3>3. QED BY <3>1, <3>2, RequestTyped
  <2>2. QED BY <1>2, <1>3, <1>11, <2>1 DEF Count, Consume
<1>12. CASE Mail(q) \/ Burn(q) \/ Notify(q) \/ MoveRefused(q) \/ Crash(q)
  BY <1>3, <1>12 DEF Mail, Burn, Notify, MoveRefused, Crash
<1>13. CASE Move(q) \/ Commit(q)
  <2>1. Commit(q) => req' = [req EXCEPT ![q] = Nothing]
    BY DEF Commit
  <2>2. Nothing \in RequestRecord
    BY DEF Nothing, RequestRecord
  <2>3. QED BY <1>2, <1>13, <2>1, <2>2, RequestTyped DEF Move
<1>14. QED
  BY <1>4, <1>5, <1>6, <1>7, <1>8, <1>9, <1>10, <1>11, <1>12, <1>13 DEF Own, Progress

\* The steps that count a guess, and what becomes of the counter.
LEMMA CounterTyped ==
    ASSUME TypeOK, NEW r \in Rows
    PROVE  Counted(guesses[r]) \in CounterRecord
<1>1. guesses[r] \in CounterRecord \cup {None} /\ now \in Nat /\ Window \in Nat /\ MaxGuesses \in Nat
  BY EmailChangeAssumption DEF TypeOK
<1>2. CASE guesses[r] = None
  BY <1>1, <1>2 DEF Counted, CounterRecord
<1>3. CASE guesses[r] # None
  <2> DEFINE c == guesses[r]
  <2>1. c \in [count : Nat, expiresAt : Nat]
    BY <1>1, <1>3 DEF CounterRecord
  <2>2. [c EXCEPT !.count = @ + 1] \in CounterRecord
    BY <2>1 DEF CounterRecord
  <2>3. [count |-> 1, expiresAt |-> now + Window] \in CounterRecord
    BY <1>1 DEF CounterRecord
  <2>4. QED BY <1>1, <1>3, <2>2, <2>3 DEF Counted, CounterRecord
<1>4. QED BY <1>2, <1>3

\* A lock belongs to a request that is in its transaction.
LEMMA LocksTyped ==
    ASSUME TypeOK, NEW q \in Requests, Own(q)
    PROVE  /\ \A r \in Rows :
                rowOwner'[r] # None => pc'[rowOwner'[r]] \in {"insert", "move", "moved"}
           /\ \A m \in Members : userOwner'[m] # None => pc'[userOwner'[m]] = "moved"
<1>0. q # None /\ pc \in [Requests -> Places]
  BY EmailChangeAssumption DEF TypeOK, Places
<1>1. ASSUME NEW r \in Rows, rowOwner'[r] \notin {None, q}
      PROVE  pc'[rowOwner'[r]] \in {"insert", "move", "moved"}
  <2>1. rowOwner'[r] = rowOwner[r] /\ rowOwner[r] \in Requests \ {q}
    BY <1>1, LocksMove DEF TypeOK
  <2>2. QED BY <1>1, <2>1, OthersKnow DEF TypeOK
<1>2. ASSUME NEW m \in Members, userOwner'[m] \notin {None, q}
      PROVE  pc'[userOwner'[m]] = "moved"
  <2>1. userOwner'[m] = userOwner[m] /\ userOwner[m] \in Requests \ {q}
    BY <1>2, LocksMove DEF TypeOK
  <2>2. QED BY <1>2, <2>1, OthersKnow DEF TypeOK
<1>3. CASE Unlock(q)
  BY <1>0, <1>1, <1>2, <1>3 DEF Unlock, TypeOK
<1>4. CASE pc[q] \notin {"insert", "move", "moved"} /\ UNCHANGED locks
  BY <1>0, <1>1, <1>2, <1>4 DEF TypeOK, locks
<1>5. CASE ReplaceNext(q)
  <2>1. pc'[q] = "insert" /\ UNCHANGED userOwner
    BY <1>5 DEF ReplaceNext
  <2>2. QED BY <1>0, <1>1, <1>2, <1>5, <2>1 DEF TypeOK, ReplaceNext
<1>6. CASE Consume(q)
  <2>1. UNCHANGED userOwner /\ pc[q] = "consume"
    BY <1>6 DEF Consume
  <2>2. pc'[q] = "move" \/ UNCHANGED rowOwner
    BY <1>0, <1>6 DEF Consume, Step
  <2>3. QED BY <1>0, <1>1, <1>2, <2>1, <2>2 DEF TypeOK
<1>7. CASE Move(q)
  <2>1. pc'[q] = "moved"
    BY <1>0, <1>7 DEF Move, Step
  <2>2. QED BY <1>1, <1>2, <2>1
<1>8. CASE Insert(q) \/ Commit(q) \/ MoveRefused(q) \/ Crash(q)
  BY <1>3, <1>8 DEF Insert, Commit, MoveRefused, Crash
<1>9. CASE (\E m \in Members, a \in Addresses : Start(q, m, a))
             \/ (\E m \in Members, code \in mailed \cup {Wrong} : Verify(q, m, code))
             \/ LookUp(q) \/ Replace(q) \/ Find(q) \/ Count(q) \/ Mail(q) \/ Burn(q) \/ Notify(q)
  BY <1>4, <1>9 DEF Start, Verify, LookUp, Replace, Find, Count, Mail, Burn, Notify
<1>10. QED BY <1>3, <1>5, <1>6, <1>7, <1>8, <1>9 DEF Own, Progress

-----------------------------------------------------------------------------
(* The tables *)

\* What Insert writes.
NewRow(q) ==
    [member |-> req[q].member, address |-> req[q].address, coded |-> req[q].coded,
     expiresAt |-> now + TTL]

\* A pending change is inserted once, under a new number, and then only removed: by the
\* request that holds it, or by one that burns it while nobody does.
LEMMA RowsMove ==
    ASSUME TypeOK, RoomLeft, RequestsSound, RowsHeld, NEW q \in Requests, Own(q)
    PROVE  /\ pending' \in [Rows -> PendingRecord \cup {None}]
           /\ \A r \in Rows :
                \/ pending'[r] = pending[r]
                \/ /\ pending'[r] = None
                   /\ \/ rowOwner[r] = q /\ pc'[q] \in {"mail", "notify"}
                      \/ rowOwner[r] = None /\ pc'[q] = "idle"
                \/ r = issued + 1 /\ Insert(q) /\ pending'[r] = NewRow(q)
           /\ issued' \in 0..MaxRows
           /\ issued' = issued \/ (issued' = issued + 1 /\ Insert(q))
<1>0. /\ pending \in [Rows -> PendingRecord \cup {None}] /\ issued \in 0..MaxRows
      /\ pc \in [Requests -> Places] /\ req[q] \in RequestRecord /\ now + TTL \in Nat
  BY EmailChangeAssumption DEF TypeOK, Places
<1>1. CASE UNCHANGED <<pending, issued>>
  BY <1>0, <1>1
<1>2. CASE Insert(q)
  <2>1. issued + 1 \in Rows
    BY <1>2, RowToInsert
  <2>2. NewRow(q) \in PendingRecord
    <3>1. req[q].member \in Members /\ req[q].address \in Addresses
      BY <1>2 DEF Insert, RequestsSound, RequestSound
    <3>2. QED BY <1>0, <3>1 DEF NewRow, PendingRecord, RequestRecord
  <2>3. pending' = [r \in Rows |->
                      IF r = issued + 1 THEN NewRow(q)
                      ELSE IF rowOwner[r] = q THEN None ELSE pending[r]]
    BY <1>2 DEF Insert, NewRow
  <2>4. issued' = issued + 1 /\ pc'[q] = "mail"
    BY <1>0, <1>2 DEF Insert, Step
  <2>5. issued' \in 0..MaxRows
    BY <1>0, <2>1, <2>4, EmailChangeAssumption DEF Rows
  <2>6. QED BY <1>0, <1>2, <2>2, <2>3, <2>4, <2>5
<1>3. CASE Burn(q)
  <2>1. pc'[q] = "idle"
    BY <1>0, <1>3 DEF Burn, Answer, Step
  <2>2. QED BY <1>0, <1>3, <2>1 DEF Burn
<1>4. CASE Commit(q)
  <2>1. pc'[q] = "notify" /\ rowOwner[req[q].row] = q
    BY <1>0, <1>4 DEF Commit, Step, RowsHeld
  <2>2. QED BY <1>0, <1>4, <2>1 DEF Commit
<1>5. CASE (\E m \in Members, a \in Addresses : Start(q, m, a))
             \/ (\E m \in Members, code \in mailed \cup {Wrong} : Verify(q, m, code))
             \/ LookUp(q) \/ Replace(q) \/ ReplaceNext(q) \/ Find(q) \/ Count(q) \/ Consume(q)
             \/ Move(q)
  <2>1. UNCHANGED <<pending, issued>>
    BY <1>5 DEF Start, Verify, LookUp, Replace, ReplaceNext, Find, Count, Consume, Move, tables
  <2>2. QED BY <1>1, <2>1
<1>6. CASE Mail(q) \/ Notify(q) \/ MoveRefused(q) \/ Crash(q)
  <2>1. UNCHANGED <<pending, issued>>
    BY <1>6 DEF Mail, Notify, MoveRefused, Crash, tables
  <2>2. QED BY <1>1, <2>1
<1>7. QED BY <1>2, <1>3, <1>4, <1>5, <1>6 DEF Own, Progress

\* What a step does to the counters and to the history.
LEMMA HistoryMoves ==
    ASSUME TypeOK, RoomLeft, RequestsSound, NEW q \in Requests, Own(q)
    PROVE  /\ UNCHANGED <<guesses, judged>> \/ Count(q)
           /\ lapses' = lapses \/ Insert(q)
           /\ spent' = spent \/ Commit(q)
           /\ email' = email \/ Commit(q)
           /\ mailed \subseteq mailed' /\ mailed' \subseteq Rows
<1>0. mailed \subseteq Rows
  BY DEF TypeOK
<1>1. CASE Mail(q)
  <2>1. req[q].row \in Rows
    BY <1>1, EmailChangeAssumption DEF Mail, RequestsSound, RequestSound, TypeOK, Rows
  <2>2. QED BY <1>0, <1>1, <2>1 DEF Mail, tables
<1>2. CASE Insert(q) \/ Count(q) \/ Burn(q) \/ Commit(q)
  BY <1>0, <1>2 DEF Insert, Count, Burn, Commit, history, tables
<1>3. CASE (\E m \in Members, a \in Addresses : Start(q, m, a))
             \/ (\E m \in Members, code \in mailed \cup {Wrong} : Verify(q, m, code))
             \/ LookUp(q) \/ Replace(q) \/ ReplaceNext(q) \/ Find(q) \/ Consume(q)
             \/ Move(q) \/ Notify(q) \/ MoveRefused(q) \/ Crash(q)
  BY <1>0, <1>3 DEF Start, Verify, LookUp, Replace, ReplaceNext, Find, Consume, Move, Notify,
     MoveRefused, Crash, tables, history
<1>4. QED BY <1>1, <1>2, <1>3 DEF Own, Progress

LEMMA OwnKeepsTypes ==
    ASSUME TypeOK, RoomLeft, RequestsSound, RowsHeld, NEW q \in Requests, Own(q)
    PROVE  TypeOK'
<1>1. pc' \in [Requests -> Places]
  <2>0. pc \in [Requests -> Places]
    BY DEF TypeOK, Places
  <2>1. \/ pc' = pc
        \/ \E at \in Places : Step(q, at)
    <3>1. CASE (\E m \in Members, a \in Addresses : Start(q, m, a))
                 \/ (\E m \in Members, code \in mailed \cup {Wrong} : Verify(q, m, code))
                 \/ LookUp(q) \/ Replace(q) \/ ReplaceNext(q) \/ Insert(q) \/ Move(q) \/ Commit(q)
      BY <3>1 DEF Start, Verify, LookUp, Replace, ReplaceNext, Insert, Move, Commit, Places
    <3>2. CASE Mail(q) \/ Burn(q) \/ Notify(q) \/ MoveRefused(q) \/ Crash(q)
      BY <3>2 DEF Mail, Burn, Notify, MoveRefused, Crash, Answer, Places
    <3>3. CASE Find(q) \/ Count(q) \/ Consume(q)
      BY <3>3 DEF Find, Count, Consume, Answer, Places
    <3>4. QED BY <3>1, <3>2, <3>3 DEF Own, Progress
  <2>2. QED BY <2>0, <2>1 DEF Step
<1>2. email' \in [Members -> Addresses \cup {None, Gone}]
  <2>1. CASE Commit(q)
    <3>1. req[q].address \in Addresses
      BY <2>1 DEF Commit, RequestsSound, RequestSound, HasRow
    <3>2. QED BY <2>1, <3>1 DEF Commit, TypeOK
  <2>2. QED BY <2>1, HistoryMoves DEF TypeOK
<1>3. guesses' \in [Rows -> CounterRecord \cup {None}] /\ judged' \in [Rows -> Nat]
  <2>1. CASE Count(q)
    <3>1. req[q].row \in Rows
      <4>1. pc[q] = "count"
        BY <2>1 DEF Count
      <4>2. req[q].row \in 1..issued /\ issued \in 0..MaxRows
        BY <4>1 DEF RequestsSound, RequestSound, HasRow, TypeOK
      <4>3. QED BY <4>2, EmailChangeAssumption DEF Rows
    <3>2. guesses' = [guesses EXCEPT ![req[q].row] = Counted(guesses[req[q].row])]
      BY <2>1 DEF Count
    <3>3. judged' = judged \/ judged' = [judged EXCEPT ![req[q].row] = @ + 1]
      BY <2>1 DEF Count
    <3>4. QED BY <3>1, <3>2, <3>3, CounterTyped DEF TypeOK
  <2>2. QED BY <2>1, HistoryMoves DEF TypeOK
<1>4. lapses' \in [Rows -> Nat]
  BY HistoryMoves, EmailChangeAssumption DEF TypeOK, Insert
<1>5. spent' \in [Rows -> Nat]
  BY HistoryMoves DEF TypeOK, Commit
<1>6. now' \in Nat
  BY LocksMove DEF TypeOK
<1>7. QED
  BY <1>1, <1>2, <1>3, <1>4, <1>5, <1>6, RequestsTyped, RowsMove, HistoryMoves, LocksMove, LocksTyped
  DEF TypeOK, Places

LEMMA SurroundingsKeepTypes ==
    ASSUME TypeOK, Surroundings
    PROVE  TypeOK'
<1>0. UNCHANGED <<pc, req, rowOwner, userOwner, issued, mailed, lapses, judged, spent>>
  BY SurroundingsKeep
<1>1. now' \in Nat
  BY EmailChangeAssumption
  DEF Surroundings, DeleteAccount, Register, Cleanup, Tick, vars, TypeOK
<1>2. email' \in [Members -> Addresses \cup {None, Gone}]
  BY DEF Surroundings, DeleteAccount, Register, Cleanup, Tick, vars, tables, TypeOK
<1>3. /\ pending' \in [Rows -> PendingRecord \cup {None}]
      /\ guesses' \in [Rows -> CounterRecord \cup {None}]
  BY DEF Surroundings, DeleteAccount, Register, Cleanup, Tick, vars, tables, TypeOK
<1>4. QED BY <1>0, <1>1, <1>2, <1>3 DEF TypeOK

-----------------------------------------------------------------------------
(* Rows left to insert *)

LEMMA RoomKept ==
    ASSUME TypeOK, RoomLeft, RequestsSound, RowsHeld, NEW q \in Requests, Own(q)
    PROVE  RoomLeft'
<1>0. /\ IsFiniteSet(Inserting) /\ Cardinality(Inserting) \in Nat
      /\ issued \in Nat /\ MaxRows \in Nat /\ pc \in [Requests -> Places]
  BY EmailChangeAssumption, FS_Subset, FS_CardinalityType DEF Inserting, RoomLeft, TypeOK, Places
<1> DEFINE early == {"start", "replace", "insert"}
<1>1. \A p \in Requests \ {q} : pc'[p] \in early <=> pc[p] \in early
  BY OthersKnow
<1>2. CASE \E m \in Members, a \in Addresses : Start(q, m, a)
  <2>1. /\ pc[q] = "idle" /\ pc'[q] = "start" /\ issued' = issued
        /\ issued + Cardinality(Inserting) < MaxRows
    BY <1>0, <1>2 DEF Start, Step, tables, Inserting
  <2>2. Inserting' = Inserting \cup {q} /\ q \notin Inserting
    BY <1>1, <2>1 DEF Inserting
  <2>3. Cardinality(Inserting') = Cardinality(Inserting) + 1
    BY <1>0, <2>2, FS_AddElement
  <2>4. QED BY <1>0, <2>1, <2>3 DEF RoomLeft
<1>3. CASE Insert(q)
  <2>1. pc[q] = "insert" /\ pc'[q] = "mail" /\ issued' = issued + 1
    BY <1>0, <1>3 DEF Insert, Step
  <2>2. Inserting' = Inserting \ {q} /\ q \in Inserting
    BY <1>1, <2>1 DEF Inserting
  <2>3. Cardinality(Inserting') = Cardinality(Inserting) - 1
    BY <1>0, <2>2, FS_RemoveElement
  <2>4. QED BY <1>0, <2>1, <2>3 DEF RoomLeft
<1>4. CASE ~Insert(q) /\ ~\E m \in Members, a \in Addresses : Start(q, m, a)
  <2>1. issued' = issued
    BY <1>4, RowsMove
  <2>2. pc'[q] \in early => pc[q] \in early
    BY <1>4, StandsAt DEF LookUp, Replace, ReplaceNext
  <2>3. Inserting' \subseteq Inserting
    BY <1>1, <2>2 DEF Inserting
  <2>4. Cardinality(Inserting') <= Cardinality(Inserting) /\ Cardinality(Inserting') \in Nat
    BY <1>0, <2>3, FS_Subset, FS_CardinalityType
  <2>5. QED BY <1>0, <2>1, <2>4 DEF RoomLeft
<1>5. QED BY <1>2, <1>3, <1>4

-----------------------------------------------------------------------------
(* What a request knows *)

\* What was true of a pending change is true of it as long as it is there.
LEMMA OthersStaySound ==
    ASSUME TypeOK, RoomLeft, RequestsSound, RowsHeld, NEW q \in Requests, Own(q),
           NEW p \in Requests \ {q}
    PROVE  RequestSound(p)'
<1>1. pc'[p] = pc[p] /\ req'[p] = req[p]
  BY OthersKnow
<1>2. RequestSound(p) /\ mailed \subseteq mailed'
  BY HistoryMoves DEF RequestsSound
<1>3. issued \in Nat /\ issued' \in {issued, issued + 1}
  BY RowsMove DEF RoomLeft
<1>4. ASSUME pc[p] \in HasRow, pending'[req[p].row] # None
      PROVE  pending[req[p].row] = pending'[req[p].row] /\ req[p].row \in 1..issued'
  <2>1. req[p].row \in 1..issued /\ req[p].row \in Rows
    BY <1>2, <1>4, EmailChangeAssumption DEF RequestSound, TypeOK, Rows
  <2>2. req[p].row # issued + 1 /\ req[p].row \in 1..issued'
    BY <1>3, <2>1
  <2>3. QED BY <1>4, <2>1, <2>2, RowsMove
<1>5. pc[p] \in HasRow \cup {"mail", "burn"} => req[p].row \in 1..issued'
  BY <1>2, <1>3 DEF RequestSound
<1> DEFINE r == req[p].row
<1>6. pc[p] \in HasRow /\ pending'[r] # None =>
        pending'[r].member = req[p].member /\ pending'[r].address = req[p].address
  BY <1>2, <1>4 DEF RequestSound
<1>7. QED BY <1>1, <1>2, <1>5, <1>6 DEF RequestSound, HasRow

\* A request keeps what it knows from where it read its pending change on.
LEMMA KnowledgeStays ==
    ASSUME TypeOK, NEW q \in Requests, Own(q),
           pc'[q] \in {"consume", "move", "moved"}
    PROVE  /\ req'[q] = req[q]
           /\ pc[q] \in {"count", "consume", "move"}
           /\ pc'[q] \in {"move", "moved"} => pc[q] \in {"consume", "move"}
           /\ pc'[q] = "consume" => req[q].typed = req[q].row
<1>0. pc \in [Requests -> Places] /\ req \in [Requests -> RequestRecord]
  BY DEF TypeOK, Places
<1>1. CASE pc'[q] = "consume"
  <2>1. Count(q)
    BY <1>1, StandsAt
  <2>2. ~Answer(q) /\ ~Step(q, "burn")
    BY <1>0, <1>1 DEF Answer, Step
  <2>3. req' = req /\ pc[q] = "count" /\ req[q].typed = req[q].row
    BY <2>1, <2>2 DEF Count
  <2>4. QED BY <1>1, <2>3
<1>2. CASE pc'[q] = "move"
  <2>1. Consume(q) /\ ~Answer(q)
    BY <1>0, <1>2, StandsAt DEF Answer, Step
  <2>2. QED BY <1>2, <2>1 DEF Consume
<1>3. CASE pc'[q] = "moved"
  BY <1>3, StandsAt DEF Move
<1>4. QED BY <1>1, <1>2, <1>3

LEMMA OwnStaysSound ==
    ASSUME TypeOK, RoomLeft, RequestsSound, RowsFresh, RowsHeld, NEW q \in Requests, Own(q)
    PROVE  RequestSound(q)'
<1>0. /\ pc \in [Requests -> Places] /\ pc'[q] \in Places
      /\ req \in [Requests -> RequestRecord] /\ req[q] \in RequestRecord
      /\ mailed \subseteq mailed' /\ issued \in Nat
  BY OwnKeepsTypes, HistoryMoves DEF TypeOK, RoomLeft, Places
<1>s. RequestSound(q)
  BY DEF RequestsSound
<1>1. CASE pc'[q] = "idle"
  BY <1>1 DEF RequestSound, HasRow
<1>2. CASE pc'[q] = "start"
  <2>1. PICK m \in Members, a \in Addresses : Start(q, m, a)
    BY <1>2, StandsAt
  <2>2. req'[q] = [Nothing EXCEPT !.member = m, !.address = a]
    BY <1>0, <2>1 DEF Start
  <2>3. req'[q].member = m /\ req'[q].address = a
    BY <2>2 DEF Nothing
  <2>4. QED BY <1>2, <2>3 DEF RequestSound, HasRow
<1>3. CASE pc'[q] \in {"replace", "insert"}
  <2>1. /\ pc[q] \in {"start", "replace", "insert"}
        /\ req'[q].member = req[q].member /\ req'[q].address = req[q].address
    <3>1. CASE LookUp(q)
      BY <1>0, <3>1 DEF LookUp
    <3>2. CASE Replace(q)
      BY <1>0, <3>2 DEF Replace
    <3>3. CASE ReplaceNext(q)
      BY <1>0, <3>3 DEF ReplaceNext
    <3>4. QED BY <1>3, <3>1, <3>2, <3>3, StandsAt
  <2>2. QED BY <1>3, <1>s, <2>1 DEF RequestSound, HasRow
<1>4. CASE pc'[q] = "mail"
  <2>1. Insert(q)
    BY <1>4, StandsAt
  <2>2. req'[q].row = issued + 1 /\ pc[q] = "insert"
    BY <1>0, <2>1 DEF Insert, Keep, Nothing
  <2>3. issued' = issued + 1
    BY <2>1 DEF Insert
  <2>4. QED BY <1>0, <1>4, <2>2, <2>3 DEF RequestSound, HasRow
<1>5. CASE pc'[q] = "verify"
  <2>1. PICK m \in Members, code \in mailed \cup {Wrong} : Verify(q, m, code)
    BY <1>5, StandsAt
  <2>2. req'[q] = [Nothing EXCEPT !.member = m, !.typed = code]
    BY <1>0, <2>1 DEF Verify
  <2>3. req'[q].member = m /\ req'[q].typed = code
    BY <2>2 DEF Nothing
  <2>4. QED BY <1>0, <1>5, <2>3 DEF RequestSound, HasRow
<1>6. CASE pc'[q] = "count"
  <2>1. Find(q) /\ ~Answer(q)
    BY <1>0, <1>6, StandsAt DEF Answer, Step
  <2>2. PICK r \in Live(req[q].member) :
          req' = [req EXCEPT ![q].row = r, ![q].address = pending[r].address,
                             ![q].coded = pending[r].coded]
    BY <2>1 DEF Find
  <2>3. /\ req'[q].row = r /\ req'[q].address = pending[r].address
        /\ req'[q].member = req[q].member /\ req'[q].typed = req[q].typed
    BY <1>0, <2>2 DEF RequestRecord
  <2>4. r \in Rows /\ pending[r] \in PendingRecord /\ pending[r].member = req[q].member
    BY DEF Live, TypeOK
  <2>5. pc[q] = "verify" /\ UNCHANGED <<pending, issued, mailed>>
    BY <2>1 DEF Find, tables, history
  <2>6. r \in 1..issued
    BY <1>0, <2>4, EmailChangeAssumption DEF RowsFresh, Rows, Live
  <2>7. QED BY <1>6, <1>s, <2>3, <2>4, <2>5, <2>6 DEF RequestSound, HasRow, PendingRecord
<1>7. CASE pc'[q] \in {"consume", "move", "moved"}
  <2>1. /\ req'[q] = req[q] /\ pc[q] \in HasRow
        /\ pc'[q] \in {"consume", "move", "moved"} => req[q].typed = req[q].row
    BY <1>7, <1>s, KnowledgeStays DEF RequestSound, HasRow
  <2>2. req[q].row \in 1..issued /\ req[q].row \in Rows
    BY <1>s, <2>1, EmailChangeAssumption DEF RequestSound, TypeOK, Rows
  <2>3. issued' = issued
    BY <1>0, <1>7, RowsMove DEF Insert, Step
  <2>4. pending'[req[q].row] # None => pending'[req[q].row] = pending[req[q].row]
    BY <1>0, <2>2, RowsMove
  <2>5. QED BY <1>0, <1>7, <1>s, <2>1, <2>2, <2>3, <2>4 DEF RequestSound, HasRow
<1>8. CASE pc'[q] = "burn"
  <2>1. Count(q)
    BY <1>8, StandsAt
  <2>2. ~Answer(q) /\ ~Step(q, "consume")
    BY <1>0, <1>8 DEF Answer, Step
  <2>3. Keep(q, req[q].row, FALSE) /\ pc[q] = "count" /\ issued' = issued
    BY <2>1, <2>2 DEF Count
  <2>4. req'[q].row = req[q].row
    BY <1>0, <2>3 DEF Keep, Nothing
  <2>5. QED BY <1>8, <1>s, <2>3, <2>4 DEF RequestSound, HasRow
<1>9. CASE pc'[q] = "notify"
  BY <1>9 DEF RequestSound, HasRow
<1>10. QED BY <1>0, <1>1, <1>2, <1>3, <1>4, <1>5, <1>6, <1>7, <1>8, <1>9 DEF Places

-----------------------------------------------------------------------------
(* Rows, holds and uses *)

\* The row a request has read was inserted.
LEMMA RowWasInserted ==
    ASSUME TypeOK, RequestsSound, NEW q \in Requests, pc[q] \in HasRow
    PROVE  req[q].row \in Rows /\ req[q].row <= issued
BY EmailChangeAssumption DEF RequestsSound, RequestSound, TypeOK, Rows

LEMMA OwnKeepsFresh ==
    ASSUME TypeOK, RoomLeft, RequestsSound, RowsFresh, RowsHeld, NEW q \in Requests, Own(q)
    PROVE  RowsFresh'
<1>0. /\ now' = now /\ now \in Nat /\ TTL \in Nat /\ issued \in Nat
      /\ issued' = issued \/ (issued' = issued + 1 /\ Insert(q))
      /\ pc \in [Requests -> Places]
      /\ lapses \in [Rows -> Nat] /\ judged \in [Rows -> Nat] /\ spent \in [Rows -> Nat]
  BY EmailChangeAssumption, LocksMove, RowsMove DEF RoomLeft, TypeOK, Places
<1> SUFFICES ASSUME NEW r \in Rows
             PROVE  /\ r > issued' =>
                         pending'[r] = None /\ guesses'[r] = None /\ judged'[r] = 0 /\ spent'[r] = 0
                    /\ pending'[r] # None => spent'[r] = 0
                    /\ lapses'[r] <= now' + TTL
  BY DEF RowsFresh
<1>r. r \in Int
  BY EmailChangeAssumption DEF Rows
<1>1. r > issued' => pending'[r] = None
  <2>1. Insert(q) => issued' = issued + 1
    BY DEF Insert
  <2>2. r > issued => pending[r] = None
    BY DEF RowsFresh
  <2>3. QED BY <1>0, <1>r, <2>1, <2>2, RowsMove
<1>2. r > issued' => guesses'[r] = None /\ judged'[r] = 0
  <2>1. CASE UNCHANGED <<guesses, judged>>
    BY <1>0, <1>r, <2>1 DEF RowsFresh
  <2>2. CASE Count(q)
    <3>1. req[q].row \in Rows /\ req[q].row <= issued
      BY <2>2, RowWasInserted DEF Count, HasRow
    <3>2. r > issued => guesses'[r] = guesses[r] /\ judged'[r] = judged[r]
      BY <1>0, <1>r, <2>2, <3>1 DEF Count, TypeOK
    <3>3. QED BY <1>0, <1>r, <3>2 DEF RowsFresh
  <2>3. QED BY <2>1, <2>2, HistoryMoves
<1>3. /\ r > issued' => spent'[r] = 0
      /\ pending'[r] # None => spent'[r] = 0
  <2>1. CASE Commit(q)
    <3>1. req[q].row \in Rows /\ req[q].row <= issued
      BY <2>1, RowWasInserted DEF Commit, HasRow
    <3>2. pending'[req[q].row] = None /\ issued' = issued
      BY <2>1, <3>1 DEF Commit, TypeOK
    <3>3. r # req[q].row => spent'[r] = spent[r] /\ pending'[r] = pending[r]
      BY <1>0, <2>1, <3>1 DEF Commit, TypeOK
    <3>4. QED BY <1>0, <1>r, <3>1, <3>2, <3>3 DEF RowsFresh
  <2>2. CASE spent' = spent
    <3>1. pending[r] # None \/ r > issued => spent[r] = 0
      BY DEF RowsFresh
    <3>2. pending'[r] # None => pending[r] # None \/ r > issued
      BY <1>0, <1>r, RowsMove
    <3>3. QED BY <1>0, <1>r, <2>2, <3>1, <3>2
  <2>3. QED BY <2>1, <2>2, HistoryMoves
<1>4. lapses'[r] <= now' + TTL
  <2>1. CASE lapses' = lapses
    BY <1>0, <2>1 DEF RowsFresh
  <2>2. CASE Insert(q)
    BY <1>0, <2>2, RowToInsert DEF RowsFresh, Insert
  <2>3. QED BY <2>1, <2>2, HistoryMoves
<1>5. QED BY <1>1, <1>2, <1>3, <1>4

\* Whoever has consumed a row holds it, and nobody takes it away.
LEMMA OwnKeepsHeld ==
    ASSUME TypeOK, RoomLeft, RequestsSound, RowsHeld, NEW q \in Requests, Own(q)
    PROVE  RowsHeld'
<1>0. pc \in [Requests -> Places] /\ None \notin Requests /\ issued \in Nat
  BY EmailChangeAssumption DEF TypeOK, Places
<1> SUFFICES ASSUME NEW p \in Requests, pc'[p] \in {"move", "moved"}
             PROVE  rowOwner'[req'[p].row] = p /\ pending'[req'[p].row] # None
  BY DEF RowsHeld
<1> DEFINE r == req[p].row
<1>1. CASE p # q
  <2>1. pc[p] \in {"move", "moved"} /\ req'[p] = req[p]
    BY <1>1, OthersKnow
  <2>2. rowOwner[r] = p /\ pending[r] # None /\ r \in Rows /\ r <= issued
    BY <2>1, RowWasInserted DEF RowsHeld, HasRow
  <2>3. rowOwner'[r] = p
    BY <1>1, <2>2, OthersHold
  <2>4. r # issued + 1
    BY <1>0, <2>2, EmailChangeAssumption DEF Rows
  <2>5. pending'[r] = pending[r]
    BY <1>0, <1>1, <2>2, <2>4, RowsMove
  <2>6. QED BY <2>1, <2>2, <2>3, <2>5
<1>2. CASE p = q /\ pc'[q] = "move"
  <2>1. Consume(q) /\ ~Answer(q) /\ req'[q] = req[q]
    BY <1>0, <1>2, StandsAt, KnowledgeStays DEF Answer, Step
  <2>2. r \in Rows
    BY <1>2, <2>1, RowWasInserted DEF Consume, HasRow
  <2>3. pending[r] # None /\ rowOwner' = [rowOwner EXCEPT ![r] = q] /\ pending' = pending
    BY <1>2, <2>1 DEF Consume, tables
  <2>4. QED BY <1>2, <2>1, <2>2, <2>3 DEF TypeOK
<1>3. CASE p = q /\ pc'[q] = "moved"
  <2>1. Move(q)
    BY <1>3, StandsAt
  <2>2. QED BY <1>3, <2>1 DEF Move, RowsHeld, tables
<1>4. QED BY <1>1, <1>2, <1>3

\* A code is used while its pending change is there, and it is used up with it.
LEMMA OwnKeepsOnce ==
    ASSUME TypeOK, RoomLeft, RequestsSound, RowsFresh, RowsHeld, CodeWorksOnce,
           NEW q \in Requests, Own(q)
    PROVE  CodeWorksOnce'
<1>1. CASE spent' = spent
  BY <1>1 DEF CodeWorksOnce
<1>2. CASE Commit(q)
  <2>1. req[q].row \in Rows /\ pending[req[q].row] # None
    BY <1>2, RowWasInserted DEF Commit, HasRow, RowsHeld
  <2>2. spent[req[q].row] = 0
    BY <2>1 DEF RowsFresh
  <2>3. QED BY <1>2, <2>1, <2>2 DEF Commit, CodeWorksOnce, TypeOK
<1>3. QED BY <1>1, <1>2, HistoryMoves

-----------------------------------------------------------------------------
(* Guesses *)

\* The counter after a guess: it goes on while it runs, and a new one outlives the change.
LEMMA CountedIs ==
    ASSUME TypeOK, NEW r \in Rows
    PROVE  LET c == Counted(guesses[r]) IN
           /\ guesses[r] = None \/ guesses[r].expiresAt <= now
                => c.count = 1 /\ c.expiresAt = now + Window
           /\ guesses[r] # None /\ guesses[r].expiresAt > now
                => /\ c.expiresAt = guesses[r].expiresAt
                   /\ c.count >= guesses[r].count
                   /\ c.count <= MaxGuesses => c.count = guesses[r].count + 1
<1> DEFINE g == guesses[r]  more == [g EXCEPT !.count = @ + 1]
<1>1. g \in CounterRecord \cup {None} /\ now \in Nat /\ Window \in Nat /\ MaxGuesses \in Nat
  BY EmailChangeAssumption DEF TypeOK
<1>2. CASE g = None \/ g.expiresAt <= now
  <2>1. Counted(g) = [count |-> 1, expiresAt |-> now + Window]
    BY <1>2 DEF Counted
  <2>2. QED BY <1>1, <1>2, <2>1 DEF CounterRecord
<1>3. CASE g # None /\ g.expiresAt > now
  <2>1. g \in [count : Nat, expiresAt : Nat]
    BY <1>1, <1>3 DEF CounterRecord
  <2>2. more.count = g.count + 1 /\ more.expiresAt = g.expiresAt
    BY <2>1
  <2>3. Counted(g) = IF g.count > MaxGuesses THEN g ELSE more
    BY <1>1, <1>3, <2>1 DEF Counted
  <2> HIDE DEF more
  <2>4. QED BY <1>1, <1>3, <2>1, <2>2, <2>3
<1>4. QED
  <2>1. g = None \/ g.expiresAt \in Nat
    BY <1>1 DEF CounterRecord
  <2>2. QED BY <1>1, <1>2, <1>3, <2>1

LEMMA OwnKeepsGuesses ==
    ASSUME TypeOK, RoomLeft, RequestsSound, RowsFresh, RowsHeld, GuessesKept, GuessesBounded,
           NEW q \in Requests, Own(q)
    PROVE  GuessesKept' /\ GuessesBounded'
<1>0. /\ now' = now /\ now \in Nat /\ TTL \in Nat /\ Window \in Nat /\ TTL <= Window
      /\ MaxGuesses \in Nat \ {0} /\ issued \in Nat
      /\ lapses \in [Rows -> Nat] /\ judged \in [Rows -> Nat]
      /\ guesses \in [Rows -> CounterRecord \cup {None}]
  BY EmailChangeAssumption, LocksMove DEF TypeOK
<1>1. CASE Count(q)
  <2> DEFINE r == req[q].row  c == Counted(guesses[r])
  <2>1. r \in Rows /\ c \in CounterRecord /\ c # None
    <3>1. r \in Rows
      BY <1>1, RowWasInserted DEF Count, HasRow
    <3>2. QED BY <3>1, CounterTyped, EmailChangeAssumption DEF CounterRecord
  <2>2. /\ guesses' = [guesses EXCEPT ![r] = c] /\ lapses' = lapses
        /\ judged' = IF c.count <= MaxGuesses /\ now < lapses[r]
                     THEN [judged EXCEPT ![r] = @ + 1] ELSE judged
    BY <1>1 DEF Count
  <2>3. now < lapses[r] =>
          /\ judged'[r] > 0 => c.count >= judged'[r]
          /\ c.expiresAt >= lapses[r]
          /\ judged'[r] <= MaxGuesses
    <3> SUFFICES ASSUME now < lapses[r]
                 PROVE  /\ judged'[r] > 0 => c.count >= judged'[r]
                        /\ c.expiresAt >= lapses[r]
                        /\ judged'[r] <= MaxGuesses
      OBVIOUS
    <3>1. /\ judged[r] > 0 => guesses[r] # None /\ guesses[r].count >= judged[r]
          /\ guesses[r] # None => guesses[r].expiresAt >= lapses[r]
          /\ judged[r] <= MaxGuesses /\ judged[r] \in Nat /\ lapses[r] \in Nat
          /\ lapses[r] <= now + TTL
      BY <1>0, <2>1 DEF GuessesKept, GuessesBounded, RowsFresh
    <3>2. c.count \in Nat /\ c.expiresAt \in Nat
      BY <2>1 DEF CounterRecord
    <3>3. judged'[r] = IF c.count <= MaxGuesses THEN judged[r] + 1 ELSE judged[r]
      BY <1>0, <2>1, <2>2
    <3>4. CASE guesses[r] = None
      <4>1. c.count = 1 /\ c.expiresAt = now + Window
        BY <2>1, <3>4, CountedIs
      <4> HIDE DEF c
      <4>2. QED BY <1>0, <3>1, <3>3, <3>4, <4>1
    <3>5. CASE guesses[r] # None
      <4>1. guesses[r].count \in Nat /\ guesses[r].expiresAt \in Nat
        BY <1>0, <2>1, <3>5 DEF CounterRecord
      <4>2. guesses[r].expiresAt > now
        BY <1>0, <3>1, <3>5, <4>1
      <4>3. /\ c.expiresAt = guesses[r].expiresAt /\ c.count >= guesses[r].count
            /\ c.count <= MaxGuesses => c.count = guesses[r].count + 1
        BY <2>1, <3>5, <4>2, CountedIs
      <4> HIDE DEF c
      <4>4. QED BY <1>0, <3>1, <3>2, <3>3, <3>5, <4>1, <4>3
    <3>6. QED BY <3>4, <3>5
  <2>4. ASSUME NEW s \in Rows
        PROVE  /\ now < lapses[s] =>
                    /\ judged'[s] > 0 => guesses'[s] # None /\ guesses'[s].count >= judged'[s]
                    /\ guesses'[s] # None => guesses'[s].expiresAt >= lapses[s]
               /\ judged'[s] <= MaxGuesses
    <3>1. CASE s = r
      <4>1. guesses'[s] = c
        BY <1>0, <2>1, <2>2, <3>1
      <4>2. ~(now < lapses[r]) => judged'[s] = judged[s]
        BY <2>2, <3>1
      <4>3. judged[s] <= MaxGuesses
        BY DEF GuessesBounded
      <4> HIDE DEF c
      <4>4. QED BY <2>1, <2>3, <3>1, <4>1, <4>2, <4>3
    <3>2. CASE s # r
      <4>1. guesses'[s] = guesses[s] /\ judged'[s] = judged[s]
        BY <1>0, <2>1, <2>2, <3>2
      <4>2. QED BY <4>1 DEF GuessesKept, GuessesBounded
    <3>3. QED BY <3>1, <3>2
  <2>5. QED BY <1>0, <2>2, <2>4 DEF GuessesKept, GuessesBounded
<1>2. CASE UNCHANGED <<guesses, judged, lapses>>
  BY <1>0, <1>2 DEF GuessesKept, GuessesBounded
<1>3. CASE Insert(q)
  <2>1. UNCHANGED <<guesses, judged>>
    BY <1>3 DEF Insert
  <2>2. issued + 1 \in Rows /\ issued + 1 > issued
    BY <1>0, <1>3, RowToInsert
  <2>3. guesses[issued + 1] = None /\ judged[issued + 1] = 0
    BY <2>2 DEF RowsFresh
  <2>4. \A s \in Rows : s # issued + 1 => lapses'[s] = lapses[s]
    BY <1>0, <1>3, <2>2 DEF Insert
  <2>5. QED BY <1>0, <2>1, <2>3, <2>4 DEF GuessesKept, GuessesBounded
<1>4. QED BY <1>1, <1>2, <1>3, HistoryMoves DEF Count

-----------------------------------------------------------------------------
(* Addresses *)

LEMMA OwnKeepsAddresses ==
    ASSUME TypeOK, RoomLeft, RequestsSound, RowsHeld, AddressesReserved, EmailsUnique,
           NEW q \in Requests, Own(q)
    PROVE  AddressesReserved' /\ EmailsUnique'
<1>0. /\ pc \in [Requests -> Places] /\ None \notin Requests
      /\ userOwner \in [Members -> Requests \cup {None}] /\ TypeOK'
  BY EmailChangeAssumption, OwnKeepsTypes DEF TypeOK, Places
<1>1. ASSUME NEW p \in Requests, p # q
      PROVE  /\ pc'[p] = pc[p] /\ req'[p] = req[p] /\ (p \in Movers' <=> p \in Movers)
             /\ pc[p] = "moved" => req[p].member \in Members /\ req[p].address \in Addresses
  <2>1. pc'[p] = pc[p] /\ req'[p] = req[p]
    BY <1>1, OthersKnow
  <2>2. pc[p] = "moved" => req[p].member \in Members /\ req[p].address \in Addresses
    BY DEF RequestsSound, RequestSound, HasRow
  <2>3. \A m \in Members : userOwner'[m] = p <=> userOwner[m] = p
    BY <1>1, OthersHold
  <2>4. QED BY <2>1, <2>2, <2>3 DEF Movers
<1>2. \A m \in Members : userOwner'[m] # None =>
        userOwner'[m] \in Requests /\ pc'[userOwner'[m]] = "moved"
  BY <1>0 DEF TypeOK
<1>3. CASE Move(q)
  <2> DEFINE m == req[q].member  a == req[q].address
  <2>1. /\ m \in Members /\ userOwner[m] = None /\ UNCHANGED <<email, req>>
        /\ userOwner' = IF HasAccount(m) THEN [userOwner EXCEPT ![m] = q] ELSE userOwner
        /\ HasAccount(m) => ~Unsettled(m, a) /\ ~InUse(m, a)
        /\ pc[q] = "move"
    BY <1>3 DEF Move, tables, RequestsSound, RequestSound
  <2>2. ASSUME NEW l \in Members, userOwner'[l] # None
        PROVE  HasAccount(l)' /\ req'[userOwner'[l]].member = l
    <3>1. CASE userOwner'[l] = userOwner[l]
      BY <2>1, <2>2, <3>1 DEF AddressesReserved, HasAccount
    <3>2. CASE userOwner'[l] # userOwner[l]
      BY <1>0, <2>1, <2>2, <3>2 DEF HasAccount
    <3>3. QED BY <3>1, <3>2
  <2>3. CASE ~HasAccount(m)
    <3>1. q \notin Movers'
      BY <1>0, <2>1, <2>3 DEF Movers
    <3>2. Movers' \subseteq Movers
      BY <1>1, <3>1 DEF Movers
    <3>3. QED BY <2>1, <2>2, <3>2 DEF AddressesReserved, EmailsUnique, HasAccount
  <2>4. CASE HasAccount(m)
    <3>1. \A l \in Members \ {m} : email[l] # a
      BY <2>1, <2>4 DEF InUse
    <3>2. ASSUME NEW p \in Movers, p # q, req[p].address = a PROVE FALSE
      <4>1. req[p].member # m
        BY <2>1, <3>2, <1>0 DEF Movers
      <4>2. QED BY <2>1, <2>4, <3>2, <4>1 DEF Unsettled
    <3>3. Movers' \subseteq Movers \cup {q}
      BY <1>1 DEF Movers
    <3>4. \A p \in Movers' : /\ \A l \in Members \ {req[p].member} : email[l] # req[p].address
                            /\ \A o \in Movers' : req[o].address = req[p].address => o = p
      BY <3>1, <3>2, <3>3 DEF AddressesReserved
    <3>5. QED BY <2>1, <2>2, <3>4 DEF AddressesReserved, EmailsUnique, HasAccount
  <2>5. QED BY <2>3, <2>4
<1>4. ASSUME ~Move(q)
      PROVE  /\ Movers' \subseteq Movers \ {q} /\ \A p \in Movers' : req'[p] = req[p]
             /\ \A m \in Members : userOwner'[m] # None =>
                  userOwner'[m] = userOwner[m] /\ req'[userOwner[m]] = req[userOwner[m]]
  <2>1. pc'[q] # "moved"
    BY <1>4, StandsAt
  <2>2. Movers' \subseteq Movers \ {q} /\ \A p \in Movers' : req'[p] = req[p]
    BY <1>1, <2>1 DEF Movers
  <2>3. ASSUME NEW m \in Members, userOwner'[m] # None
        PROVE  userOwner'[m] = userOwner[m] /\ req'[userOwner[m]] = req[userOwner[m]]
    <3>1. userOwner'[m] # q /\ userOwner'[m] \in Requests
      BY <1>2, <2>1, <2>3
    <3>2. userOwner'[m] = userOwner[m]
      BY <1>4, <2>3, <3>1, LocksMove
    <3>3. QED BY <1>1, <3>1, <3>2
  <2>4. QED BY <2>2, <2>3
<1>5. CASE ~Move(q) /\ email' = email
  BY <1>4, <1>5 DEF AddressesReserved, EmailsUnique, HasAccount
<1>6. CASE Commit(q) /\ ~Move(q) /\ email' # email
  <2> DEFINE m == req[q].member  a == req[q].address
  <2>1. /\ m \in Members /\ a \in Addresses /\ userOwner[m] = q
        /\ email' = [email EXCEPT ![m] = a] /\ q \in Movers
    <3>1. m \in Members /\ a \in Addresses /\ pc[q] = "moved"
      BY <1>6 DEF Commit, RequestsSound, RequestSound, HasRow
    <3>2. userOwner[m] = q /\ email' = [email EXCEPT ![m] = a]
      BY <1>6 DEF Commit
    <3>3. QED BY <3>1, <3>2 DEF Movers
  <2>2. email'[m] = a /\ \A l \in Members \ {m} : email'[l] = email[l] /\ email[l] # a
    BY <2>1 DEF AddressesReserved, TypeOK
  <2>3. EmailsUnique'
    BY <2>1, <2>2 DEF EmailsUnique, HasAccount
  <2>4. \A l \in Members : HasAccount(l) => HasAccount(l)'
    BY <2>1, <2>2 DEF HasAccount
  <2>5. ASSUME NEW p \in Movers'
        PROVE  /\ \A l \in Members \ {req'[p].member} : email'[l] # req'[p].address
               /\ \A o \in Movers' : req'[o].address = req'[p].address => o = p
    <3>1. p \in Movers /\ p # q /\ req'[p] = req[p] /\ \A o \in Movers' : o \in Movers /\ req'[o] = req[o]
      BY <1>4, <1>6
    <3>2. req[p].address # a
      BY <2>1, <3>1 DEF AddressesReserved
    <3>3. QED BY <2>2, <3>1, <3>2 DEF AddressesReserved
  <2>6. AddressesReserved'
    BY <1>4, <1>6, <2>4, <2>5 DEF AddressesReserved
  <2>7. QED BY <2>3, <2>6
<1>7. QED BY <1>3, <1>5, <1>6, HistoryMoves

LEMMA SurroundingsKeepAddresses ==
    ASSUME TypeOK, RequestsSound, AddressesReserved, EmailsUnique, Surroundings
    PROVE  AddressesReserved' /\ EmailsUnique'
<1>1. UNCHANGED <<pc, req, userOwner>>
  BY SurroundingsKeep
<1>2. Movers' = Movers
  BY <1>1 DEF Movers
<1>3. \A p \in Movers : /\ req[p].member \in Members /\ req[p].address \in Addresses
                       /\ p \in Requests /\ userOwner[req[p].member] = p
  BY DEF Movers, RequestsSound, RequestSound, HasRow
<1>4. CASE email' = email
  BY <1>1, <1>2, <1>4 DEF AddressesReserved, EmailsUnique, HasAccount
<1>5. ASSUME NEW m \in Members, NEW a \in Addresses, Register(m, a)
      PROVE  AddressesReserved' /\ EmailsUnique'
  <2>1. /\ email'[m] = a /\ \A l \in Members \ {m} : email'[l] = email[l] /\ email[l] # a
        /\ ~HasAccount(m) /\ ~Unsettled(m, a)
    BY <1>5, EmailChangeAssumption DEF Register, InUse, TypeOK, HasAccount
  <2>2. EmailsUnique'
    BY <2>1 DEF EmailsUnique, HasAccount
  <2>3. \A l \in Members : HasAccount(l) => HasAccount(l)'
    BY <2>1 DEF HasAccount
  <2>4. ASSUME NEW p \in Movers PROVE req[p].member # m /\ req[p].address # a
    <3>1. req[p].member # m
      BY <1>3, <2>1, EmailChangeAssumption DEF AddressesReserved
    <3>2. QED BY <2>1, <3>1 DEF Unsettled
  <2>5. AddressesReserved'
    BY <1>1, <1>2, <2>1, <2>3, <2>4 DEF AddressesReserved
  <2>6. QED BY <2>2, <2>5
<1>6. ASSUME NEW m \in Members, DeleteAccount(m)
      PROVE  AddressesReserved' /\ EmailsUnique'
  <2>1. /\ email'[m] = Gone /\ \A l \in Members \ {m} : email'[l] = email[l]
        /\ Gone \notin Addresses /\ userOwner[m] = None
    BY <1>6, EmailChangeAssumption DEF DeleteAccount, TypeOK
  <2>2. EmailsUnique'
    BY <2>1 DEF EmailsUnique, HasAccount
  <2>3. QED BY <1>1, <1>2, <1>3, <2>1, <2>2 DEF AddressesReserved, HasAccount
<1>7. Cleanup \/ Tick \/ UNCHANGED vars => email' = email
  BY DEF Cleanup, Tick, vars, tables
<1>8. QED BY <1>4, <1>5, <1>6, <1>7 DEF Surroundings

-----------------------------------------------------------------------------
(* The surroundings *)

\* Pending changes that nobody holds and counters may be gone once they have run out.
LEMMA SurroundingsMove ==
    ASSUME TypeOK, Surroundings
    PROVE  /\ now' \in Nat /\ now' >= now
           /\ \A r \in Rows :
                /\ pending'[r] = pending[r] \/ (pending'[r] = None /\ rowOwner[r] = None)
                /\ \/ guesses'[r] = guesses[r]
                   \/ guesses'[r] = None /\ guesses[r] # None /\ guesses[r].expiresAt < now /\ now' = now
<1>0. now \in Nat /\ Leap \in Nat
  BY EmailChangeAssumption DEF TypeOK
<1>1. CASE Cleanup
  BY <1>0, <1>1 DEF Cleanup, TypeOK
<1>2. CASE Tick
  BY <1>0, <1>2 DEF Tick, tables
<1>3. CASE (\E m \in Members : DeleteAccount(m) \/ \E a \in Addresses : Register(m, a)) \/ UNCHANGED vars
  BY <1>0, <1>3 DEF DeleteAccount, Register, vars, tables
<1>4. QED BY <1>1, <1>2, <1>3 DEF Surroundings

LEMMA SurroundingsKeepInvariant ==
    ASSUME IInv, Surroundings
    PROVE  IInv'
<1>0. /\ TypeOK /\ RoomLeft /\ RequestsSound /\ RowsFresh /\ RowsHeld /\ GuessesKept
      /\ GuessesBounded /\ CodeWorksOnce /\ AddressesReserved /\ EmailsUnique
  BY DEF IInv
<1>k. UNCHANGED <<pc, req, rowOwner, userOwner, issued, mailed, lapses, judged, spent>>
  BY SurroundingsKeep
<1>t. /\ now \in Nat /\ now' \in Nat /\ now' >= now /\ TTL \in Nat
      /\ lapses \in [Rows -> Nat] /\ guesses \in [Rows -> CounterRecord \cup {None}]
  BY <1>0, SurroundingsMove, EmailChangeAssumption DEF TypeOK
<1>1. TypeOK'
  BY <1>0, SurroundingsKeepTypes
<1>2. RoomLeft'
  BY <1>0, <1>k DEF RoomLeft, Inserting
<1>3. RequestsSound'
  <2> SUFFICES ASSUME NEW p \in Requests PROVE RequestSound(p)'
    BY DEF RequestsSound
  <2>1. pc[p] \in HasRow => req[p].row \in Rows
    BY <1>0, RowWasInserted
  <2> DEFINE r == req[p].row
  <2>2. pc[p] \in HasRow /\ pending'[r] # None => pending'[r] = pending[r]
    BY <1>0, <2>1, SurroundingsMove
  <2>3. RequestSound(p)
    BY <1>0 DEF RequestsSound
  <2>4. QED BY <1>k, <2>2, <2>3 DEF RequestSound
<1>4. RowsFresh'
  <2> SUFFICES ASSUME NEW r \in Rows
               PROVE  /\ r > issued =>
                           pending'[r] = None /\ guesses'[r] = None /\ judged[r] = 0 /\ spent[r] = 0
                      /\ pending'[r] # None => spent[r] = 0
                      /\ lapses[r] <= now' + TTL
    BY <1>k DEF RowsFresh
  <2>1. /\ r > issued => pending[r] = None /\ guesses[r] = None /\ judged[r] = 0 /\ spent[r] = 0
        /\ pending[r] # None => spent[r] = 0
        /\ lapses[r] <= now + TTL
    BY <1>0 DEF RowsFresh
  <2>2. lapses[r] <= now' + TTL
    BY <1>t, <2>1
  <2>3. QED BY <1>0, <2>1, <2>2, SurroundingsMove
<1>5. RowsHeld'
  <2> SUFFICES ASSUME NEW p \in Requests, pc[p] \in {"move", "moved"}
               PROVE  rowOwner[req[p].row] = p /\ pending'[req[p].row] # None
    BY <1>k DEF RowsHeld
  <2>1. req[p].row \in Rows /\ rowOwner[req[p].row] = p /\ pending[req[p].row] # None
    BY <1>0, RowWasInserted DEF RowsHeld, HasRow
  <2>2. p # None
    BY EmailChangeAssumption
  <2>3. QED BY <1>0, <2>1, <2>2, SurroundingsMove
<1>6. GuessesKept'
  <2> SUFFICES ASSUME NEW r \in Rows, now' < lapses[r]
               PROVE  /\ judged[r] > 0 => guesses'[r] # None /\ guesses'[r].count >= judged[r]
                      /\ guesses'[r] # None => guesses'[r].expiresAt >= lapses[r]
    BY <1>k DEF GuessesKept
  <2>1. /\ judged[r] > 0 => guesses[r] # None /\ guesses[r].count >= judged[r]
        /\ guesses[r] # None => guesses[r].expiresAt >= lapses[r]
    BY <1>0, <1>t DEF GuessesKept
  <2>2. guesses[r] # None => guesses[r].expiresAt \in Nat
    BY <1>t DEF CounterRecord
  <2>3. lapses[r] \in Nat
    BY <1>t
  <2>4. guesses'[r] = guesses[r]
    BY <1>0, <1>t, <2>1, <2>2, <2>3, SurroundingsMove
  <2>5. QED BY <2>1, <2>4
<1>7. GuessesBounded' /\ CodeWorksOnce'
  BY <1>0, <1>k DEF GuessesBounded, CodeWorksOnce
<1>8. AddressesReserved' /\ EmailsUnique'
  BY <1>0, SurroundingsKeepAddresses
<1>9. QED BY <1>1, <1>2, <1>3, <1>4, <1>5, <1>6, <1>7, <1>8 DEF IInv

-----------------------------------------------------------------------------
(* The invariant *)

LEMMA InitialInvariant == Init => IInv
<1> SUFFICES ASSUME Init PROVE IInv
  OBVIOUS
<1>1. /\ MaxRows \in Nat /\ TTL \in Nat /\ MaxGuesses \in Nat
  BY EmailChangeAssumption
<1>2. \A r \in Rows : /\ pending[r] = None /\ guesses[r] = None /\ rowOwner[r] = None
                      /\ lapses[r] = 0 /\ judged[r] = 0 /\ spent[r] = 0
  BY DEF Init
<1>3. \A q \in Requests : pc[q] = "idle"
  BY DEF Init
<1>4. TypeOK
  BY <1>1, NothingIsTyped DEF Init, TypeOK
<1>5. RoomLeft
  <2>1. Inserting = {} /\ issued = 0
    BY <1>3 DEF Inserting, Init
  <2>2. QED BY <1>1, <2>1, FS_EmptySet DEF RoomLeft
<1>6. RequestsSound /\ RowsHeld
  BY <1>3 DEF RequestsSound, RequestSound, RowsHeld, HasRow
<1>7. RowsFresh
  <2>1. now = 0
    BY DEF Init
  <2>2. QED BY <1>1, <1>2, <2>1 DEF RowsFresh
<1>8. GuessesKept /\ GuessesBounded /\ CodeWorksOnce
  <2>1. now = 0
    BY DEF Init
  <2>2. QED BY <1>1, <1>2, <2>1 DEF GuessesKept, GuessesBounded, CodeWorksOnce
<1>9. AddressesReserved /\ EmailsUnique
  BY <1>3, EmailChangeAssumption DEF Init, AddressesReserved, EmailsUnique, HasAccount, Movers
<1>10. QED BY <1>4, <1>5, <1>6, <1>7, <1>8, <1>9 DEF IInv

LEMMA InvariantKept == IInv /\ [Next]_vars => IInv'
<1> SUFFICES ASSUME IInv, [Next]_vars PROVE IInv'
  OBVIOUS
<1>1. CASE Surroundings
  BY <1>1, SurroundingsKeepInvariant
<1>2. ASSUME NEW q \in Requests, Own(q) PROVE IInv'
  <2>0. /\ TypeOK /\ RoomLeft /\ RequestsSound /\ RowsFresh /\ RowsHeld /\ GuessesKept
        /\ GuessesBounded /\ CodeWorksOnce /\ AddressesReserved /\ EmailsUnique
    BY DEF IInv
  <2>1. TypeOK' /\ RoomLeft'
    BY <1>2, <2>0, OwnKeepsTypes, RoomKept
  <2>2. RequestsSound'
    <3>1. \A p \in Requests : RequestSound(p)'
      BY <1>2, <2>0, OthersStaySound, OwnStaysSound
    <3>2. QED BY <3>1 DEF RequestsSound
  <2>3. RowsFresh' /\ RowsHeld'
    BY <1>2, <2>0, OwnKeepsFresh, OwnKeepsHeld
  <2>4. GuessesKept' /\ GuessesBounded' /\ CodeWorksOnce'
    BY <1>2, <2>0, OwnKeepsGuesses, OwnKeepsOnce
  <2>5. AddressesReserved' /\ EmailsUnique'
    BY <1>2, <2>0, OwnKeepsAddresses
  <2>6. QED BY <2>1, <2>2, <2>3, <2>4, <2>5 DEF IInv
<1>3. QED BY <1>1, <1>2, StepsAre

\* The invariant of the endpoints start and verify: what each request knows of its pending
\* change is true of it, and what it has consumed it holds.
THEOREM Invariance == Spec => []IInv
<1>1. Init => IInv
  BY InitialInvariant
<1>2. IInv /\ [Next]_vars => IInv'
  BY InvariantKept
<1>3. QED BY <1>1, <1>2, PTL DEF Spec

\* The tables and locks of an email change keep their types, and a lock belongs to an open
\* transaction.
THEOREM TypeCorrect == Spec => []TypeOK
<1>1. IInv => TypeOK
  BY DEF IInv
<1>2. QED BY <1>1, Invariance, PTL

\* No two accounts ever have one address: the address a request is about to write is kept
\* from everybody else by the unique index (users_email_unique).
THEOREM UniqueEmails == Spec => []EmailsUnique
<1>1. IInv => EmailsUnique
  BY DEF IInv
<1>2. QED BY <1>1, Invariance, PTL

-----------------------------------------------------------------------------
(* The waits *)

\* A DELETE locks its rows in their order: what it still has to lock comes after what it
\* has locked.
RowsInOrder ==
    \A q \in Requests : pc[q] = "insert" =>
        \A r \in req[q].todo, s \in Rows : rowOwner[s] = q => s < r

\* The last of a set of rows.
LEMMA LastRow ==
    ASSUME NEW B \in SUBSET Rows, B # {}
    PROVE  \E r \in B : \A s \in B : s <= r
<1> DEFINE Later(r) == {s \in B : s > r}
           T == {Later(r) : r \in B}
<1>0. Rows \in SUBSET Nat
  BY EmailChangeAssumption DEF Rows
<1>1. IsFiniteSet(Rows)
  BY EmailChangeAssumption, FS_Interval DEF Rows
<1>2. FiniteSubsetsOf(Rows) = SUBSET Rows
  BY <1>1, FS_FiniteSubsetsOfFinite
<1>3. IsWellFoundedOn(StrictSubsetOrdering(Rows), SUBSET Rows)
  BY <1>2, FS_StrictSubsetOrderingWellFounded
<1>4. T \subseteq SUBSET Rows /\ T # {}
  OBVIOUS
<1>5. PICK x \in T : \A y \in T : <<y, x>> \notin StrictSubsetOrdering(Rows)
  <2> HIDE DEF T
  <2>1. QED BY <1>3, <1>4, WFMin
<1>6. PICK r \in B : x = Later(r)
  OBVIOUS
<1>7. ASSUME NEW s \in B, s > r PROVE FALSE
  <2>1. s \in Nat /\ r \in Nat
    BY <1>0
  <2>2. s \in Later(r) /\ s \notin Later(s)
    BY <1>7, <2>1
  <2>3. ASSUME NEW b \in Later(s) PROVE b \in Later(r)
    BY <1>0, <1>7, <2>1
  <2>4. Later(s) \in T /\ Later(s) \subseteq Later(r) /\ Later(s) # Later(r)
    BY <2>2, <2>3
  <2>5. <<Later(s), Later(r)>> \in StrictSubsetOrdering(Rows)
    BY <2>4, <1>4, <1>6 DEF StrictSubsetOrdering
  <2>6. QED BY <2>4, <2>5, <1>5, <1>6
<1>8. QED BY <1>0, <1>7

\* Why: a DELETE starts with nothing locked, and takes the first of what is left.
LEMMA OwnKeepsOrder ==
    ASSUME TypeOK, RowsInOrder, NEW q \in Requests, Own(q)
    PROVE  RowsInOrder'
<1> SUFFICES ASSUME NEW p \in Requests, pc'[p] = "insert",
                    NEW r \in req'[p].todo, NEW s \in Rows, rowOwner'[s] = p
             PROVE  s < r
  BY DEF RowsInOrder
<1>0. p # None /\ Rows \in SUBSET Nat
  BY EmailChangeAssumption DEF Rows
<1>1. CASE p # q
  BY <1>1, OthersKnow, OthersHold DEF RowsInOrder
<1>2. CASE p = q
  <2>1. Replace(q) \/ ReplaceNext(q)
    BY <1>2, StandsAt
  <2>2. CASE Replace(q)
    <3>1. pc[q] = "replace" /\ rowOwner' = rowOwner
      BY <2>2 DEF Replace, locks
    <3>2. rowOwner[s] = q
      BY <1>2, <3>1
    <3>3. pc[q] \in {"insert", "move", "moved"}
      BY <1>0, <1>2, <3>2 DEF TypeOK
    <3>4. QED BY <3>1, <3>3
  <2>3. CASE ReplaceNext(q)
    <3>1. PICK t \in req[q].todo :
            /\ \A u \in req[q].todo : t <= u
            /\ rowOwner' = IF pending[t] = None THEN rowOwner ELSE [rowOwner EXCEPT ![t] = q]
            /\ req' = [req EXCEPT ![q].todo = @ \ {t}]
      BY <2>3 DEF ReplaceNext
    <3>2. pc[q] = "insert" /\ req \in [Requests -> RequestRecord]
      BY <2>3 DEF ReplaceNext, TypeOK
    <3>3. req[q].todo \in SUBSET Rows
      BY <3>2 DEF RequestRecord
    <3>4. req'[q].todo = req[q].todo \ {t}
      BY <3>1, <3>2
    <3>5. r \in req[q].todo /\ r # t /\ t \in Rows /\ r \in Rows
      BY <1>2, <3>3, <3>4
    <3>6. rowOwner[s] = q \/ s = t
      BY <1>2, <3>1
    <3>7. t < r
      BY <1>0, <3>1, <3>5
    <3>8. QED BY <3>2, <3>5, <3>6, <3>7 DEF RowsInOrder
  <2>4. QED BY <2>1, <2>2, <2>3
<1>3. QED BY <1>1, <1>2

\* Every DELETE locks its rows in one order, in every state of the endpoints.
THEOREM LocksInOrder == Spec => []RowsInOrder
<1>1. Init => RowsInOrder
  BY DEF Init, RowsInOrder
<1>2. IInv /\ RowsInOrder /\ [Next]_vars => RowsInOrder'
  <2> SUFFICES ASSUME IInv, RowsInOrder, [Next]_vars PROVE RowsInOrder'
    OBVIOUS
  <2>1. CASE Surroundings
    BY <2>1, SurroundingsKeep DEF RowsInOrder
  <2>2. ASSUME NEW q \in Requests, Own(q) PROVE RowsInOrder'
    BY <2>2, OwnKeepsOrder DEF IInv
  <2>3. QED BY <2>1, <2>2, StepsAre
<1>3. QED BY <1>1, <1>2, Invariance, PTL DEF Spec

\* Who is moving an address waits at most for somebody who has only to commit.
LEMMA MoversGoOn ==
    ASSUME IInv, NEW p \in Requests, pc[p] \in {"move", "moved"}
    PROVE  \E o \in UnderWay : ~Waits(o)
<1>1. ASSUME NEW o \in Requests, pc[o] = "moved" PROVE o \in UnderWay /\ ~Waits(o)
  BY <1>1 DEF UnderWay, Waits
<1>2. CASE pc[p] = "moved"
  BY <1>1, <1>2
<1>3. CASE pc[p] = "move" /\ Waits(p)
  <2>1. CASE userOwner[req[p].member] # None
    <3>1. req[p].member \in Members
      BY <1>3 DEF IInv, RequestsSound, RequestSound
    <3>2. userOwner[req[p].member] \in Requests /\ pc[userOwner[req[p].member]] = "moved"
      BY <2>1, <3>1 DEF IInv, TypeOK
    <3>3. QED BY <1>1, <3>2
  <2>2. CASE Unsettled(req[p].member, req[p].address)
    BY <1>1, <2>2 DEF Unsettled, Movers
  <2>3. QED BY <1>3, <2>1, <2>2 DEF Waits
<1>4. CASE pc[p] = "move" /\ ~Waits(p)
  BY <1>4 DEF UnderWay
<1>5. QED BY <1>2, <1>3, <1>4

\* Why: of the rows that a DELETE has locked take the last.  Whoever holds it waits, if at
\* all, for a later row, and that is held by somebody who is moving an address.
LEMMA RowsComeFree ==
    ASSUME IInv, RowsInOrder, NEW r \in Rows, rowOwner[r] # None
    PROVE  \E o \in UnderWay : ~Waits(o)
<1> DEFINE Held == {s \in Rows : rowOwner[s] # None /\ pc[rowOwner[s]] = "insert"}
<1>0. Rows \in SUBSET Nat
  BY EmailChangeAssumption DEF Rows
<1>1. ASSUME NEW s \in Rows, rowOwner[s] # None
      PROVE  rowOwner[s] \in Requests /\ pc[rowOwner[s]] \in {"insert", "move", "moved"}
  BY <1>1 DEF IInv, TypeOK
<1>2. ASSUME NEW s \in Rows, rowOwner[s] # None, s \notin Held
      PROVE  \E o \in UnderWay : ~Waits(o)
  BY <1>1, <1>2, MoversGoOn
<1>3. CASE Held = {}
  BY <1>2, <1>3
<1>4. CASE Held # {}
  <2>1. PICK s \in Held : \A t \in Held : t <= s
    <3> HIDE DEF Held
    <3>1. Held \in SUBSET Rows
      BY DEF Held
    <3>2. QED BY <1>4, <3>1, LastRow
  <2>2. rowOwner[s] \in Requests /\ pc[rowOwner[s]] = "insert"
    BY <2>1, <1>1
  <2>3. CASE Waits(rowOwner[s])
    <3>1. PICK t \in req[rowOwner[s]].todo : rowOwner[t] # None
      BY <2>2, <2>3 DEF Waits
    <3>2. t \in Rows
      BY <2>2, <3>1 DEF IInv, TypeOK, RequestRecord
    <3>3. s < t
      BY <2>2, <3>1 DEF RowsInOrder
    <3>4. t \notin Held
      <4>1. s \in Nat /\ t \in Nat
        BY <1>0, <2>1, <3>2
      <4> HIDE DEF Held
      <4>2. QED BY <2>1, <3>3, <4>1
    <3>5. QED BY <1>2, <3>1, <3>2, <3>4
  <2>4. CASE ~Waits(rowOwner[s])
    BY <2>2, <2>4 DEF UnderWay
  <2>5. QED BY <2>3, <2>4
<1>5. QED BY <1>3, <1>4

\* The locks of the two endpoints keep addresses apart and never form a circle, for any
\* number of requests: rows are locked in one order before members, and members before the
\* entries of the index.
THEOREM LocksAreSound == Spec => []LocksSound
<1>1. IInv /\ RowsInOrder => NoStandstill
  <2> SUFFICES ASSUME IInv, RowsInOrder, NEW q \in UnderWay, Waits(q)
               PROVE  \E o \in UnderWay : ~Waits(o)
    BY DEF NoStandstill
  <2>1. q \in Requests
    BY DEF UnderWay
  <2>2. CASE pc[q] = "move"
    BY <2>1, <2>2, MoversGoOn
  <2>3. CASE pc[q] = "insert"
    <3>1. PICK r \in req[q].todo : rowOwner[r] # None
      BY <2>3 DEF Waits
    <3>2. r \in Rows
      BY <2>1, <3>1 DEF IInv, TypeOK, RequestRecord
    <3>3. QED BY <3>1, <3>2, RowsComeFree
  <2>4. CASE pc[q] \in {"burn", "consume"}
    <3>1. req[q].row \in Rows
      BY <2>1, <2>4, EmailChangeAssumption
         DEF IInv, TypeOK, RequestsSound, RequestSound, HasRow, Rows
    <3>2. rowOwner[req[q].row] # None
      BY <2>4 DEF Waits
    <3>3. QED BY <3>1, <3>2, RowsComeFree
  <2>5. QED BY <2>2, <2>3, <2>4 DEF Waits
<1>2. IInv => TypeOK /\ EmailsUnique
  BY DEF IInv
<1>3. QED BY <1>1, <1>2, Invariance, LocksInOrder, PTL DEF LocksSound

\* "Any number of concurrent guesses still gets five in total", and "a code works once":
\* at most MaxGuesses guesses are judged before a pending change runs out, and it moves an
\* account at most once.
THEOREM GuessesAndUses == Spec => []CodesLimited
<1>1. IInv => CodesLimited
  BY DEF IInv, CodesLimited
<1>2. QED BY <1>1, Invariance, PTL

\* An account that has an address gets another one only by the commit of a request that
\* carries the code of a pending change of this member to that address, which was mailed.
THEOREM AddressIsProven == Spec => ChangeIsProven
<1> DEFINE Proven ==
      \A m \in Members :
         HasAccount(m) /\ email'[m] \in Addresses /\ email'[m] # email[m]
           => \E r \in mailed : pending[r] # None /\ pending[r].member = m
                                  /\ pending[r].address = email'[m]
<1>1. IInv /\ [Next]_vars => [Proven]_vars
  <2> SUFFICES ASSUME IInv, [Next]_vars, NEW m \in Members,
                      HasAccount(m), email'[m] \in Addresses, email'[m] # email[m]
               PROVE  \E r \in mailed : pending[r] # None /\ pending[r].member = m
                                         /\ pending[r].address = email'[m]
    OBVIOUS
  <2>0. TypeOK /\ RoomLeft /\ RequestsSound /\ RowsHeld
    BY DEF IInv
  <2>1. ~Surroundings
    BY <2>0, EmailChangeAssumption
    DEF Surroundings, DeleteAccount, Register, Cleanup, Tick, vars, tables, HasAccount, TypeOK
  <2>2. PICK q \in Requests : Commit(q)
    BY <2>0, <2>1, StepsAre, HistoryMoves
  <2> DEFINE r == req[q].row
  <2>3. /\ pending[r] # None /\ r \in Rows /\ req[q].typed = r
        /\ pending[r].member = req[q].member /\ pending[r].address = req[q].address
        /\ req[q].typed \in mailed \cup {Wrong}
    BY <2>0, <2>2, RowWasInserted
    DEF Commit, RowsHeld, RequestsSound, RequestSound, HasRow
  <2>4. r \in mailed
    BY <2>3, EmailChangeAssumption
  <2>5. m = req[q].member /\ email'[m] = req[q].address
    BY <2>0, <2>2 DEF Commit, TypeOK
  <2>6. QED BY <2>3, <2>4, <2>5
<1>2. QED BY <1>1, Invariance, PTL DEF Spec, ChangeIsProven

=============================================================================
