-------------------------- MODULE LimiterVaultProofs --------------------------
(***************************************************************************)
(* Two components that share no state.                                     *)
(*                                                                         *)
(* What Limiter guarantees for every set of keys, every window and every   *)
(* maximum: its types, and that the table with its lazy expiry and its     *)
(* cleanup implements Quota, that bursts are bounded, and that whoever has *)
(* waited as told is let through.  IInv adds to the types that a           *)
(* row spans exactly one window and began in the past, which bounds the    *)
(* wait a caller is told.  UInv, on top of it, ties the history of allowed *)
(* uses to the rows: a window let through no more than its row counted,    *)
(* and windows of one key do not overlap.                                  *)
(*                                                                         *)
(* What Pictures and BrainVault guarantee for every set of pictures,       *)
(* requests and runs: a version always has its picture, a run of the       *)
(* export that is alone rebuilds the folder, and the owner's files are     *)
(* never touched.  VaultInv says where a file being written can be, what   *)
(* a run that is alone has done of the folder at each of its steps, and    *)
(* what may stand where it is about to write.                              *)
(***************************************************************************)
EXTENDS Limiter, BrainVault, FiniteSetTheorems, TLAPS

-----------------------------------------------------------------------------
(* The limiter *)

RowSpansWindow(row) ==
    row # None => row.startedAt <= now /\ row.expiresAt = row.startedAt + Window

IInv ==
    /\ TypeOK
    /\ \A k \in Keys : RowSpansWindow(counter[k])

\* Why: what the upsert writes is a row of one window, open now, and what hit returns
\* of it is within the types.
LEMMA UseIsTyped ==
    ASSUME IInv, NEW k \in Keys
    PROVE  LET row == Bumped(counter[k], now) IN
           /\ row \in CounterRecord
           /\ row.startedAt <= now
           /\ row.expiresAt = row.startedAt + Window
           /\ row.expiresAt > now
           /\ Verdict(row, now) \in VerdictRecord
<1> DEFINE row == Bumped(counter[k], now)
<1>1. counter[k] \in CounterRecord \cup {None} /\ now \in Nat /\ RowSpansWindow(counter[k])
  BY DEF IInv, TypeOK
<1>2. CASE Fresh(counter[k], now)
  <2>1. row = [count |-> 1, startedAt |-> now, expiresAt |-> now + Window]
    BY <1>2 DEF Bumped
  <2>2. QED BY <2>1, <1>1, LimiterAssumption DEF CounterRecord, VerdictRecord, Verdict
<1>3. CASE ~Fresh(counter[k], now)
  <2>1. counter[k] \in CounterRecord /\ counter[k].expiresAt > now
    BY <1>1, <1>3 DEF Fresh, CounterRecord
  <2>2. row = [counter[k] EXCEPT !.count = @ + 1]
    BY <1>3 DEF Bumped
  <2>3. /\ row \in CounterRecord
        /\ row.startedAt = counter[k].startedAt
        /\ row.expiresAt = counter[k].expiresAt
    BY <2>1, <2>2 DEF CounterRecord
  <2>4. row.startedAt <= now /\ row.expiresAt = row.startedAt + Window
    BY <2>1, <2>3, <1>1, LimiterAssumption DEF RowSpansWindow
  <2>5. row.expiresAt - now \in 1..Window /\ 1 \in 1..Window
    BY <2>1, <2>3, <2>4, <1>1, LimiterAssumption DEF CounterRecord
  <2>6. Verdict(row, now) \in VerdictRecord
    BY <2>3, <2>5, LimiterAssumption DEF Verdict, VerdictRecord, CounterRecord
  <2>7. QED BY <2>1, <2>3, <2>4, <2>6
<1>4. QED BY <1>2, <1>3

LEMMA InitEstablishes == Init => IInv
BY LimiterAssumption DEF Init, IInv, TypeOK, RowSpansWindow

LEMMA HitPreserves ==
    ASSUME IInv, NEW k \in Keys, Hit(k)
    PROVE  IInv'
<1> DEFINE row == Bumped(counter[k], now)
           told == Verdict(row, now)
<1>1. /\ row \in CounterRecord
      /\ row.startedAt <= now
      /\ row.expiresAt = row.startedAt + Window
      /\ told \in VerdictRecord
  BY UseIsTyped
<1>2. /\ counter' = [counter EXCEPT ![k] = row]
      /\ verdict' = [verdict EXCEPT ![k] = told]
      /\ now' = now
  BY DEF Hit
<1>3. permitted' \in [Keys -> Seq(UseRecord)]
  <2>1. [at |-> now, row |-> row] \in UseRecord
    BY <1>1 DEF UseRecord, IInv, TypeOK
  <2>2. Append(permitted[k], [at |-> now, row |-> row]) \in Seq(UseRecord)
    BY <2>1 DEF IInv, TypeOK
  <2>3. QED BY <2>2 DEF Hit, IInv, TypeOK
<1>4. promised' \in [Keys -> Nat]
  <2>1. now + told.wait \in Nat
    BY <1>1, LimiterAssumption DEF VerdictRecord, IInv, TypeOK
  <2>2. promised' = promised \/ promised' = [promised EXCEPT ![k] = now + told.wait]
    BY DEF Hit
  <2>3. QED BY <2>1, <2>2 DEF IInv, TypeOK
<1>5. counter' \in [Keys -> CounterRecord \cup {None}] /\ verdict' \in [Keys -> VerdictRecord \cup {None}]
  BY <1>1, <1>2 DEF IInv, TypeOK
<1>6. ASSUME NEW l \in Keys PROVE RowSpansWindow(counter[l])'
  BY <1>1, <1>2 DEF IInv, TypeOK, RowSpansWindow
<1>7. QED BY <1>2, <1>3, <1>4, <1>5, <1>6 DEF IInv, TypeOK

LEMMA CleanupPreserves == ASSUME IInv, Cleanup PROVE IInv'
<1>1. /\ counter' = [k \in Keys |-> IF Stale(k) THEN None ELSE counter[k]]
      /\ UNCHANGED <<now, verdict, permitted, promised>>
  BY DEF Cleanup
<1>2. counter' \in [Keys -> CounterRecord \cup {None}]
  BY <1>1 DEF IInv, TypeOK
<1>3. ASSUME NEW k \in Keys PROVE RowSpansWindow(counter[k])'
  BY <1>1 DEF IInv, RowSpansWindow
<1>4. QED BY <1>1, <1>2, <1>3 DEF IInv, TypeOK

LEMMA TickPreserves == ASSUME IInv, Tick PROVE IInv'
<1>1. ASSUME NEW k \in Keys PROVE RowSpansWindow(counter[k])'
  <2>1. counter[k] \in CounterRecord \cup {None} /\ RowSpansWindow(counter[k])
    BY DEF IInv, TypeOK
  <2>2. QED BY <2>1 DEF Tick, RowSpansWindow, CounterRecord, IInv, TypeOK
<1>2. now' \in 0..MaxTime
  BY LimiterAssumption DEF Tick, IInv, TypeOK
<1>3. UNCHANGED <<counter, verdict, permitted, promised>>
  BY DEF Tick
<1>4. QED BY <1>1, <1>2, <1>3 DEF IInv, TypeOK

\* The rows of abuse_counters stay well formed under every order of uses, cleanups and
\* the passing of time.
THEOREM Invariance == Spec => []IInv
<1>1. Init => IInv
  BY InitEstablishes
<1>2. IInv /\ [Next]_vars => IInv'
  <2> SUFFICES ASSUME IInv, [Next]_vars PROVE IInv'
    OBVIOUS
  <2>1. CASE Tick
    BY <2>1, TickPreserves
  <2>2. CASE Cleanup
    BY <2>2, CleanupPreserves
  <2>3. ASSUME NEW k \in Keys, Hit(k) PROVE IInv'
    BY <2>3, HitPreserves
  <2>4. CASE UNCHANGED vars
    BY <2>4 DEF vars, IInv, TypeOK, RowSpansWindow
  <2>5. QED BY <2>1, <2>2, <2>3, <2>4 DEF Next, Horizon
<1>3. QED BY <1>1, <1>2, PTL DEF Spec

\* The wait hit returns is at least 1 and at most the window, whatever the order of uses.
THEOREM TypeCorrect == Spec => []TypeOK
<1>1. IInv => TypeOK
  BY DEF IInv
<1>2. QED BY <1>1, Invariance, PTL

-----------------------------------------------------------------------------
(* Refinement *)

LEMMA HitIsUse ==
    ASSUME IInv, NEW k \in Keys, Hit(k)
    PROVE  Promise!Use(k)
<1> DEFINE row == Bumped(counter[k], now)
           told == Verdict(row, now)
           view == [l \in Keys |-> OpenWindow(l)]
           used == IF view[k] = None THEN [used |-> 1, closes |-> now + Window]
                   ELSE [used |-> view[k].used + 1, closes |-> view[k].closes]
<1>1. /\ row \in CounterRecord
      /\ row.expiresAt > now
  BY UseIsTyped
<1>2. /\ counter' = [counter EXCEPT ![k] = row]
      /\ verdict' = [verdict EXCEPT ![k] = told]
      /\ now' = now
  BY DEF Hit
<1>3. used = [used |-> row.count, closes |-> row.expiresAt]
  <2>1. CASE Fresh(counter[k], now)
    BY <2>1 DEF OpenWindow, Bumped
  <2>2. CASE ~Fresh(counter[k], now)
    <3>1. counter[k] \in CounterRecord
      BY <2>2 DEF Fresh, IInv, TypeOK
    <3>2. row.count = counter[k].count + 1 /\ row.expiresAt = counter[k].expiresAt
      BY <2>2, <3>1 DEF Bumped, CounterRecord
    <3>3. view[k] = [used |-> counter[k].count, closes |-> counter[k].expiresAt]
      BY <2>2 DEF OpenWindow
    <3>4. view[k] # None
      BY <3>1, <3>3, LimiterAssumption DEF CounterRecord
    <3>5. QED BY <3>2, <3>3, <3>4
  <2>3. QED BY <2>1, <2>2
<1>4. told = [allowed |-> used.used <= MaxUses, wait |-> used.closes - now]
  BY <1>1, <1>3 DEF Verdict, CounterRecord, IInv, TypeOK
<1>5. view' = [view EXCEPT ![k] = used]
  <2>1. OpenWindow(k)' = used
    <3>1. counter'[k] = row /\ row # None
      BY <1>1, <1>2, LimiterAssumption DEF IInv, TypeOK
    <3>2. ~Fresh(counter'[k], now')
      BY <3>1, <1>1, <1>2 DEF Fresh, CounterRecord, IInv, TypeOK
    <3>3. QED BY <3>1, <3>2, <1>3 DEF OpenWindow
  <2>2. ASSUME NEW l \in Keys, l # k PROVE OpenWindow(l)' = OpenWindow(l)
    <3>1. counter'[l] = counter[l]
      BY <2>2, <1>2 DEF IInv, TypeOK
    <3>2. QED BY <3>1, <1>2 DEF OpenWindow
  <2>3. QED BY <2>1, <2>2
<1>6. QED BY <1>2, <1>4, <1>5 DEF Promise!Use, Promise!Used

LEMMA TickIsPass ==
    ASSUME IInv, Tick
    PROVE  Promise!Pass
<1> DEFINE view == [l \in Keys |-> OpenWindow(l)]
<1>1. now' = now + 1 /\ counter' = counter /\ verdict' = verdict /\ now \in Nat
  BY DEF Tick, IInv, TypeOK
<1>2. ASSUME NEW k \in Keys
      PROVE  OpenWindow(k)' = IF view[k] # None /\ view[k].closes <= now + 1
                              THEN None ELSE view[k]
  <2>1. CASE Fresh(counter[k], now)
    <3>1. Fresh(counter'[k], now')
      BY <2>1, <1>1 DEF Fresh, IInv, TypeOK, CounterRecord
    <3>2. QED BY <2>1, <3>1 DEF OpenWindow
  <2>2. CASE ~Fresh(counter[k], now)
    <3>1. counter[k] \in CounterRecord
      BY <2>2 DEF Fresh, IInv, TypeOK
    <3>2. view[k] = [used |-> counter[k].count, closes |-> counter[k].expiresAt]
      BY <2>2 DEF OpenWindow
    <3>3. view[k] # None /\ counter[k] # None
      BY <3>1, <3>2, LimiterAssumption DEF CounterRecord
    <3>4. Fresh(counter'[k], now') <=> view[k].closes <= now + 1
      BY <1>1, <3>2, <3>3 DEF Fresh
    <3>5. QED BY <1>1, <3>2, <3>3, <3>4 DEF OpenWindow
  <2>3. QED BY <2>1, <2>2
<1>3. view' = [k \in Keys |-> IF view[k] # None /\ view[k].closes <= now + 1
                              THEN None ELSE view[k]]
  BY <1>2
<1>4. QED BY <1>1, <1>3 DEF Promise!Pass

LEMMA CleanupIsStutter ==
    ASSUME IInv, Cleanup
    PROVE  UNCHANGED Promise!quota
<1>1. /\ counter' = [k \in Keys |-> IF Stale(k) THEN None ELSE counter[k]]
      /\ now' = now /\ verdict' = verdict
  BY DEF Cleanup
<1>2. ASSUME NEW k \in Keys PROVE OpenWindow(k)' = OpenWindow(k)
  <2>1. CASE Stale(k)
    <3>1. counter'[k] = None /\ counter[k] \in CounterRecord
      BY <1>1, <2>1 DEF Stale, IInv, TypeOK
    <3>2. Fresh(counter[k], now) /\ Fresh(counter'[k], now')
      BY <2>1, <3>1 DEF Stale, Fresh, CounterRecord, IInv, TypeOK
    <3>3. QED BY <3>2 DEF OpenWindow
  <2>2. CASE ~Stale(k)
    BY <1>1, <2>2 DEF OpenWindow
  <2>3. QED BY <2>1, <2>2
<1>3. [k \in Keys |-> OpenWindow(k)]' = [k \in Keys |-> OpenWindow(k)]
  BY <1>2
<1>4. QED BY <1>1, <1>3 DEF Promise!quota

\* The limiter keeps its promise: callers cannot tell the table with its lazy expiry and
\* its cleanup from windows that close by themselves.
THEOREM ImplementsQuota == Spec => KeepsQuota
<1>1. Init => Promise!Init
  BY DEF Init, Promise!Init, OpenWindow, Fresh
<1>2. IInv /\ [Next]_vars => [Promise!Next]_(Promise!quota)
  <2> SUFFICES ASSUME IInv, [Next]_vars PROVE [Promise!Next]_(Promise!quota)
    OBVIOUS
  <2>1. CASE Tick
    BY <2>1, TickIsPass DEF Promise!Next
  <2>2. CASE Cleanup
    BY <2>2, CleanupIsStutter
  <2>3. ASSUME NEW k \in Keys, Hit(k) PROVE Promise!Next
    BY <2>3, HitIsUse DEF Promise!Next
  <2>4. CASE UNCHANGED vars
    BY <2>4 DEF vars, Promise!quota, OpenWindow
  <2>5. QED BY <2>1, <2>2, <2>3, <2>4 DEF Next, Horizon
<1>3. QED BY <1>1, <1>2, Invariance, PTL DEF Spec, KeepsQuota, Promise!Spec

-----------------------------------------------------------------------------
(* The uses that were allowed *)

Uses(k) == DOMAIN permitted[k]

Opened(k, i) == permitted[k][i].row.startedAt

Nth(k, i) == permitted[k][i].row.count

\* A use was allowed within its window, as one of the first MaxUses.
UsesInWindow(k) ==
    \A i \in Uses(k) :
        /\ Nth(k, i) \in 1..MaxUses
        /\ Opened(k, i) <= permitted[k][i].at
        /\ permitted[k][i].at < Opened(k, i) + Window
        /\ permitted[k][i].at <= now

\* No two uses are the same one of the same window, and windows do not overlap.
UsesApart(k) ==
    \A i, j \in Uses(k) :
        i # j => \/ Opened(k, i) = Opened(k, j) /\ Nth(k, i) # Nth(k, j)
                 \/ Opened(k, i) + Window <= Opened(k, j)
                 \/ Opened(k, j) + Window <= Opened(k, i)

\* A use counts for the row that is there, or its window is over.
UsesBefore(k) ==
    \A i \in Uses(k) :
        IF counter[k] = None THEN Opened(k, i) + Window <= now
        ELSE \/ Opened(k, i) = counter[k].startedAt /\ Nth(k, i) <= counter[k].count
             \/ Opened(k, i) + Window <= counter[k].startedAt

\* What a row counts up to the maximum was allowed.
CountedAreUses(k) ==
    counter[k] # None =>
        \A n \in 1..MaxUses :
            n <= counter[k].count =>
                \E i \in Uses(k) : Opened(k, i) = counter[k].startedAt /\ Nth(k, i) = n

\* The time a refused caller was told is the end of the open window, or past when it opened.
PromiseSound(k) ==
    IF Fresh(counter[k], now) THEN promised[k] <= now
    ELSE promised[k] = counter[k].expiresAt \/ promised[k] <= counter[k].startedAt

UInv == \A k \in Keys :
    UsesInWindow(k) /\ UsesApart(k) /\ UsesBefore(k) /\ CountedAreUses(k) /\ PromiseSound(k)

LEMMA InitUses == Init => UInv
BY DEF Init, UInv, UsesInWindow, UsesApart, UsesBefore, CountedAreUses, PromiseSound, Uses, Fresh

\* Another key, or a step that is no use: what was allowed stays as it is.
LEMMA KeyKept ==
    ASSUME NEW k \in Keys, UInv,
           permitted'[k] = permitted[k], counter'[k] = counter[k],
           promised'[k] = promised[k], now' = now
    PROVE  (UsesInWindow(k) /\ UsesApart(k) /\ UsesBefore(k)
              /\ CountedAreUses(k) /\ PromiseSound(k))'
BY DEF UInv, UsesInWindow, UsesApart, UsesBefore, CountedAreUses, PromiseSound, Uses, Opened, Nth, Fresh

LEMMA UseTyped ==
    ASSUME IInv, NEW k \in Keys, NEW i \in Uses(k)
    PROVE  /\ permitted[k][i].at \in Nat
           /\ Opened(k, i) \in Nat
           /\ Nth(k, i) \in Nat
<1>1. permitted[k] \in Seq(UseRecord)
  BY DEF IInv, TypeOK
<1>2. permitted[k][i] \in UseRecord
  BY <1>1 DEF Uses
<1>3. QED BY <1>2 DEF UseRecord, CounterRecord, Opened, Nth

LEMMA RowTyped ==
    ASSUME IInv, NEW k \in Keys, counter[k] # None
    PROVE  /\ counter[k].count \in Nat
           /\ counter[k].startedAt \in Nat
           /\ counter[k].startedAt <= now
           /\ counter[k].expiresAt = counter[k].startedAt + Window
BY DEF IInv, TypeOK, CounterRecord, RowSpansWindow

\* What one use does to the history of its key.
LEMMA HitAdds ==
    ASSUME IInv, NEW k \in Keys, Hit(k)
    PROVE  LET row == Bumped(counter[k], now) IN
           /\ counter'[k] = row
           /\ now' = now
           /\ \A i \in Uses(k) : i \in Uses(k)' /\ permitted'[k][i] = permitted[k][i]
           /\ \A i \in Uses(k)' :
                 \/ i \in Uses(k)
                 \/ /\ row.count <= MaxUses
                    /\ i = Len(permitted[k]) + 1
                    /\ permitted'[k][i] = [at |-> now, row |-> row]
           /\ row.count <= MaxUses =>
                 LET i == Len(permitted[k]) + 1 IN
                 i \in Uses(k)' /\ permitted'[k][i] = [at |-> now, row |-> row]
<1> DEFINE row == Bumped(counter[k], now)
           use == [at |-> now, row |-> row]
<1>1. /\ permitted \in [Keys -> Seq(UseRecord)]
      /\ counter \in [Keys -> CounterRecord \cup {None}]
  BY DEF IInv, TypeOK
<1>2. counter'[k] = row /\ now' = now
  BY <1>1 DEF Hit
<1>3. use \in UseRecord
  <2>1. row \in CounterRecord /\ now \in Nat
    BY UseIsTyped DEF IInv, TypeOK
  <2> HIDE DEF row
  <2>2. QED BY <2>1 DEF UseRecord
<1>4. Verdict(row, now).allowed <=> row.count <= MaxUses
  BY DEF Verdict
<1>5. CASE row.count <= MaxUses
  <2>1. permitted'[k] = Append(permitted[k], use)
    BY <1>1, <1>4, <1>5 DEF Hit
  <2>2. permitted[k] \in Seq(UseRecord)
    BY <1>1
  <2> HIDE DEF use, row
  <2>3. /\ DOMAIN permitted'[k] = 1..(Len(permitted[k]) + 1)
        /\ DOMAIN permitted[k] = 1..Len(permitted[k])
        /\ Len(permitted[k]) \in Nat
        /\ \A i \in 1..Len(permitted[k]) : permitted'[k][i] = permitted[k][i]
        /\ permitted'[k][Len(permitted[k]) + 1] = use
    BY <2>1, <2>2, <1>3
  <2>4. QED BY <1>2, <1>5, <2>3 DEF Uses, use, row
<1>6. CASE ~(row.count <= MaxUses)
  <2>1. permitted' = permitted
    BY <1>4, <1>6 DEF Hit
  <2>2. QED BY <1>2, <1>6, <2>1 DEF Uses
<1>7. QED BY <1>5, <1>6

\* The row of the use: a fresh one opens a window now, past every window before; a row
\* that is open counts one more.
LEMMA RowOfUse ==
    ASSUME IInv, NEW k \in Keys, UsesBefore(k)
    PROVE  LET row == Bumped(counter[k], now) IN
           /\ row \in CounterRecord /\ row # None
           /\ row.count >= 1
           /\ \/ /\ Fresh(counter[k], now)
                 /\ row.count = 1
                 /\ row.startedAt = now
                 /\ \A i \in Uses(k) : Opened(k, i) + Window <= row.startedAt
              \/ /\ ~Fresh(counter[k], now)
                 /\ counter[k] # None
                 /\ row.count = counter[k].count + 1
                 /\ row.startedAt = counter[k].startedAt
                 /\ row.expiresAt = counter[k].expiresAt
                 /\ \A i \in Uses(k) :
                       \/ Opened(k, i) = row.startedAt /\ Nth(k, i) < row.count
                       \/ Opened(k, i) + Window <= row.startedAt
<1> DEFINE row == Bumped(counter[k], now)
<1>1. row \in CounterRecord /\ row # None
  BY UseIsTyped, LimiterAssumption
<1>2. now \in Nat /\ Window \in Nat /\ counter[k] \in CounterRecord \cup {None}
  BY LimiterAssumption DEF IInv, TypeOK
<1>3. CASE Fresh(counter[k], now)
  <2>1. row.count = 1 /\ row.startedAt = now
    BY <1>3 DEF Bumped
  <2>2. ASSUME NEW i \in Uses(k) PROVE Opened(k, i) + Window <= now
    <3>1. CASE counter[k] = None
      BY <3>1 DEF UsesBefore
    <3>2. CASE counter[k] # None
      <4>1. /\ counter[k].startedAt \in Nat
            /\ counter[k].startedAt <= now
            /\ counter[k].startedAt + Window <= now
        BY <1>3, <3>2, RowTyped DEF Fresh
      <4>2. \/ Opened(k, i) = counter[k].startedAt
            \/ Opened(k, i) + Window <= counter[k].startedAt
        BY <3>2 DEF UsesBefore
      <4>3. Opened(k, i) \in Nat
        BY UseTyped
      <4>4. QED BY <4>1, <4>2, <4>3, <1>2
    <3>3. QED BY <3>1, <3>2
  <2>3. QED BY <1>1, <1>3, <2>1, <2>2
<1>4. CASE ~Fresh(counter[k], now)
  <2>1. counter[k] # None /\ counter[k] \in CounterRecord
    BY <1>2, <1>4 DEF Fresh
  <2>2. /\ row.count = counter[k].count + 1
        /\ row.startedAt = counter[k].startedAt
        /\ row.expiresAt = counter[k].expiresAt
    BY <1>4, <2>1 DEF Bumped, CounterRecord
  <2>3. counter[k].count \in Nat
    BY <2>1, RowTyped
  <2>4. ASSUME NEW i \in Uses(k)
        PROVE  \/ Opened(k, i) = row.startedAt /\ Nth(k, i) < row.count
               \/ Opened(k, i) + Window <= row.startedAt
    <3>1. \/ Opened(k, i) = counter[k].startedAt /\ Nth(k, i) <= counter[k].count
          \/ Opened(k, i) + Window <= counter[k].startedAt
      BY <2>1 DEF UsesBefore
    <3>2. Nth(k, i) \in Nat
      BY UseTyped
    <3>3. QED BY <3>1, <3>2, <2>2, <2>3
  <2>5. row.count >= 1
    BY <2>2, <2>3
  <2>6. QED BY <1>1, <1>4, <2>1, <2>2, <2>4, <2>5
<1>5. QED BY <1>3, <1>4

\* Why: an allowed use finds its place in the window, and the rest stay where they were.
LEMMA HitKeepsUses ==
    ASSUME IInv, UInv, NEW k \in Keys, Hit(k)
    PROVE  UsesInWindow(k)' /\ UsesApart(k)'
<1> DEFINE row == Bumped(counter[k], now)
<1>1. UsesInWindow(k) /\ UsesApart(k) /\ UsesBefore(k)
  BY DEF UInv
<1>2. /\ row \in CounterRecord
      /\ row.startedAt <= now
      /\ row.expiresAt = row.startedAt + Window
      /\ row.expiresAt > now
  BY UseIsTyped
<1>3. /\ row.count >= 1
      /\ \A i \in Uses(k) :
            \/ Opened(k, i) = row.startedAt /\ Nth(k, i) < row.count
            \/ Opened(k, i) + Window <= row.startedAt
  BY <1>1, RowOfUse
<1>4. \A i \in Uses(k) : permitted'[k][i] = permitted[k][i]
  BY HitAdds
<1>5. \A i \in Uses(k)' :
         \/ i \in Uses(k)
         \/ /\ row.count <= MaxUses
            /\ i = Len(permitted[k]) + 1
            /\ permitted'[k][i] = [at |-> now, row |-> row]
  BY HitAdds
<1>6. now \in Nat /\ MaxUses \in Nat /\ Window \in Nat
  BY LimiterAssumption DEF IInv, TypeOK
<1>7. row.count \in Nat /\ row.startedAt \in Nat /\ row.expiresAt \in Nat
  BY <1>2 DEF CounterRecord
<1> HIDE DEF row
<1>8. UsesInWindow(k)'
  <2> SUFFICES ASSUME NEW i \in Uses(k)'
               PROVE  /\ permitted'[k][i].row.count \in 1..MaxUses
                      /\ permitted'[k][i].row.startedAt <= permitted'[k][i].at
                      /\ permitted'[k][i].at < permitted'[k][i].row.startedAt + Window
                      /\ permitted'[k][i].at <= now
    BY HitAdds DEF UsesInWindow, Opened, Nth
  <2>1. CASE i \in Uses(k)
    BY <2>1, <1>1, <1>4 DEF UsesInWindow, Opened, Nth
  <2>2. CASE i \notin Uses(k)
    <3>1. row.count <= MaxUses /\ permitted'[k][i] = [at |-> now, row |-> row]
      BY <2>2, <1>5
    <3>2. permitted'[k][i].at = now /\ permitted'[k][i].row = row
      BY <3>1
    <3>3. QED BY <3>1, <3>2, <1>2, <1>3, <1>6, <1>7
  <2>3. QED BY <2>1, <2>2
<1>9. UsesApart(k)'
  <2> SUFFICES ASSUME NEW i \in Uses(k)', NEW j \in Uses(k)', i # j
               PROVE  \/ Opened(k, i)' = Opened(k, j)' /\ Nth(k, i)' # Nth(k, j)'
                      \/ Opened(k, i)' + Window <= Opened(k, j)'
                      \/ Opened(k, j)' + Window <= Opened(k, i)'
    BY DEF UsesApart
  <2>1. ASSUME NEW l \in Uses(k)'
        PROVE  IF l \in Uses(k)
               THEN Opened(k, l)' = Opened(k, l) /\ Nth(k, l)' = Nth(k, l)
               ELSE /\ l = Len(permitted[k]) + 1
                    /\ Opened(k, l)' = row.startedAt /\ Nth(k, l)' = row.count
    <3>1. CASE l \in Uses(k)
      BY <3>1, <1>4 DEF Opened, Nth
    <3>2. CASE l \notin Uses(k)
      <4>1. l = Len(permitted[k]) + 1 /\ permitted'[k][l] = [at |-> now, row |-> row]
        BY <3>2, <1>5
      <4>2. QED BY <4>1, <3>2 DEF Opened, Nth
    <3>3. QED BY <3>1, <3>2
  <2>2. CASE i \in Uses(k) /\ j \in Uses(k)
    BY <2>1, <2>2, <1>1 DEF UsesApart
  <2>3. ASSUME NEW l \in Uses(k) PROVE Nth(k, l) \in Nat /\ Opened(k, l) \in Nat
    BY UseTyped
  <2>4. CASE i \in Uses(k) /\ j \notin Uses(k)
    BY <2>1, <2>3, <2>4, <1>3, <1>7
  <2>5. CASE i \notin Uses(k) /\ j \in Uses(k)
    BY <2>1, <2>3, <2>5, <1>3, <1>7
  <2>6. CASE i \notin Uses(k) /\ j \notin Uses(k)
    BY <2>1, <2>6
  <2>7. QED BY <2>2, <2>4, <2>5, <2>6
<1>10. QED BY <1>8, <1>9

\* Why: what the row counts up to the maximum is what was allowed in its window.
LEMMA HitKeepsCount ==
    ASSUME IInv, UInv, NEW k \in Keys, Hit(k)
    PROVE  UsesBefore(k)' /\ CountedAreUses(k)'
<1> DEFINE row == Bumped(counter[k], now)
<1>1. UsesBefore(k) /\ CountedAreUses(k)
  BY DEF UInv
<1>2. /\ row \in CounterRecord /\ row # None
      /\ row.count >= 1
      /\ \A i \in Uses(k) :
            \/ Opened(k, i) = row.startedAt /\ Nth(k, i) < row.count
            \/ Opened(k, i) + Window <= row.startedAt
      /\ \/ row.count = 1
         \/ /\ counter[k] # None
            /\ row.count = counter[k].count + 1
            /\ row.startedAt = counter[k].startedAt
  BY <1>1, RowOfUse
<1>3. /\ counter'[k] = row
      /\ \A i \in Uses(k) : i \in Uses(k)' /\ permitted'[k][i] = permitted[k][i]
      /\ \A i \in Uses(k)' :
            i \in Uses(k) \/ permitted'[k][i] = [at |-> now, row |-> row]
      /\ row.count <= MaxUses =>
            \E i \in Uses(k)' : permitted'[k][i] = [at |-> now, row |-> row]
  BY HitAdds
<1>4. row.count \in Nat
  BY <1>2 DEF CounterRecord
<1> HIDE DEF row
<1>5. ASSUME NEW i \in Uses(k)
      PROVE  /\ Opened(k, i)' = Opened(k, i) /\ Nth(k, i)' = Nth(k, i)
             /\ Nth(k, i) \in Nat
  BY <1>3, UseTyped DEF Opened, Nth
<1>6. UsesBefore(k)'
  <2> SUFFICES ASSUME NEW i \in Uses(k)'
               PROVE  \/ Opened(k, i)' = row.startedAt /\ Nth(k, i)' <= row.count
                      \/ Opened(k, i)' + Window <= row.startedAt
    BY <1>2, <1>3 DEF UsesBefore
  <2>1. CASE i \in Uses(k)
    BY <2>1, <1>2, <1>4, <1>5
  <2>2. CASE permitted'[k][i] = [at |-> now, row |-> row]
    BY <2>2, <1>4 DEF Opened, Nth
  <2>3. QED BY <2>1, <2>2, <1>3
<1>7. CountedAreUses(k)'
  <2> SUFFICES ASSUME NEW n \in 1..MaxUses, n <= row.count
               PROVE  \E i \in Uses(k)' : Opened(k, i)' = row.startedAt /\ Nth(k, i)' = n
    BY <1>3 DEF CountedAreUses
  <2>1. CASE n = row.count
    <3>1. row.count <= MaxUses
      BY <2>1, LimiterAssumption
    <3>2. PICK i \in Uses(k)' : permitted'[k][i] = [at |-> now, row |-> row]
      BY <3>1, <1>3
    <3>3. Opened(k, i)' = row.startedAt /\ Nth(k, i)' = row.count
      BY <3>2 DEF Opened, Nth
    <3>4. QED BY <2>1, <3>3
  <2>2. CASE n # row.count
    <3>1. n < row.count /\ row.count # 1
      BY <2>2, <1>4
    <3>2. /\ counter[k] # None
          /\ row.count = counter[k].count + 1
          /\ row.startedAt = counter[k].startedAt
      BY <3>1, <1>2
    <3>3. n <= counter[k].count
      BY <3>1, <3>2, RowTyped
    <3>4. PICK i \in Uses(k) : Opened(k, i) = counter[k].startedAt /\ Nth(k, i) = n
      BY <3>2, <3>3, <1>1 DEF CountedAreUses
    <3>5. QED BY <3>2, <3>4, <1>3, <1>5
  <2>3. QED BY <2>1, <2>2
<1>8. QED BY <1>6, <1>7

\* Why: a refused caller is told the end of the window it was refused in, and is held to
\* that until it has come.
LEMMA HitKeepsPromise ==
    ASSUME IInv, UInv, NEW k \in Keys, Hit(k)
    PROVE  PromiseSound(k)'
<1> DEFINE row == Bumped(counter[k], now)
           told == Verdict(row, now)
<1>1. PromiseSound(k) /\ UsesBefore(k)
  BY DEF UInv
<1>2. /\ row \in CounterRecord
      /\ row.startedAt <= now
      /\ row.expiresAt > now
  BY UseIsTyped
<1>3. /\ row # None
      /\ \/ Fresh(counter[k], now) /\ row.startedAt = now
         \/ /\ ~Fresh(counter[k], now)
            /\ row.startedAt = counter[k].startedAt
            /\ row.expiresAt = counter[k].expiresAt
  BY <1>1, RowOfUse
<1>4. counter'[k] = row /\ now' = now
  BY HitAdds
<1>5. row.startedAt \in Nat /\ row.expiresAt \in Nat /\ now \in Nat
  BY <1>2 DEF CounterRecord, IInv, TypeOK
<1>6. now + told.wait = row.expiresAt
  <2>1. told.wait = IF row.expiresAt - now > 1 THEN row.expiresAt - now ELSE 1
    BY DEF Verdict
  <2> HIDE DEF told, row
  <2>2. QED BY <2>1, <1>2, <1>5
<1>7. promised'[k] = promised[k] \/ promised'[k] = row.expiresAt
  <2>1. promised' = promised \/ promised' = [promised EXCEPT ![k] = now + told.wait]
    BY DEF Hit
  <2>2. QED BY <2>1, <1>6 DEF IInv, TypeOK
<1>8. promised[k] = row.expiresAt \/ promised[k] <= row.startedAt
  BY <1>1, <1>3 DEF PromiseSound
<1> HIDE DEF row, told
<1>9. ~Fresh(counter'[k], now')
  BY <1>2, <1>3, <1>4, <1>5 DEF Fresh
<1>10. QED BY <1>4, <1>7, <1>8, <1>9 DEF PromiseSound

LEMMA HitKeepsUInv == ASSUME IInv, UInv, NEW k \in Keys, Hit(k) PROVE UInv'
<1>1. ASSUME NEW l \in Keys, l # k
      PROVE  (UsesInWindow(l) /\ UsesApart(l) /\ UsesBefore(l)
                /\ CountedAreUses(l) /\ PromiseSound(l))'
  <2>1. /\ permitted'[l] = permitted[l] /\ counter'[l] = counter[l]
        /\ promised'[l] = promised[l] /\ now' = now
    BY <1>1 DEF Hit, IInv, TypeOK
  <2>2. QED BY <2>1, KeyKept
<1>2. QED BY <1>1, HitKeepsUses, HitKeepsCount, HitKeepsPromise DEF UInv

\* Why: the row the cleanup removes has run out, so every window of its key is over and
\* the promise has come.
LEMMA CleanupKeepsUInv == ASSUME IInv, UInv, Cleanup PROVE UInv'
<1> SUFFICES ASSUME NEW k \in Keys
             PROVE  (UsesInWindow(k) /\ UsesApart(k) /\ UsesBefore(k)
                       /\ CountedAreUses(k) /\ PromiseSound(k))'
  BY DEF UInv
<1>1. /\ counter'[k] = IF Stale(k) THEN None ELSE counter[k]
      /\ permitted' = permitted /\ promised' = promised /\ now' = now
  BY DEF Cleanup
<1>2. CASE ~Stale(k)
  BY <1>1, <1>2, KeyKept
<1>3. CASE Stale(k)
  <2>1. /\ counter[k] # None
        /\ counter[k].startedAt \in Nat
        /\ counter[k].startedAt + Window <= now
        /\ counter[k].startedAt <= now
        /\ Window \in Nat /\ now \in Nat
        /\ Fresh(counter[k], now)
    <3>1. counter[k].expiresAt < now /\ counter[k] # None
      BY <1>3 DEF Stale
    <3>2. now \in Nat /\ Window \in Nat
      BY LimiterAssumption DEF IInv, TypeOK
    <3>3. QED BY <3>1, <3>2, RowTyped DEF Fresh
  <2>2. /\ UsesInWindow(k) /\ UsesApart(k) /\ UsesBefore(k) /\ PromiseSound(k)
        /\ counter'[k] = None
    BY <1>1, <1>3 DEF UInv
  <2>3. UsesInWindow(k)' /\ UsesApart(k)'
    BY <1>1, <2>2 DEF UsesInWindow, UsesApart, Uses, Opened, Nth
  <2>4. UsesBefore(k)'
    <3>1. ASSUME NEW i \in Uses(k) PROVE Opened(k, i) + Window <= now
      BY <2>1, <2>2, UseTyped DEF UsesBefore
    <3>2. QED BY <3>1, <2>2, <1>1 DEF UsesBefore, Uses, Opened
  <2>5. CountedAreUses(k)' /\ PromiseSound(k)'
    BY <1>1, <2>1, <2>2 DEF CountedAreUses, PromiseSound, Fresh
  <2>6. QED BY <2>3, <2>4, <2>5
<1>4. QED BY <1>2, <1>3

LEMMA TickKeepsUInv == ASSUME IInv, UInv, Tick PROVE UInv'
<1> SUFFICES ASSUME NEW k \in Keys
             PROVE  (UsesInWindow(k) /\ UsesApart(k) /\ UsesBefore(k)
                       /\ CountedAreUses(k) /\ PromiseSound(k))'
  BY DEF UInv
<1>1. /\ counter' = counter /\ permitted' = permitted /\ promised' = promised
      /\ now' = now + 1 /\ now \in Nat /\ Window \in Nat
  BY LimiterAssumption DEF Tick, IInv, TypeOK
<1>2. UsesInWindow(k)' /\ UsesApart(k)' /\ CountedAreUses(k)'
  BY <1>1, UseTyped DEF UInv, UsesInWindow, UsesApart, CountedAreUses, Uses, Opened, Nth
<1>3. UsesBefore(k)'
  <2>1. UsesBefore(k)
    BY DEF UInv
  <2>2. ASSUME NEW i \in Uses(k), counter[k] = None PROVE Opened(k, i) + Window <= now + 1
    BY <2>1, <2>2, <1>1, UseTyped DEF UsesBefore
  <2>3. QED BY <2>1, <2>2, <1>1 DEF UsesBefore, Uses, Opened, Nth
<1>4. PromiseSound(k)'
  <2>1. PromiseSound(k) /\ promised[k] \in Nat
    BY DEF UInv, IInv, TypeOK
  <2>2. counter[k] # None =>
           /\ counter[k].startedAt \in Nat
           /\ counter[k].startedAt <= now
           /\ counter[k].expiresAt = counter[k].startedAt + Window
    BY RowTyped
  <2>3. QED BY <1>1, <2>1, <2>2 DEF PromiseSound, Fresh
<1>5. QED BY <1>2, <1>3, <1>4

\* The history and the table agree, whatever the order of uses, cleanups and time.
THEOREM UsesFollowRows == Spec => []UInv
<1>1. IInv /\ UInv /\ [Next]_vars => UInv'
  <2> SUFFICES ASSUME IInv, UInv, [Next]_vars PROVE UInv'
    OBVIOUS
  <2>1. CASE Tick
    BY <2>1, TickKeepsUInv
  <2>2. CASE Cleanup
    BY <2>2, CleanupKeepsUInv
  <2>3. ASSUME NEW k \in Keys, Hit(k) PROVE UInv'
    BY <2>3, HitKeepsUInv
  <2>4. CASE UNCHANGED vars
    BY <2>4, KeyKept DEF vars, UInv
  <2>5. QED BY <2>1, <2>2, <2>3, <2>4 DEF Next, Horizon
<1>2. QED BY <1>1, InitUses, Invariance, PTL DEF Spec

-----------------------------------------------------------------------------
(* The burst and the wait *)

LEMMA UsesInFinite ==
    ASSUME IInv, NEW k \in Keys, NEW from \in Nat, NEW to \in Int
    PROVE  IsFiniteSet(UsesIn(k, from, to)) /\ AllowedIn(k, from, to) \in Nat
<1>1. permitted[k] \in Seq(UseRecord)
  BY DEF IInv, TypeOK
<1>2. DOMAIN permitted[k] = 1..Len(permitted[k]) /\ Len(permitted[k]) \in Nat
  BY <1>1
<1>3. IsFiniteSet(1..Len(permitted[k]))
  BY <1>2, FS_Interval
<1>4. UsesIn(k, from, to) \in SUBSET (1..Len(permitted[k]))
  BY <1>2 DEF UsesIn
<1>5. IsFiniteSet(UsesIn(k, from, to))
  BY <1>3, <1>4, FS_Subset
<1>6. QED BY <1>5, FS_CardinalityType DEF AllowedIn

\* A stretch of Window units meets two windows at most: one that opened before it and one
\* that opened in it.  Numbering the uses of the first from 1 and those of the second
\* from MaxUses + 1 numbers them apart.
LEMMA TwoWindowsAtMost ==
    ASSUME IInv, UInv, NEW k \in Keys, NEW t \in Nat
    PROVE  AllowedIn(k, t, t + Window - 1) <= 2 * MaxUses
<1> DEFINE S == UsesIn(k, t, t + Window - 1)
           f == [i \in S |-> IF Opened(k, i) < t THEN Nth(k, i) ELSE MaxUses + Nth(k, i)]
<1>1. Window \in Nat \ {0} /\ MaxUses \in Nat \ {0}
  BY LimiterAssumption
<1>2. ASSUME NEW i \in S
      PROVE  /\ i \in Uses(k)
             /\ permitted[k][i].at \in Nat /\ Opened(k, i) \in Nat /\ Nth(k, i) \in Nat
             /\ t <= permitted[k][i].at /\ permitted[k][i].at <= t + Window - 1
             /\ Nth(k, i) \in 1..MaxUses
             /\ Opened(k, i) <= permitted[k][i].at
             /\ permitted[k][i].at < Opened(k, i) + Window
  <2>1. i \in Uses(k) /\ t <= permitted[k][i].at /\ permitted[k][i].at <= t + Window - 1
    BY DEF UsesIn, Uses
  <2>2. QED BY <2>1, UseTyped DEF UInv, UsesInWindow
<1>3. ASSUME NEW i \in S, NEW j \in S, i # j PROVE f[i] # f[j]
  <2>1. \/ Opened(k, i) = Opened(k, j) /\ Nth(k, i) # Nth(k, j)
        \/ Opened(k, i) + Window <= Opened(k, j)
        \/ Opened(k, j) + Window <= Opened(k, i)
    BY <1>2, <1>3 DEF UInv, UsesApart
  <2>2. /\ f[i] = IF Opened(k, i) < t THEN Nth(k, i) ELSE MaxUses + Nth(k, i)
        /\ f[j] = IF Opened(k, j) < t THEN Nth(k, j) ELSE MaxUses + Nth(k, j)
    OBVIOUS
  <2> HIDE DEF f, S
  <2>3. CASE Opened(k, i) = Opened(k, j) /\ Nth(k, i) # Nth(k, j)
    BY <2>2, <2>3, <1>1, <1>2
  <2>4. CASE Opened(k, i) + Window <= Opened(k, j)
    <3>1. Opened(k, i) < t /\ ~(Opened(k, j) < t)
      BY <2>4, <1>1, <1>2
    <3>2. QED BY <3>1, <2>2, <1>1, <1>2
  <2>5. CASE Opened(k, j) + Window <= Opened(k, i)
    <3>1. Opened(k, j) < t /\ ~(Opened(k, i) < t)
      BY <2>5, <1>1, <1>2
    <3>2. QED BY <3>1, <2>2, <1>1, <1>2
  <2>6. QED BY <2>1, <2>3, <2>4, <2>5
<1>4. f \in [S -> 1..(2 * MaxUses)]
  <2>1. ASSUME NEW i \in S
        PROVE  (IF Opened(k, i) < t THEN Nth(k, i) ELSE MaxUses + Nth(k, i)) \in 1..(2 * MaxUses)
    BY <1>1, <1>2
  <2>2. QED BY <2>1
<1>5. f \in Injection(S, 1..(2 * MaxUses))
  BY <1>3, <1>4 DEF Injection, IsInjective
<1>6. 2 * MaxUses \in Nat /\ 2 * MaxUses >= 1
  BY <1>1
<1>7. IsFiniteSet(1..(2 * MaxUses)) /\ Cardinality(1..(2 * MaxUses)) = 2 * MaxUses
  BY <1>6, FS_Interval
<1>8. Cardinality(S) <= Cardinality(1..(2 * MaxUses))
  <2> HIDE DEF f, S
  <2>1. QED BY <1>5, <1>7, FS_Injection
<1>9. QED BY <1>7, <1>8 DEF AllowedIn

\* Nobody gets more than twice the maximum out of any stretch of a window's length,
\* however their uses, the cleanup and the clock alternate.
THEOREM BurstsAreBounded == Spec => []BurstBounded
<1>1. IInv /\ UInv => BurstBounded
  BY TwoWindowsAtMost, LimiterAssumption DEF BurstBounded
<1>2. QED BY <1>1, Invariance, UsesFollowRows, PTL

\* A use is refused in a window that opened when the promise had come, and MaxUses were
\* allowed in it.
LEMMA RefusedAfterUses ==
    ASSUME IInv, UInv, NEW k \in Keys, Hit(k),
           ~verdict'[k].allowed, promised[k] <= now
    PROVE  AllowedIn(k, promised[k], now) >= MaxUses
<1> DEFINE row == Bumped(counter[k], now)
           S == UsesIn(k, promised[k], now)
           use(n) == CHOOSE i \in Uses(k) : Opened(k, i) = counter[k].startedAt /\ Nth(k, i) = n
           f == [n \in 1..MaxUses |-> use(n)]
<1>1. row.count \in Nat /\ row.count > MaxUses
  <2>1. verdict'[k] = Verdict(row, now)
    BY DEF Hit, IInv, TypeOK
  <2>2. ~(row.count <= MaxUses)
    <3>1. Verdict(row, now).allowed = (row.count <= MaxUses)
      BY DEF Verdict
    <3> HIDE DEF row
    <3>2. QED BY <2>1, <3>1
  <2>3. row.count \in Nat
    BY UseIsTyped DEF CounterRecord
  <2> HIDE DEF row
  <2>4. QED BY <2>2, <2>3, LimiterAssumption
<1>2. /\ counter[k] # None /\ ~Fresh(counter[k], now)
      /\ row.count = counter[k].count + 1
  <2>1. row.count = 1 \/ (/\ counter[k] # None /\ ~Fresh(counter[k], now)
                          /\ row.count = counter[k].count + 1)
    BY RowOfUse DEF UInv
  <2> HIDE DEF row
  <2>2. QED BY <2>1, <1>1, LimiterAssumption
<1>3. /\ counter[k].count \in Nat /\ counter[k].count >= MaxUses
      /\ counter[k].startedAt \in Nat /\ counter[k].startedAt <= now
      /\ now \in Nat /\ promised[k] \in Nat /\ MaxUses \in Nat \ {0}
  <2>1. /\ counter[k].count \in Nat
        /\ counter[k].startedAt \in Nat /\ counter[k].startedAt <= now
    BY <1>2, RowTyped
  <2>2. now \in Nat /\ promised[k] \in Nat /\ MaxUses \in Nat \ {0}
    BY LimiterAssumption DEF IInv, TypeOK
  <2> HIDE DEF row
  <2>3. QED BY <2>1, <2>2, <1>1, <1>2
<1>4. promised[k] <= counter[k].startedAt
  <2>1. promised[k] = counter[k].expiresAt \/ promised[k] <= counter[k].startedAt
    BY <1>2 DEF UInv, PromiseSound
  <2>2. ~(counter[k].expiresAt <= now)
    BY <1>2 DEF Fresh
  <2>3. QED BY <2>1, <2>2
<1>5. ASSUME NEW n \in 1..MaxUses
      PROVE  /\ use(n) \in S
             /\ Nth(k, use(n)) = n
  <2>1. n <= counter[k].count
    BY <1>3
  <2>2. \E i \in Uses(k) : Opened(k, i) = counter[k].startedAt /\ Nth(k, i) = n
    BY <2>1, <1>2 DEF UInv, CountedAreUses
  <2>3. PICK i \in Uses(k) : i = use(n) /\ Opened(k, i) = counter[k].startedAt /\ Nth(k, i) = n
    BY <2>2
  <2>4. /\ permitted[k][i].at \in Nat
        /\ Opened(k, i) <= permitted[k][i].at
        /\ permitted[k][i].at <= now
    BY UseTyped DEF UInv, UsesInWindow
  <2>5. QED BY <2>3, <2>4, <1>3, <1>4 DEF UsesIn, Uses
<1>6. f \in Injection(1..MaxUses, S)
  <2> HIDE DEF S, use
  <2>1. f \in [1..MaxUses -> S]
    BY <1>5
  <2>2. ASSUME NEW m \in 1..MaxUses, NEW n \in 1..MaxUses, f[m] = f[n] PROVE m = n
    BY <1>5, <2>2
  <2>3. QED BY <2>1, <2>2 DEF Injection, IsInjective
<1>7. IsFiniteSet(S) /\ Cardinality(S) \in Nat
  <2>1. IsFiniteSet(UsesIn(k, promised[k], now)) /\ AllowedIn(k, promised[k], now) \in Nat
    <3>1. promised[k] \in Nat /\ now \in Int
      BY <1>3
    <3>2. QED BY <3>1, UsesInFinite
  <2>2. QED BY <2>1 DEF AllowedIn
<1>8. Cardinality(1..MaxUses) = MaxUses
  BY <1>3, FS_Interval
<1>9. Cardinality(1..MaxUses) <= Cardinality(S)
  <2> HIDE DEF f, S
  <2>1. QED BY <1>6, <1>7, FS_Injection
<1>10. QED BY <1>3, <1>7, <1>8, <1>9 DEF AllowedIn

\* retryAfterSeconds is honest: who comes back when told to is refused again only after
\* others have used up a window that opened since.
THEOREM RetriesAreHonest == Spec => RetryHonest
<1> DEFINE Honest == \A k \in Keys :
              /\ counter'[k] # counter[k]
              /\ counter'[k] # None
              /\ ~verdict'[k].allowed
              /\ promised[k] <= now
              => AllowedIn(k, promised[k], now) >= MaxUses
<1>1. IInv /\ UInv /\ [Next]_vars => [Honest]_vars
  <2> SUFFICES ASSUME IInv, UInv, [Next]_vars,
                      NEW k \in Keys,
                      counter'[k] # counter[k], counter'[k] # None,
                      ~verdict'[k].allowed, promised[k] <= now
               PROVE  AllowedIn(k, promised[k], now) >= MaxUses
    OBVIOUS
  <2>1. counter' # counter
    OBVIOUS
  <2>2. ~Cleanup
    BY DEF Cleanup
  <2>3. PICK l \in Keys : Hit(l)
    BY <2>1, <2>2 DEF Next, Tick, Horizon, vars
  <2>4. l = k
    BY <2>3 DEF Hit, IInv, TypeOK
  <2>5. QED BY <2>3, <2>4, RefusedAfterUses
<1>2. QED BY <1>1, Invariance, UsesFollowRows, PTL DEF Spec, RetryHonest

-----------------------------------------------------------------------------
(* The vault: the inductive invariant *)

\* Where a run has its note, and where it has all of the folder but its own picture.
NotePlaced == {"scan", "entries", "open", "flush", "check", "rename", "done"}
PicturesSorted == {"open", "flush", "check", "rename", "done"}

\* A file being written is written by a run that is about to write it.
WritersAtWork ==
    /\ \A s \in Runs : note = s => pc[s] = "fill"
    /\ \A v \in Versions, s \in Runs : partial[v] = s \/ final[v] = s => pc[s] = "flush"

\* A run that knows of no other is the only one at work, and was until it was done; and
\* whoever is not alone is remembered.
AloneMeansAlone ==
    /\ \A r, s \in Runs : pc[r] # "idle" /\ run[r].alone /\ s # r => ~AtWork(s)
    /\ \A r \in Runs : ~overlap /\ AtWork(r) => run[r].alone

\* What a run is about to change is not the owner's.
OwnersAside ==
    \A r \in Runs :
        /\ pc[r] \in {"unlink", "truncate", "fill"} => note # "owner"
        /\ pc[r] \in {"open", "flush", "check", "rename"} => run[r].picture \in Versions
        /\ pc[r] \in {"flush", "check", "rename"} => partial[run[r].picture] # "owner"
        /\ pc[r] = "rename" => final[run[r].picture] # "owner"

\* The note, as a run that is alone leaves it step by step.
NoteSound(r) ==
    /\ pc[r] \in {"judge", "unlink"} => run[r].note = "none"
    /\ pc[r] \in {"place", "create", "truncate", "fill"} => run[r].note # "none"
    /\ pc[r] = "fill" => note = r
    /\ pc[r] \in NotePlaced => note \in {run[r].note, "owner", "torn"}

Done(r, kind, v) ==
    pc[r] \in PicturesSorted \/ (pc[r] = "entries" /\ <<kind, v>> \notin run[r].entries)

\* The temporary files: those it has looked at are cleared away, but for its own.
PartialSound(r, v) ==
    /\ Done(r, "partial", v) /\ (v = run[r].picture => pc[r] \notin {"flush", "check", "rename"})
         => partial[v] \in {"none", "owner"}
    /\ pc[r] = "flush" /\ v = run[r].picture => partial[v] = r
    /\ pc[r] \in {"check", "rename"} /\ v = run[r].picture => partial[v] = "whole"

\* The pictures: none that is not wanted, and its own is in place or left for the next run.
FinalSound(r, v) ==
    /\ final[v] # r
    /\ Done(r, "final", v) /\ v # run[r].picture => final[v] \in {"none", "owner", "broken"}
    /\ v \in run[r].found => /\ v = run[r].picture
                             /\ pc[r] \in PicturesSorted \cup {"entries"}
                             /\ pc[r] = "entries" => final[v] # "none"
    /\ pc[r] = "done" /\ v = run[r].picture /\ final[v] = "none" => run[r].skipped

RunSound(r) ==
    /\ pc[r] \in {"open", "flush"} => run[r].bytes = run[r].picture
    /\ run[r].alone /\ pc[r] # "idle" =>
         NoteSound(r) /\ \A v \in Versions : PartialSound(r, v) /\ FinalSound(r, v)

RunsSound == \A r \in Runs : RunSound(r)

VaultInv ==
    /\ VaultTypeOK
    /\ VersionHasPicture
    /\ WritersAtWork
    /\ AloneMeansAlone
    /\ OwnersAside
    /\ RunsSound
    /\ BrokenOnlyByTwo

-----------------------------------------------------------------------------
(* The member's picture *)

\* Each transaction writes picture and version together, or clears the version.
LEMMA PicturesKept ==
    ASSUME PicturesTypeOK, VersionHasPicture, PicturesNext
    PROVE  PicturesTypeOK' /\ VersionHasPicture'
<1> USE DEF PicturesTypeOK, VersionHasPicture
<1>0. NoTx \in [kind : {"none", "save", "remove"}, version : Versions \cup {Absent}]
  BY DEF NoTx
<1>1. CASE DeleteAccount
  BY <1>1 DEF DeleteAccount
<1>2. ASSUME NEW q \in Requests, NEW v \in Versions, SaveImage(q, v)
      PROVE  PicturesTypeOK' /\ VersionHasPicture'
  <2> DEFINE x == [kind |-> "save", version |-> v]
  <2>1. /\ x \in [kind : {"none", "save", "remove"}, version : Versions \cup {Absent}]
        /\ x # NoTx
    BY DEF NoTx
  <2>2. tx' = [tx EXCEPT ![q] = x] /\ changes' \in 0..MaxChanges /\ holder' = q /\ member
    BY <1>2, PicturesAssumption DEF SaveImage, Begin
  <2> HIDE DEF x
  <2>3. QED BY <1>2, <2>1, <2>2, PicturesAssumption DEF SaveImage
<1>3. ASSUME NEW q \in Requests, SaveVersion(q) PROVE PicturesTypeOK' /\ VersionHasPicture'
  BY <1>0, <1>3 DEF SaveVersion, End
<1>4. ASSUME NEW q \in Requests, RemoveImage(q) PROVE PicturesTypeOK' /\ VersionHasPicture'
  <2> DEFINE x == [kind |-> "remove", version |-> Absent]
  <2>1. /\ x \in [kind : {"none", "save", "remove"}, version : Versions \cup {Absent}]
        /\ x # NoTx
    BY DEF NoTx
  <2>2. /\ tx[q] = NoTx /\ tx' = [tx EXCEPT ![q] = x] /\ changes' \in 0..MaxChanges
        /\ holder' \in {holder, q} /\ member
    BY <1>4, PicturesAssumption DEF RemoveImage, Begin
  <2> HIDE DEF x
  <2>3. QED BY <1>4, <2>1, <2>2, PicturesAssumption DEF RemoveImage
<1>5. ASSUME NEW q \in Requests, RemoveVersion(q) PROVE PicturesTypeOK' /\ VersionHasPicture'
  BY <1>0, <1>5 DEF RemoveVersion, ClearedUrl, End
<1>6. ASSUME NEW q \in Requests, RollBack(q) PROVE PicturesTypeOK' /\ VersionHasPicture'
  BY <1>0, <1>6 DEF RollBack, End
<1>7. QED BY <1>1, <1>2, <1>3, <1>4, <1>5, <1>6 DEF PicturesNext

-----------------------------------------------------------------------------
(* Types of the vault *)

Places ==
    {"idle", "list", "judge", "unlink", "place", "create", "truncate", "fill", "scan",
     "entries", "open", "flush", "check", "rename", "done"}

Contents == Generated \cup {"none", "torn", "owner"} \cup Runs

\* A step of a run that is at work: what it may do to the run.
OwnStep(r) == NoteStep(r) \/ PictureStep(r)

\* What a run comes to know is of its type, and so is knowing nothing.
LEMMA KnowledgeTyped ==
    ASSUME VaultTypeOK, NEW r \in Runs, NEW k \in RunRecord, Know(r, k)
    PROVE  run' \in [Runs -> RunRecord]
BY DEF VaultTypeOK, Know

LEMMA NothingTyped == NoRun \in RunRecord
BY DEF NoRun, RunRecord, Notes

\* A step of one run leaves the site and the other runs alone.
LEMMA OwnMoves ==
    ASSUME VaultTypeOK, NEW r \in Runs, OwnStep(r)
    PROVE  /\ UNCHANGED <<site, counts>> /\ AtWork(r)
           /\ \E at \in Places : Go(r, at) \/ (at = pc[r] /\ UNCHANGED pc)
           /\ UNCHANGED run \/ \E k : Know(r, k)
<1> USE DEF Places, Fail, AtWork
<1>1. CASE ListNotes(r) \/ PlaceNote(r)
  BY <1>1 DEF ListNotes, PlaceNote, folder
<1>2. CASE JudgeNote(r) \/ UnlinkNote(r) \/ OpenNote(r) \/ FillNote(r)
  BY <1>2 DEF JudgeNote, UnlinkNote, OpenNote, FillNote, folder
<1>3. CASE ScanPictures(r)
  BY <1>3 DEF ScanPictures
<1>4. ASSUME NEW v \in Versions, ClearPartial(r, v) \/ JudgePicture(r, v)
      PROVE  /\ UNCHANGED <<site, counts>> /\ AtWork(r)
             /\ \E at \in Places : Go(r, at) \/ (at = pc[r] /\ UNCHANGED pc)
             /\ UNCHANGED run \/ \E k : Know(r, k)
  BY <1>4 DEF ClearPartial, JudgePicture
<1>5. CASE ReadPicture(r)
  BY <1>5 DEF ReadPicture, Skip
<1>6. CASE OpenPartial(r) \/ FlushPartial(r)
  BY <1>6 DEF OpenPartial, FlushPartial, Skip
<1>7. CASE CheckFinal(r)
  BY <1>7 DEF CheckFinal, Skip
<1>8. CASE RenamePartial(r)
  BY <1>8 DEF RenamePartial, Skip
<1>9. QED BY <1>1, <1>2, <1>3, <1>4, <1>5, <1>6, <1>7, <1>8 DEF OwnStep, NoteStep, PictureStep

\* A run keeps to the types of what runs know, and to the note and the picture it started with.
LEMMA OwnKeepsRuns ==
    ASSUME VaultTypeOK, NEW r \in Runs, OwnStep(r)
    PROVE  /\ pc' \in [Runs -> Places] /\ run' \in [Runs -> RunRecord]
           /\ pc'[r] # "idle" => run'[r].note = run[r].note /\ run'[r].picture = run[r].picture
                                   /\ run'[r].alone = run[r].alone
<1> DEFINE known == run[r]
           Same(k) == k.note = known.note /\ k.picture = known.picture /\ k.alone = known.alone
<1>1. known \in RunRecord /\ run \in [Runs -> RunRecord] /\ pc \in [Runs -> Places]
  BY DEF VaultTypeOK, Places
<1>2. pc' \in [Runs -> Places]
  BY <1>1, OwnMoves DEF Go
<1>3. ASSUME NEW k \in RunRecord, Know(r, k)
      PROVE  run' \in [Runs -> RunRecord] /\ run'[r] = k
  BY <1>1, <1>3 DEF Know
<1>4. /\ Fail(r) => run' \in [Runs -> RunRecord] /\ pc'[r] = "idle"
      /\ UNCHANGED run => run' \in [Runs -> RunRecord] /\ Same(run'[r])
  BY <1>1, <1>3, NothingTyped DEF Fail, Go
<1>5. Skip(r) => run' \in [Runs -> RunRecord] /\ Same(run'[r])
  <2> DEFINE x == [known EXCEPT !.skipped = TRUE]
  <2>1. x \in RunRecord /\ Same(x)
    BY <1>1 DEF RunRecord
  <2>2. Skip(r) => Know(r, x)
    BY DEF Skip
  <2> HIDE DEF x
  <2>3. QED BY <1>3, <2>1, <2>2
<1>6. CASE NoteStep(r)
  BY <1>2, <1>4, <1>6 DEF NoteStep, ListNotes, PlaceNote, JudgeNote, UnlinkNote, OpenNote, FillNote
<1>7. CASE ScanPictures(r)
  <2> DEFINE E == {e \in {"partial", "final"} \X Versions :
                     (IF e[1] = "partial" THEN partial[e[2]] ELSE final[e[2]]) # "none"}
             x == [known EXCEPT !.entries = E]
  <2>0. E \in SUBSET ({"partial", "final"} \X Versions)
    OBVIOUS
  <2>1. Know(r, x)
    BY <1>7 DEF ScanPictures
  <2> HIDE DEF E
  <2>2. x \in RunRecord /\ Same(x)
    BY <1>1, <2>0 DEF RunRecord
  <2> HIDE DEF x
  <2>3. QED BY <1>2, <1>3, <2>1, <2>2
<1>8. ASSUME NEW v \in Versions, ClearPartial(r, v)
      PROVE  run' \in [Runs -> RunRecord] /\ (pc'[r] # "idle" => Same(run'[r]))
  <2> DEFINE x == [known EXCEPT !.entries = @ \ {<<"partial", v>>}]
  <2>1. x \in RunRecord /\ Same(x)
    BY <1>1 DEF RunRecord
  <2>2. Fail(r) \/ Know(r, x)
    BY <1>8 DEF ClearPartial
  <2> HIDE DEF x
  <2>3. QED BY <1>3, <1>4, <2>1, <2>2
<1>9. ASSUME NEW v \in Versions, JudgePicture(r, v)
      PROVE  run' \in [Runs -> RunRecord] /\ (pc'[r] # "idle" => Same(run'[r]))
  <2> DEFINE F == IF known.picture = v THEN known.found \cup {v} ELSE known.found
             x == [known EXCEPT !.entries = @ \ {<<"final", v>>}, !.found = F]
  <2>1. x \in RunRecord /\ Same(x)
    BY <1>1 DEF RunRecord
  <2>2. Fail(r) \/ Know(r, x)
    BY <1>9 DEF JudgePicture
  <2> HIDE DEF x
  <2>3. QED BY <1>3, <1>4, <2>1, <2>2
<1>10. CASE ReadPicture(r)
  <2> DEFINE x == [known EXCEPT !.bytes = image]
  <2>1. x \in RunRecord /\ Same(x)
    BY <1>1 DEF RunRecord, VaultTypeOK, PicturesTypeOK
  <2>2. Know(r, x) \/ Skip(r) \/ UNCHANGED run
    BY <1>10 DEF ReadPicture
  <2> HIDE DEF x
  <2>3. QED BY <1>2, <1>3, <1>4, <1>5, <2>1, <2>2
<1>11. CASE OpenPartial(r) \/ FlushPartial(r) \/ CheckFinal(r) \/ RenamePartial(r)
  <2>1. Fail(r) \/ Skip(r) \/ UNCHANGED run
    BY <1>11 DEF OpenPartial, FlushPartial, CheckFinal, RenamePartial
  <2>2. QED BY <1>2, <1>4, <1>5, <2>1
<1>12. QED BY <1>2, <1>6, <1>7, <1>8, <1>9, <1>10, <1>11 DEF OwnStep, PictureStep

\* Where a run stands says which step it takes.
LEMMA StepsByPlace ==
    ASSUME NEW r \in Runs, OwnStep(r)
    PROVE  /\ pc[r] = "list" => ListNotes(r)
           /\ pc[r] = "judge" => JudgeNote(r)
           /\ pc[r] = "unlink" => UnlinkNote(r)
           /\ pc[r] = "place" => PlaceNote(r)
           /\ pc[r] \in {"create", "truncate"} => OpenNote(r)
           /\ pc[r] = "fill" => FillNote(r)
           /\ pc[r] = "scan" => ScanPictures(r)
           /\ pc[r] = "entries" =>
                ReadPicture(r) \/ \E v \in Versions : ClearPartial(r, v) \/ JudgePicture(r, v)
           /\ pc[r] = "open" => OpenPartial(r)
           /\ pc[r] = "flush" => FlushPartial(r)
           /\ pc[r] = "check" => CheckFinal(r)
           /\ pc[r] = "rename" => RenamePartial(r)
           /\ pc[r] \in Places \ {"idle", "done"}
BY DEF OwnStep, NoteStep, PictureStep, ListNotes, JudgeNote, UnlinkNote, PlaceNote, OpenNote,
   FillNote, ScanPictures, ReadPicture, ClearPartial, JudgePicture, OpenPartial, FlushPartial,
   CheckFinal, RenamePartial, Places

\* Only four kinds of steps write the note.
LEMMA NoteMoves ==
    ASSUME VaultTypeOK, NEW r \in Runs, OwnStep(r)
    PROVE  /\ note' = note \/ pc[r] \in {"unlink", "create", "truncate", "fill"}
           /\ pc[r] = "unlink" => note' = "none"
           /\ pc[r] \in {"create", "truncate"} =>
                \/ note' = r /\ pc'[r] = "fill" /\ (pc[r] = "create" => note = "none")
                \/ pc[r] = "create" /\ note # "none" /\ note' = note /\ pc'[r] = "idle"
           /\ pc[r] = "fill" =>
                /\ note = r => note' = run[r].note
                /\ note # r => note' \in {note, "mixed", run[r].note} /\ (note = "none" => note' = note)
<1> USE StepsByPlace
<1>0. pc \in [Runs -> Places]
  BY DEF VaultTypeOK, Places
<1>1. CASE pc[r] \in {"list", "place"}
  BY <1>1 DEF ListNotes, PlaceNote, folder
<1>2. CASE pc[r] \in {"judge", "scan"}
  BY <1>2 DEF JudgeNote, ScanPictures, folder
<1>3. CASE pc[r] = "unlink"
  BY <1>3 DEF UnlinkNote
<1>4. CASE pc[r] \in {"create", "truncate"}
  BY <1>0, <1>4 DEF OpenNote, Go, Fail
<1>5. CASE pc[r] = "fill"
  BY <1>5, VaultAssumption DEF FillNote
<1>6. CASE pc[r] = "entries"
  BY <1>6 DEF ReadPicture, ClearPartial, JudgePicture, folder
<1>7. CASE pc[r] \in {"open", "flush", "check", "rename"}
  BY <1>7 DEF OpenPartial, FlushPartial, CheckFinal, RenamePartial
<1>8. QED BY <1>1, <1>2, <1>3, <1>4, <1>5, <1>6, <1>7 DEF Places

\* What a step does to the files of one picture, and which places they have then.
LEMMA FilesMove ==
    ASSUME VaultTypeOK, OwnersAside, NEW r \in Runs, OwnStep(r)
    PROVE  /\ partial' \in [Versions -> File] /\ final' \in [Versions -> File]
           /\ UNCHANGED <<partial, final>> \/ pc[r] \in {"entries", "open", "flush", "check", "rename"}
           /\ \A v \in Versions :
                /\ partial'[v] \in {partial[v], "none", "whole", "broken"}
                     \/ (partial'[v] = r /\ pc'[r] = "flush")
                /\ final'[v] \in {final[v], partial[v], "none", "whole", "broken"}
                /\ pc[r] = "flush" => partial'[v] # r /\ final'[v] # r
<1> USE StepsByPlace
<1>0. /\ pc \in [Runs -> Places] /\ partial \in [Versions -> File] /\ final \in [Versions -> File]
      /\ r \in File /\ {"none", "whole", "broken"} \subseteq File
  BY DEF VaultTypeOK, Places, File
<1>1. CASE pc[r] \in {"list", "place", "judge", "scan"}
  BY <1>0, <1>1 DEF ListNotes, PlaceNote, JudgeNote, ScanPictures, folder
<1>2. CASE pc[r] \in {"unlink", "create", "truncate", "fill"}
  BY <1>0, <1>2 DEF UnlinkNote, OpenNote, FillNote
<1>3. CASE pc[r] = "entries"
  <2>1. CASE ReadPicture(r)
    BY <1>0, <1>3, <2>1 DEF ReadPicture, folder
  <2>2. ASSUME NEW w \in Versions, ClearPartial(r, w)
        PROVE  /\ partial' \in {partial, [partial EXCEPT ![w] = "none"]} /\ final' = final
    BY <2>2 DEF ClearPartial
  <2>3. ASSUME NEW w \in Versions, JudgePicture(r, w)
        PROVE  /\ final' \in {final, [final EXCEPT ![w] = "none"]} /\ partial' = partial
    BY <2>3 DEF JudgePicture
  <2>4. QED BY <1>0, <1>3, <2>1, <2>2, <2>3
<1>4. CASE pc[r] = "open"
  <2>1. \/ UNCHANGED <<partial, final>>
        \/ /\ partial' = [partial EXCEPT ![run[r].picture] = r] /\ final' = final
           /\ pc' = [pc EXCEPT ![r] = "flush"]
    BY <1>4 DEF OpenPartial, Go
  <2>2. QED BY <1>0, <1>4, <2>1
<1>5. CASE pc[r] = "flush"
  <2>1. /\ partial' = Written(partial, r) /\ final' = Written(final, r)
    BY <1>5 DEF FlushPartial
  <2>2. r \notin {"whole", "broken"}
    BY VaultAssumption
  <2>3. QED BY <1>0, <1>5, <2>1, <2>2 DEF Written
<1>6. CASE pc[r] = "check"
  <2>1. partial' \in {partial, [partial EXCEPT ![run[r].picture] = "none"]} /\ final' = final
    BY <1>6 DEF CheckFinal
  <2>2. QED BY <1>0, <1>6, <2>1
<1>7. CASE pc[r] = "rename"
  <2> DEFINE w == run[r].picture
  <2>1. \/ UNCHANGED <<partial, final>>
        \/ /\ partial' = [partial EXCEPT ![w] = "none"]
           /\ final' = [final EXCEPT ![w] = partial[w]]
    BY <1>7 DEF RenamePartial
  <2>2. w \in Versions
    BY <1>7 DEF OwnersAside
  <2>3. QED BY <1>0, <1>7, <2>1, <2>2
<1>8. QED BY <1>1, <1>2, <1>3, <1>4, <1>5, <1>6, <1>7 DEF Places

\* A step of a run keeps the types, and a file being written is that of a run about to write.
LEMMA OwnKeepsTypes ==
    ASSUME VaultTypeOK, OwnersAside, NEW r \in Runs, OwnStep(r)
    PROVE  VaultTypeOK'
<1>1. note' \in Contents
  <2>1. run[r].note \in Notes \cup {"none"} /\ note \in Contents /\ r \in Contents
    BY DEF VaultTypeOK, RunRecord, Contents
  <2>2. "mixed" \in Contents /\ "none" \in Contents /\ Notes \subseteq Contents
    BY DEF Contents, Generated
  <2>3. QED BY <2>1, <2>2, NoteMoves
<1>2. UNCHANGED <<site, counts>>
  BY OwnMoves
<1>3. QED
  BY <1>1, <1>2, OwnKeepsRuns, FilesMove
     DEF VaultTypeOK, PicturesTypeOK, site, counts, Contents, Places

\* A file that is being written is that of a run right before writing it.
LEMMA OwnKeepsWriters ==
    ASSUME VaultTypeOK, OwnersAside, WritersAtWork, NEW r \in Runs, OwnStep(r)
    PROVE  WritersAtWork'
<1>0. \A s \in Runs \ {r} : pc'[s] = pc[s]
  BY OwnMoves DEF VaultTypeOK, Go
<1>1. \A s \in Runs : s \notin {"none", "mixed", "whole", "broken"} \cup Notes \cup {"none"}
  BY VaultAssumption DEF Notes
<1>2. run[r].note \in Notes \cup {"none"}
  BY DEF VaultTypeOK, RunRecord
<1>3. \A s \in Runs : note' = s => pc'[s] = "fill"
  BY <1>0, <1>1, <1>2, NoteMoves DEF WritersAtWork
<1>4. ASSUME NEW v \in Versions, NEW s \in Runs, partial'[v] = s \/ final'[v] = s
      PROVE  pc'[s] = "flush"
  <2>1. s = r \/ partial[v] = s \/ final[v] = s
    BY <1>1, <1>4, FilesMove
  <2>2. CASE s # r
    BY <1>0, <2>1, <2>2 DEF WritersAtWork
  <2>3. CASE s = r
    <3>1. pc[r] # "flush"
      BY <1>4, <2>3, FilesMove
    <3>2. partial[v] # r /\ final[v] # r
      BY <3>1 DEF WritersAtWork
    <3>3. QED BY <1>1, <1>4, <2>3, <3>2, FilesMove
  <2>4. QED BY <2>2, <2>3
<1>5. QED BY <1>3, <1>4 DEF WritersAtWork

-----------------------------------------------------------------------------
(* What is the owner's *)

\* Nothing becomes the owner's, and what is stays so.
LEMMA OwnersStay ==
    ASSUME VaultTypeOK, OwnersAside, NEW r \in Runs, OwnStep(r)
    PROVE  /\ note' = "owner" <=> note = "owner"
           /\ \A v \in Versions : partial'[v] = "owner" <=> partial[v] = "owner"
           /\ \A v \in Versions : final'[v] = "owner" <=> final[v] = "owner"
<1>0. /\ r # "owner" /\ "owner" \notin Notes \cup {"none", "mixed", "whole", "broken"}
      /\ run[r].note \in Notes \cup {"none"}
      /\ partial \in [Versions -> File] /\ final \in [Versions -> File]
  BY VaultAssumption DEF Notes, VaultTypeOK, RunRecord
<1>1. note' = "owner" <=> note = "owner"
  BY <1>0, NoteMoves DEF OwnersAside
<1> SUFFICES ASSUME NEW v \in Versions
             PROVE  /\ partial'[v] = "owner" <=> partial[v] = "owner"
                    /\ final'[v] = "owner" <=> final[v] = "owner"
  BY <1>1
<1>2. CASE pc[r] = "entries"
  <2>1. CASE ReadPicture(r)
    BY <2>1 DEF ReadPicture, folder
  <2>2. CASE \E w \in Versions : ClearPartial(r, w)
    BY <1>0, <2>2 DEF ClearPartial, IsPartial
  <2>3. CASE \E w \in Versions : JudgePicture(r, w)
    BY <1>0, <2>3 DEF JudgePicture, IsPicture
  <2>4. QED BY <1>2, <2>1, <2>2, <2>3, StepsByPlace
<1>3. CASE pc[r] = "open"
  BY <1>0, <1>3, StepsByPlace DEF OpenPartial, OwnersAside
<1>4. CASE pc[r] = "flush"
  BY <1>0, <1>4, StepsByPlace DEF FlushPartial, Written
<1>5. CASE pc[r] = "check"
  BY <1>0, <1>5, StepsByPlace DEF CheckFinal, OwnersAside
<1>6. CASE pc[r] = "rename"
  BY <1>0, <1>6, StepsByPlace DEF RenamePartial, OwnersAside
<1>7. QED BY <1>2, <1>3, <1>4, <1>5, <1>6, FilesMove

\* Where a run may stand after a step.
LEMMA NextPlace ==
    ASSUME VaultTypeOK, NEW r \in Runs, OwnStep(r)
    PROVE  /\ pc'[r] = "unlink" => pc[r] = "judge" /\ IsGenerated(note)
           /\ pc'[r] = "truncate" => pc[r] = "place" /\ IsGenerated(note)
           /\ pc'[r] = "fill" => pc[r] \in {"create", "truncate"}
           /\ pc'[r] = "open" => pc[r] = "entries" /\ ReadPicture(r)
           /\ pc'[r] = "flush" => pc[r] = "open"
           /\ pc'[r] = "check" => pc[r] = "flush"
           /\ pc'[r] = "rename" => pc[r] = "check" /\ final[run[r].picture] = "none" /\ final' = final
<1> USE StepsByPlace DEF Go, Fail
<1>0. pc \in [Runs -> Places]
  BY DEF VaultTypeOK, Places
<1>1. CASE pc[r] \in {"list", "judge", "place"}
  BY <1>0, <1>1 DEF ListNotes, JudgeNote, PlaceNote
<1>2. CASE pc[r] \in {"unlink", "create", "truncate", "fill", "scan"}
  BY <1>0, <1>2 DEF UnlinkNote, OpenNote, FillNote, ScanPictures
<1>3. CASE pc[r] = "entries"
  BY <1>0, <1>3 DEF ReadPicture, ClearPartial, JudgePicture, Skip
<1>4. CASE pc[r] \in {"open", "flush"}
  <2>1. pc[r] = "open" => pc'[r] \in {"flush", "done"}
    <3>1. pc[r] = "open" => Skip(r) \/ Go(r, "flush")
      BY DEF OpenPartial
    <3>2. QED BY <1>0, <3>1 DEF Skip
  <2>2. pc[r] = "flush" => pc'[r] = "check"
    BY <1>0 DEF FlushPartial
  <2>3. QED BY <1>4, <2>1, <2>2
<1>5. CASE pc[r] = "check"
  <2>1. final' = final /\ (pc'[r] = "rename" => final[run[r].picture] = "none")
    BY <1>0, <1>5 DEF CheckFinal, Skip
  <2>2. pc'[r] \in {"rename", "idle", "done"}
    BY <1>0, <1>5 DEF CheckFinal, Skip
  <2>3. QED BY <1>5, <2>1, <2>2
<1>6. CASE pc[r] = "rename"
  <2>1. Skip(r) \/ Go(r, "done")
    BY <1>6 DEF RenamePartial
  <2>2. pc'[r] = "done"
    BY <1>0, <2>1 DEF Skip
  <2>3. QED BY <2>2
<1>7. QED BY <1>1, <1>2, <1>3, <1>4, <1>5, <1>6 DEF Places

\* What stands where a run is about to write is not the owner's.
LEMMA OwnKeepsOwners ==
    ASSUME VaultTypeOK, OwnersAside, NEW r \in Runs, OwnStep(r)
    PROVE  OwnersAside'
<1>0. \A s \in Runs \ {r} : pc'[s] = pc[s] /\ run'[s] = run[s]
  BY OwnMoves DEF VaultTypeOK, Go, Know
<1>1. "owner" \notin Generated
  BY VaultAssumption DEF Generated, Notes
<1>2. pc'[r] # "idle" => run'[r].picture = run[r].picture
  BY OwnKeepsRuns
<1>3. pc'[r] = "open" => run[r].picture \in Versions
  <2>1. pc'[r] = "open" => run[r].picture \in Versions \cup {Absent} /\ run[r].picture # Absent
    BY NextPlace DEF ReadPicture, VaultTypeOK, RunRecord, Go, Skip
  <2>2. QED BY <2>1
<1>4. pc'[r] \in {"flush", "check", "rename"} => run[r].picture \in Versions
  BY NextPlace DEF OwnersAside
<1>5. pc'[r] = "flush" => partial'[run[r].picture] # "owner"
  <2>1. CASE pc'[r] = "flush"
    <3>1. OpenPartial(r) /\ pc[r] = "open"
      BY <2>1, NextPlace, StepsByPlace
    <3>2. partial[run[r].picture] # "owner"
      BY <2>1, <3>1 DEF OpenPartial, Skip, Go, VaultTypeOK
    <3>3. QED BY <1>4, <2>1, <3>2, OwnersStay
  <2>2. QED BY <2>1
<1>6. pc'[r] \in {"check", "rename"} => partial'[run[r].picture] # "owner"
  BY <1>4, NextPlace, OwnersStay DEF OwnersAside
<1>7. pc'[r] = "rename" => final'[run[r].picture] # "owner"
  BY NextPlace
<1>8. pc'[r] \in {"unlink", "truncate", "fill"} => note' # "owner"
  <2>1. pc'[r] \in {"unlink", "truncate"} => note # "owner"
    BY <1>1, NextPlace DEF IsGenerated
  <2>2. pc'[r] = "fill" => note' = r
    BY NextPlace, NoteMoves
  <2>3. r # "owner"
    BY VaultAssumption
  <2>4. QED BY <2>1, <2>2, <2>3, OwnersStay
<1>9. \A s \in Runs \ {r} :
        /\ pc[s] \in {"unlink", "truncate", "fill"} => note' # "owner"
        /\ pc[s] \in {"flush", "check", "rename"} => partial'[run[s].picture] # "owner"
        /\ pc[s] = "rename" => final'[run[s].picture] # "owner"
  BY OwnersStay DEF OwnersAside
<1>10. QED BY <1>0, <1>2, <1>3, <1>4, <1>5, <1>6, <1>7, <1>8, <1>9 DEF OwnersAside

-----------------------------------------------------------------------------
(* The folder, step by step *)

\* A run that is alone finds no other run's unfinished files.
LEMMA OnlyOwn ==
    ASSUME WritersAtWork, AloneMeansAlone, NEW r \in Runs, AtWork(r), run[r].alone
    PROVE  /\ \A s \in Runs \ {r} : ~AtWork(s) /\ note # s
           /\ \A s \in Runs \ {r}, v \in Versions : partial[v] # s /\ final[v] # s
           /\ pc[r] # "fill" => note # r
           /\ \A v \in Versions : pc[r] # "flush" => partial[v] # r /\ final[v] # r
BY DEF WritersAtWork, AloneMeansAlone, AtWork

\* A run that has placed its note goes on to the pictures, and to its end.
LEMMA PicturesPlace ==
    ASSUME VaultTypeOK, NEW r \in Runs, OwnStep(r), pc'[r] # "idle"
    PROVE  /\ pc[r] = "scan" => pc'[r] = "entries"
           /\ pc[r] = "entries" => pc'[r] \in {"entries", "open", "done"}
           /\ pc[r] = "open" => pc'[r] \in {"flush", "done"}
           /\ pc[r] = "flush" => pc'[r] = "check"
           /\ pc[r] = "check" => pc'[r] \in {"rename", "done"}
           /\ pc[r] = "rename" => pc'[r] = "done"
<1> USE StepsByPlace DEF Go
<1>0. pc \in [Runs -> Places]
  BY DEF VaultTypeOK, Places
<1>1. pc[r] = "scan" => pc'[r] = "entries"
  BY <1>0 DEF ScanPictures
<1>2. pc[r] = "entries" => pc'[r] \in {"entries", "open", "done"}
  <2>1. ReadPicture(r) => pc'[r] \in {"open", "done"}
    BY <1>0 DEF ReadPicture, Skip
  <2>2. ASSUME NEW v \in Versions, ClearPartial(r, v) \/ JudgePicture(r, v)
        PROVE  pc'[r] = "entries"
    BY <1>0, <2>2 DEF ClearPartial, JudgePicture, Fail
  <2>3. QED BY <2>1, <2>2
<1>3. pc[r] = "open" => pc'[r] \in {"flush", "done"}
  <2>1. pc[r] = "open" => Skip(r) \/ Go(r, "flush")
    BY DEF OpenPartial
  <2>2. QED BY <1>0, <2>1 DEF Skip
<1>4. pc[r] = "flush" => pc'[r] = "check"
  BY <1>0 DEF FlushPartial
<1>5. pc[r] = "check" => pc'[r] \in {"rename", "done"}
  <2>1. pc[r] = "check" => Skip(r) \/ Fail(r) \/ Go(r, "rename")
    BY DEF CheckFinal
  <2>2. QED BY <1>0, <2>1 DEF Skip, Fail
<1>6. pc[r] = "rename" => pc'[r] = "done"
  <2>1. pc[r] = "rename" => Skip(r) \/ Go(r, "done")
    BY DEF RenamePartial
  <2>2. QED BY <1>0, <2>1 DEF Skip
<1>7. QED BY <1>1, <1>2, <1>3, <1>4, <1>5, <1>6

\* No step but a start ends anybody's being alone.
LEMMA OwnKeepsAlone ==
    ASSUME VaultTypeOK, AloneMeansAlone, NEW r \in Runs, OwnStep(r)
    PROVE  AloneMeansAlone'
<1>0. \A s \in Runs \ {r} : pc'[s] = pc[s] /\ run'[s] = run[s]
  BY OwnMoves DEF VaultTypeOK, Go, Know
<1>1. /\ AtWork(r) /\ overlap' = overlap
      /\ pc'[r] # "idle" => run'[r].alone = run[r].alone
  BY OwnMoves, OwnKeepsRuns DEF counts
<1>2. QED BY <1>0, <1>1 DEF AloneMeansAlone, AtWork

\* The note of a run that is alone, case by case of where it stands.
LEMMA OwnKeepsNote ==
    ASSUME VaultTypeOK, WritersAtWork, AloneMeansAlone, NEW r \in Runs, OwnStep(r),
           run[r].alone, NoteSound(r), pc'[r] # "idle"
    PROVE  NoteSound(r)'
<1> USE StepsByPlace DEF Go
<1>0. /\ pc \in [Runs -> Places] /\ run'[r].note = run[r].note /\ AtWork(r)
      /\ note \in Contents /\ \A s \in Runs \ {r} : note # s
      /\ pc[r] # "fill" => note # r
  BY OnlyOwn, OwnMoves, OwnKeepsRuns DEF VaultTypeOK, Places, Contents
<1>1. run[r].note \in Notes \cup {"none"}
  BY DEF VaultTypeOK, RunRecord
<1>2. CASE pc[r] = "list"
  <2>1. /\ note' = note
        /\ \/ pc'[r] = "place" /\ run[r].note # "none"
           \/ pc'[r] = "judge" /\ run[r].note = "none"
           \/ pc'[r] = "scan" /\ run[r].note = "none" /\ note = "none"
    BY <1>0, <1>2 DEF ListNotes, folder
  <2>2. QED BY <1>0, <2>1 DEF NoteSound, NotePlaced
<1>3. CASE pc[r] = "judge"
  <2>1. /\ note' = note /\ note # "none"
        /\ \/ pc'[r] = "unlink"
           \/ pc'[r] = "scan" /\ note \notin Generated
    BY <1>0, <1>3 DEF JudgeNote, folder, Fail, IsGenerated
  <2>2. QED BY <1>0, <1>3, <2>1 DEF NoteSound, NotePlaced, Contents
<1>4. CASE pc[r] = "unlink"
  <2>1. note' = "none" /\ pc'[r] = "scan"
    BY <1>0, <1>4 DEF UnlinkNote, Fail
  <2>2. QED BY <1>0, <1>4, <2>1 DEF NoteSound, NotePlaced
<1>5. CASE pc[r] = "place"
  <2>1. /\ note' = note
        /\ \/ pc'[r] \in {"create", "truncate"}
           \/ pc'[r] = "scan" /\ note # "none" /\ (note \notin Generated \/ note = run[r].note)
    BY <1>0, <1>5 DEF PlaceNote, folder, IsGenerated
  <2>2. run[r].note # "none" \/ pc'[r] = "scan"
    BY <1>0, <1>5, <2>1 DEF NoteSound
  <2>3. QED BY <1>0, <1>5, <2>1, <2>2 DEF NoteSound, NotePlaced, Contents
<1>6. CASE pc[r] \in {"create", "truncate"}
  <2>1. note' = r /\ pc'[r] = "fill"
    BY <1>6, NoteMoves
  <2>2. QED BY <1>0, <1>6, <2>1 DEF NoteSound, NotePlaced
<1>7. CASE pc[r] = "fill"
  <2>1. note' = run[r].note /\ pc'[r] = "scan"
    BY <1>0, <1>7, NoteMoves DEF FillNote, NoteSound
  <2>2. QED BY <1>0, <1>7, <2>1 DEF NoteSound, NotePlaced
<1>8. CASE pc[r] \in NotePlaced
  <2>1. note' = note
    BY <1>8, NoteMoves DEF NotePlaced
  <2>2. pc'[r] \in NotePlaced
    BY <1>8, PicturesPlace DEF NotePlaced
  <2>3. QED BY <1>0, <1>8, <2>1, <2>2 DEF NoteSound, NotePlaced
<1>9. QED BY <1>0, <1>2, <1>3, <1>4, <1>5, <1>6, <1>7, <1>8 DEF Places, NotePlaced, AtWork

\* What looking at a picture leaves of what a run knows.
LEMMA JudgedEntries ==
    ASSUME VaultTypeOK, NEW r \in Runs, NEW w \in Versions, JudgePicture(r, w), pc'[r] # "idle"
    PROVE  /\ run'[r].entries = run[r].entries \ {<<"final", w>>}
           /\ run'[r].found = IF run[r].picture = w THEN run[r].found \cup {w} ELSE run[r].found
           /\ run'[r].picture = run[r].picture /\ pc' = pc
<1> DEFINE F == IF run[r].picture = w THEN run[r].found \cup {w} ELSE run[r].found
           x == [run[r] EXCEPT !.entries = @ \ {<<"final", w>>}, !.found = F]
<1>0. run \in [Runs -> RunRecord] /\ pc \in [Runs -> Places]
  BY DEF VaultTypeOK, Places
<1>1. run' = [run EXCEPT ![r] = x] /\ pc' = pc
  BY <1>0 DEF JudgePicture, Fail, Go, Know
<1>2. /\ x.entries = run[r].entries \ {<<"final", w>>} /\ x.found = F
      /\ x.picture = run[r].picture
  BY <1>0 DEF RunRecord
<1> HIDE DEF x
<1>3. run'[r] = x
  BY <1>0, <1>1
<1>4. QED BY <1>1, <1>2, <1>3

\* The temporary files.
LEMMA OwnKeepsPartial ==
    ASSUME VaultTypeOK, WritersAtWork, AloneMeansAlone, OwnersAside, NEW r \in Runs, OwnStep(r),
           RunSound(r), run[r].alone, pc'[r] # "idle", NEW v \in Versions
    PROVE  PartialSound(r, v)'
<1> USE StepsByPlace
<1>0. /\ pc \in [Runs -> Places] /\ partial \in [Versions -> File] /\ run \in [Runs -> RunRecord]
      /\ run'[r].picture = run[r].picture /\ AtWork(r) /\ pc[r] # "idle"
  BY OwnMoves, OwnKeepsRuns DEF VaultTypeOK, Places, AtWork
<1>1. /\ \A s \in Runs \ {r}, w \in Versions : partial[w] # s
      /\ PartialSound(r, v)
  BY <1>0, OnlyOwn DEF RunSound
<1>2. CASE pc[r] \in {"list", "judge", "unlink", "place", "create", "truncate", "fill"}
  <2>1. pc'[r] \notin PicturesSorted \cup {"entries", "check", "rename"}
    BY <1>0, <1>2 DEF ListNotes, JudgeNote, UnlinkNote, PlaceNote, OpenNote, FillNote, Go, Fail,
                      PicturesSorted
  <2>2. QED BY <2>1 DEF PartialSound, Done, PicturesSorted
<1>3. CASE pc[r] = "scan"
  <2>1. partial' = partial /\ pc'[r] = "entries"
    BY <1>0, <1>3, PicturesPlace DEF ScanPictures, folder
  <2>2. <<"partial", v>> \in run'[r].entries <=> partial[v] # "none"
    <3> DEFINE E == {e \in {"partial", "final"} \X Versions :
                       (IF e[1] = "partial" THEN partial[e[2]] ELSE final[e[2]]) # "none"}
    <3>1. run' = [run EXCEPT ![r] = [run[r] EXCEPT !.entries = E]]
      BY <1>3 DEF ScanPictures, Know
    <3>2. <<"partial", v>> \in E <=> partial[v] # "none"
      OBVIOUS
    <3> HIDE DEF E
    <3>3. run'[r].entries = E
      BY <1>0, <3>1 DEF RunRecord
    <3>4. QED BY <3>2, <3>3
  <2>3. QED BY <2>1, <2>2 DEF PartialSound, Done, PicturesSorted
<1>4. CASE pc[r] = "entries"
  <2>1. CASE ReadPicture(r)
    <3>1. /\ partial' = partial /\ pc'[r] \in {"open", "done"} /\ run[r].entries = {}
      BY <1>0, <2>1 DEF ReadPicture, folder, Go, Skip
    <3>2. QED BY <1>0, <1>1, <1>4, <3>1 DEF PartialSound, Done, PicturesSorted
  <2>2. ASSUME NEW w \in Versions, ClearPartial(r, w)
        PROVE  PartialSound(r, v)'
    <3> DEFINE x == [run[r] EXCEPT !.entries = @ \ {<<"partial", w>>}]
    <3>1. /\ partial' = (IF IsPartial(w) THEN [partial EXCEPT ![w] = "none"] ELSE partial)
          /\ run' = [run EXCEPT ![r] = x] /\ pc' = pc
      BY <1>0, <2>2 DEF ClearPartial, Fail, Go, Know
    <3>2. x.entries = run[r].entries \ {<<"partial", w>>}
      BY <1>0 DEF RunRecord
    <3> HIDE DEF x
    <3>3. run'[r].entries = run[r].entries \ {<<"partial", w>>}
      BY <1>0, <3>1, <3>2
    <3>4. v = w => partial'[v] \in {"none", "owner"}
      BY <1>0, <3>1 DEF IsPartial
    <3>5. v # w => partial'[v] = partial[v]
      BY <1>0, <3>1
    <3>6. QED BY <1>0, <1>1, <1>4, <3>1, <3>3, <3>4, <3>5 DEF PartialSound, Done, PicturesSorted
  <2>3. ASSUME NEW w \in Versions, JudgePicture(r, w)
        PROVE  PartialSound(r, v)'
    <3>1. partial' = partial
      BY <2>3 DEF JudgePicture
    <3>2. run'[r].entries = run[r].entries \ {<<"final", w>>} /\ pc' = pc
      BY <2>3, JudgedEntries
    <3>3. QED BY <1>0, <1>1, <1>4, <3>1, <3>2 DEF PartialSound, Done, PicturesSorted
  <2>4. QED BY <1>4, <2>1, <2>2, <2>3
<1>5. CASE pc[r] = "open"
  <2>1. \/ partial' = partial /\ pc'[r] = "done"
        \/ partial' = [partial EXCEPT ![run[r].picture] = r] /\ pc'[r] = "flush"
    <3>1. \/ partial' = partial /\ Skip(r)
          \/ partial' = [partial EXCEPT ![run[r].picture] = r] /\ Go(r, "flush")
      BY <1>5 DEF OpenPartial
    <3>2. QED BY <1>0, <3>1 DEF Skip, Go
  <2>2. QED BY <1>0, <1>1, <1>5, <2>1 DEF PartialSound, Done, PicturesSorted
<1>6. CASE pc[r] = "flush"
  <2>1. partial' = Written(partial, r) /\ pc'[r] = "check"
    BY <1>6, PicturesPlace DEF FlushPartial
  <2>2. run[r].bytes = run[r].picture /\ r \notin {"none", "owner"}
    BY <1>6, VaultAssumption DEF RunSound
  <2>3. v = run[r].picture => partial'[v] = "whole"
    BY <1>0, <1>1, <1>6, <2>1, <2>2 DEF PartialSound, Written
  <2>4. v # run[r].picture => partial'[v] \in {"none", "owner"}
    BY <1>0, <1>1, <1>6, <2>1, <2>2 DEF PartialSound, Written, Done, PicturesSorted
  <2>5. QED BY <1>0, <2>1, <2>3, <2>4 DEF PartialSound
<1>7. CASE pc[r] = "check"
  <2>1. \/ partial' = partial /\ pc'[r] = "rename"
        \/ partial' = [partial EXCEPT ![run[r].picture] = "none"] /\ pc'[r] = "done"
    <3>1. CheckFinal(r) /\ pc'[r] \in {"rename", "done"}
      BY <1>7, PicturesPlace
    <3>2. final[run[r].picture] = "none" => partial' = partial /\ Go(r, "rename")
      BY <3>1 DEF CheckFinal
    <3>3. final[run[r].picture] # "none" =>
            /\ partial' = [partial EXCEPT ![run[r].picture] = "none"]
            /\ Fail(r) \/ Skip(r)
      BY <3>1 DEF CheckFinal
    <3>4. /\ Go(r, "rename") => pc'[r] = "rename"
          /\ Fail(r) \/ Skip(r) => pc'[r] \in {"idle", "done"}
      BY <1>0 DEF Go, Fail, Skip
    <3>5. QED BY <3>2, <3>3, <3>4
  <2>2. QED BY <1>0, <1>1, <1>7, <2>1 DEF PartialSound, Done, PicturesSorted
<1>8. CASE pc[r] = "rename"
  <2>1. pc'[r] = "done"
    BY <1>8, PicturesPlace
  <2>2. \/ partial' = [partial EXCEPT ![run[r].picture] = "none"]
        \/ partial' = partial /\ partial[run[r].picture] = "none"
    BY <1>8 DEF RenamePartial
  <2>3. QED BY <1>0, <1>1, <1>8, <2>1, <2>2 DEF PartialSound, Done, PicturesSorted
<1>9. QED BY <1>0, <1>2, <1>3, <1>4, <1>5, <1>6, <1>7, <1>8 DEF Places, AtWork

\* The pictures.
LEMMA OwnKeepsFinal ==
    ASSUME VaultTypeOK, WritersAtWork, AloneMeansAlone, OwnersAside, NEW r \in Runs, OwnStep(r),
           RunSound(r), run[r].alone, pc'[r] # "idle", NEW v \in Versions
    PROVE  FinalSound(r, v)'
<1> USE StepsByPlace
<1>0. /\ pc \in [Runs -> Places] /\ final \in [Versions -> File] /\ run \in [Runs -> RunRecord]
      /\ run'[r].picture = run[r].picture /\ AtWork(r) /\ pc[r] # "idle"
      /\ r \notin {"none", "whole", "broken", "owner"}
  BY VaultAssumption, OwnMoves, OwnKeepsRuns DEF VaultTypeOK, Places, AtWork
<1>1. /\ \A s \in Runs, w \in Versions : final[w] # s
      /\ FinalSound(r, v) /\ PartialSound(r, v)
  BY <1>0, OnlyOwn DEF RunSound, FinalSound
<1>2. CASE pc[r] \in {"list", "judge", "unlink", "place", "create", "truncate", "fill"}
  <2>1. final' = final
    BY <1>2, FilesMove
  <2>2. run' = run
    BY <1>0, <1>2 DEF ListNotes, JudgeNote, UnlinkNote, PlaceNote, OpenNote, FillNote, Go, Fail
  <2>3. pc'[r] \notin PicturesSorted \cup {"entries"}
    BY <1>0, <1>2 DEF ListNotes, JudgeNote, UnlinkNote, PlaceNote, OpenNote, FillNote, Go, Fail,
                      PicturesSorted
  <2>4. QED BY <1>1, <1>2, <2>1, <2>2, <2>3 DEF FinalSound, Done, PicturesSorted
<1>3. CASE pc[r] = "scan"
  <2>1. final' = final /\ pc'[r] = "entries"
    BY <1>0, <1>3, PicturesPlace DEF ScanPictures, folder
  <2>2. /\ <<"final", v>> \in run'[r].entries <=> final[v] # "none"
        /\ run'[r].found = run[r].found
    <3> DEFINE E == {e \in {"partial", "final"} \X Versions :
                       (IF e[1] = "partial" THEN partial[e[2]] ELSE final[e[2]]) # "none"}
    <3>1. run' = [run EXCEPT ![r] = [run[r] EXCEPT !.entries = E]]
      BY <1>3 DEF ScanPictures, Know
    <3>2. <<"final", v>> \in E <=> final[v] # "none"
      OBVIOUS
    <3> HIDE DEF E
    <3>3. run'[r].entries = E /\ run'[r].found = run[r].found
      BY <1>0, <3>1 DEF RunRecord
    <3>4. QED BY <3>2, <3>3
  <2>3. v \notin run[r].found
    BY <1>1, <1>3 DEF FinalSound, PicturesSorted
  <2>4. QED BY <1>0, <1>1, <2>1, <2>2, <2>3 DEF FinalSound, Done, PicturesSorted
<1>4. CASE pc[r] = "entries"
  <2>1. CASE ReadPicture(r)
    <3>1. /\ final' = final /\ run[r].entries = {}
      BY <2>1 DEF ReadPicture, folder
    <3>2. /\ \/ pc'[r] = "done" /\ run' = run /\ run[r].picture \in run[r].found \cup {Absent}
             \/ pc'[r] = "open"
             \/ pc'[r] = "done" /\ run'[r].skipped
          /\ run'[r].found = run[r].found
      <4>1. \/ Go(r, "done") /\ run' = run /\ run[r].picture \in run[r].found \cup {Absent}
            \/ Go(r, "open") /\ Know(r, [run[r] EXCEPT !.bytes = image])
            \/ Skip(r)
        BY <2>1 DEF ReadPicture
      <4>2. Know(r, [run[r] EXCEPT !.bytes = image]) => run'[r].found = run[r].found
        BY <1>0 DEF Know, RunRecord
      <4>3. Skip(r) => run'[r].found = run[r].found /\ run'[r].skipped /\ pc'[r] = "done"
        BY <1>0 DEF Skip, Know, Go, RunRecord
      <4>4. \A at \in Places : Go(r, at) => pc'[r] = at
        BY <1>0 DEF Go
      <4>5. QED BY <4>1, <4>2, <4>3, <4>4 DEF Places
    <3>3. Absent \notin Versions
      BY PicturesAssumption
    <3>4. QED BY <1>0, <1>1, <1>4, <3>1, <3>2, <3>3 DEF FinalSound, Done, PicturesSorted
  <2>2. ASSUME NEW w \in Versions, ClearPartial(r, w)
        PROVE  FinalSound(r, v)'
    <3> DEFINE x == [run[r] EXCEPT !.entries = @ \ {<<"partial", w>>}]
    <3>1. /\ final' = final
          /\ run' = [run EXCEPT ![r] = x] /\ pc' = pc
      BY <1>0, <2>2 DEF ClearPartial, Fail, Go, Know
    <3>2. x.entries = run[r].entries \ {<<"partial", w>>} /\ x.found = run[r].found
      BY <1>0 DEF RunRecord
    <3> HIDE DEF x
    <3>3. run'[r].entries = run[r].entries \ {<<"partial", w>>} /\ run'[r].found = run[r].found
      BY <1>0, <3>1, <3>2
    <3>4. QED BY <1>0, <1>1, <1>4, <3>1, <3>3 DEF FinalSound, Done, PicturesSorted
  <2>3. ASSUME NEW w \in Versions, JudgePicture(r, w)
        PROVE  FinalSound(r, v)'
    <3>1. /\ run'[r].entries = run[r].entries \ {<<"final", w>>} /\ pc' = pc
          /\ run'[r].found = IF run[r].picture = w THEN run[r].found \cup {w} ELSE run[r].found
      BY <2>3, JudgedEntries
    <3>2. /\ final[w] # "none"
          /\ final' = IF final[w] = "whole" /\ run[r].picture # w
                      THEN [final EXCEPT ![w] = "none"] ELSE final
      BY <2>3 DEF JudgePicture, IsPicture, Fail, Go, VaultTypeOK
    <3>3. v = w /\ v # run[r].picture => final'[v] \in {"none", "owner", "broken"}
      BY <1>0, <1>1, <3>2 DEF File
    <3>4. v = run[r].picture => final'[v] = final[v]
      BY <1>0, <3>2
    <3>5. v # w => final'[v] = final[v]
      BY <1>0, <3>2
    <3>6. final'[v] # r
      BY <1>0, <1>1, <3>2
    <3>7. QED BY <1>0, <1>1, <1>4, <3>1, <3>2, <3>3, <3>4, <3>5, <3>6
              DEF FinalSound, Done, PicturesSorted
  <2>4. QED BY <1>4, <2>1, <2>2, <2>3
<1>5. CASE pc[r] \in {"open", "check"}
  <2>1. /\ final' = final
        /\ \/ pc'[r] \in {"flush", "rename"} /\ run' = run
           \/ Skip(r) /\ pc'[r] = "done"
    <3>1. pc'[r] \in {"flush", "rename", "done"}
      BY <1>5, PicturesPlace
    <3>2. pc[r] = "open" => final' = final /\ (Skip(r) \/ (Go(r, "flush") /\ run' = run))
      BY DEF OpenPartial
    <3>3. pc[r] = "check" => final' = final /\ (Skip(r) \/ Fail(r) \/ (Go(r, "rename") /\ run' = run))
      BY DEF CheckFinal
    <3>4. /\ Fail(r) => pc'[r] = "idle"
          /\ Skip(r) => pc'[r] = "done"
          /\ Go(r, "flush") => pc'[r] = "flush"
          /\ Go(r, "rename") => pc'[r] = "rename"
      BY <1>0 DEF Go, Fail, Skip
    <3>5. QED BY <1>5, <3>1, <3>2, <3>3, <3>4
  <2>2. Skip(r) => run'[r].found = run[r].found /\ run'[r].skipped
    BY <1>0 DEF Skip, Know, RunRecord
  <2>3. QED BY <1>0, <1>1, <1>5, <2>1, <2>2 DEF FinalSound, Done, PicturesSorted
<1>6. CASE pc[r] = "flush"
  <2>1. final' = Written(final, r) /\ run' = run /\ pc'[r] = "check"
    BY <1>6, PicturesPlace DEF FlushPartial
  <2>2. final' = final
    BY <1>0, <1>1, <2>1 DEF Written
  <2>3. QED BY <1>0, <1>1, <1>6, <2>1, <2>2 DEF FinalSound, Done, PicturesSorted
<1>7. CASE pc[r] = "rename"
  <2>1. pc'[r] = "done" /\ run[r].picture \in Versions
    BY <1>7, PicturesPlace DEF OwnersAside
  <2>2. partial[run[r].picture] = "whole"
    BY <1>0, <1>7, <2>1 DEF RunSound, PartialSound
  <2>3. final' = [final EXCEPT ![run[r].picture] = "whole"] /\ run' = run
    BY <1>7, <2>2 DEF RenamePartial
  <2>4. QED BY <1>0, <1>1, <1>7, <2>1, <2>3 DEF FinalSound, Done, PicturesSorted
<1>8. QED BY <1>0, <1>2, <1>3, <1>4, <1>5, <1>6, <1>7 DEF Places, AtWork

\* A step of a run that is alone keeps what it has done so far; beside another, no run is alone.
LEMMA OwnKeepsRunsSound ==
    ASSUME VaultTypeOK, WritersAtWork, AloneMeansAlone, OwnersAside, RunsSound,
           NEW r \in Runs, OwnStep(r)
    PROVE  RunsSound'
<1>0. /\ \A s \in Runs \ {r} : pc'[s] = pc[s] /\ run'[s] = run[s]
      /\ AtWork(r) /\ RunSound(r) /\ pc[r] # "idle"
  BY OwnMoves DEF VaultTypeOK, Go, Know, RunsSound, AtWork
<1>1. ASSUME NEW s \in Runs \ {r} PROVE RunSound(s)'
  <2>1. RunSound(s) /\ ~(run[s].alone /\ pc[s] # "idle")
    BY <1>0 DEF AloneMeansAlone, RunsSound
  <2>2. QED BY <1>0, <2>1 DEF RunSound
<1>2. ASSUME pc'[r] \in {"open", "flush"} PROVE run'[r].bytes = run'[r].picture
  <2>1. CASE pc'[r] = "open"
    <3>1. ReadPicture(r)
      BY <2>1, NextPlace
    <3>2. /\ image = run[r].picture
          /\ Know(r, [run[r] EXCEPT !.bytes = image])
      BY <2>1, <3>1 DEF ReadPicture, IsWanted, Go, Skip, VaultTypeOK
    <3>3. run'[r].bytes = image /\ run'[r].picture = run[r].picture
      BY <3>2 DEF Know, VaultTypeOK, RunRecord
    <3>4. QED BY <3>2, <3>3
  <2>2. CASE pc'[r] = "flush"
    <3>1. pc[r] = "open" /\ OpenPartial(r)
      BY <2>2, NextPlace, StepsByPlace
    <3>2. run' = run
      BY <2>2, <3>1 DEF OpenPartial, Go, Skip, VaultTypeOK
    <3>3. QED BY <1>0, <3>1, <3>2 DEF RunSound
  <2>3. QED BY <1>2, <2>1, <2>2
<1>3. ASSUME run'[r].alone, pc'[r] # "idle"
      PROVE  NoteSound(r)' /\ \A v \in Versions : PartialSound(r, v)' /\ FinalSound(r, v)'
  <2>1. run[r].alone
    BY <1>3, OwnKeepsRuns
  <2>2. NoteSound(r)
    BY <1>0, <2>1 DEF RunSound
  <2>3. QED BY <1>0, <1>3, <2>1, <2>2, OwnKeepsNote, OwnKeepsPartial, OwnKeepsFinal
<1>4. RunSound(r)'
  BY <1>2, <1>3 DEF RunSound
<1>5. QED BY <1>1, <1>4 DEF RunsSound

\* Only a rename puts a file under a picture's name, and the run that was alone renames a whole one.
LEMMA OwnKeepsWhole ==
    ASSUME VaultTypeOK, WritersAtWork, AloneMeansAlone, OwnersAside, RunsSound, BrokenOnlyByTwo,
           NEW r \in Runs, OwnStep(r)
    PROVE  BrokenOnlyByTwo'
<1>0. AtWork(r) /\ overlap' = overlap /\ RunSound(r) /\ pc[r] # "idle"
  BY OwnMoves DEF counts, RunsSound, AtWork
<1>1. SUFFICES ASSUME ~overlap, NEW v \in Versions
               PROVE  final'[v] # "broken"
  BY <1>0 DEF BrokenOnlyByTwo, NoBrokenPicture
<1>2. run[r].alone /\ final[v] # "broken" /\ final \in [Versions -> File]
  BY <1>0, <1>1 DEF AloneMeansAlone, BrokenOnlyByTwo, NoBrokenPicture, VaultTypeOK
<1>3. FinalSound(r, v) /\ \A w \in Versions : PartialSound(r, w)
  BY <1>0, <1>2 DEF RunSound
<1>4. CASE pc[r] = "entries"
  <2>1. CASE ReadPicture(r)
    BY <1>2, <2>1 DEF ReadPicture, folder
  <2>2. ASSUME NEW w \in Versions, ClearPartial(r, w) PROVE final'[v] # "broken"
    BY <1>2, <2>2 DEF ClearPartial
  <2>3. ASSUME NEW w \in Versions, JudgePicture(r, w) PROVE final'[v] # "broken"
    BY <1>2, <2>3 DEF JudgePicture
  <2>4. QED BY <1>4, <2>1, <2>2, <2>3, StepsByPlace
<1>5. CASE pc[r] \in {"open", "check"}
  BY <1>2, <1>5, StepsByPlace DEF OpenPartial, CheckFinal
<1>6. CASE pc[r] = "flush"
  BY <1>2, <1>3, <1>6, StepsByPlace DEF FlushPartial, Written, FinalSound
<1>7. CASE pc[r] = "rename"
  <2>1. partial[run[r].picture] = "whole"
    BY <1>3, <1>7 DEF OwnersAside, PartialSound
  <2>2. final' = [final EXCEPT ![run[r].picture] = "whole"]
    BY <1>7, <2>1, StepsByPlace DEF RenamePartial
  <2>3. QED BY <1>2, <2>2
<1>8. CASE pc[r] \notin {"entries", "open", "check", "flush", "rename"}
  BY <1>2, <1>8, FilesMove
<1>9. QED BY <1>4, <1>5, <1>6, <1>7, <1>8

\* So a run's own step keeps the invariant.
LEMMA OwnKeeps ==
    ASSUME VaultInv, NEW r \in Runs, OwnStep(r)
    PROVE  VaultInv'
<1>1. VersionHasPicture'
  BY OwnMoves DEF VaultInv, VersionHasPicture, site
<1>2. QED
  BY <1>1, OwnKeepsTypes, OwnKeepsWriters, OwnKeepsAlone, OwnKeepsOwners, OwnKeepsRunsSound,
     OwnKeepsWhole DEF VaultInv

-----------------------------------------------------------------------------
(* Starting, and being killed *)

\* Starting keeps the types.
LEMMA StartTyped ==
    ASSUME VaultTypeOK, NEW r \in Runs, Start(r)
    PROVE  VaultTypeOK'
<1> DEFINE picture == IF image = Absent THEN Absent ELSE url
           others == {s \in Runs \ {r} : AtWork(s)}
           x == [NoRun EXCEPT !.note = Words(picture), !.picture = picture, !.alone = others = {}]
           y == [s \in Runs |-> [run[s] EXCEPT !.alone = FALSE]]
<1>0. /\ image \in Versions \cup {Absent} /\ url \in Versions \cup {Absent}
      /\ run \in [Runs -> RunRecord] /\ pc \in [Runs -> Places]
      /\ started \in 0..MaxRuns /\ overlap \in BOOLEAN
  BY DEF VaultTypeOK, PicturesTypeOK, Places
<1>1. picture \in Versions \cup {Absent}
  BY <1>0
<1> HIDE DEF picture
<1>2. Words(picture) \in Notes \cup {"none"}
  BY <1>1 DEF Words, Notes
<1>3. x \in RunRecord
  <2>1. NoRun \in RunRecord /\ (others = {}) \in BOOLEAN
    BY NothingTyped
  <2>2. \A k \in RunRecord, n \in Notes \cup {"none"}, a \in BOOLEAN :
          [k EXCEPT !.note = n, !.picture = picture, !.alone = a] \in RunRecord
    BY <1>1 DEF RunRecord
  <2> HIDE DEF others
  <2>3. QED BY <1>2, <2>1, <2>2
<1>4. ASSUME NEW s \in Runs PROVE y[s] \in RunRecord
  <2>1. \A k \in RunRecord : [k EXCEPT !.alone = FALSE] \in RunRecord
    BY DEF RunRecord
  <2>2. run[s] \in RunRecord /\ y[s] = [run[s] EXCEPT !.alone = FALSE]
    BY <1>0
  <2> HIDE DEF y
  <2>3. QED BY <2>1, <2>2
<1>5. /\ run' = [s \in Runs |-> IF s = r THEN x ELSE IF s \in others THEN y[s] ELSE NoRun]
      /\ pc' = [s \in Runs |-> IF s = r THEN "list" ELSE IF s \in others THEN pc[s] ELSE "idle"]
      /\ started < MaxRuns /\ started' = started + 1
      /\ overlap' = (overlap \/ others # {})
      /\ UNCHANGED <<site, folder, crashes>>
  BY DEF Start, picture
<1> HIDE DEF x, y, others
<1>6. run' \in [Runs -> RunRecord]
  BY <1>3, <1>4, <1>5, NothingTyped
<1>7. pc' \in [Runs -> Places]
  BY <1>0, <1>5 DEF Places
<1>8. started' \in 0..MaxRuns
  BY <1>0, <1>5, VaultAssumption
<1>9. overlap' \in BOOLEAN
  BY <1>5
<1>10. QED
  BY <1>5, <1>6, <1>7, <1>8, <1>9 DEF VaultTypeOK, PicturesTypeOK, site, folder, Places

\* Whoever is at work stays there and is no longer alone; a run that has ended is forgotten.
LEMMA StartMoves ==
    ASSUME VaultTypeOK, NEW r \in Runs, Start(r)
    PROVE  /\ UNCHANGED folder /\ ~AtWork(r) /\ pc'[r] = "list" /\ run'[r].found = {}
           /\ run'[r].alone <=> \A s \in Runs \ {r} : ~AtWork(s)
           /\ \A s \in Runs \ {r} : AtWork(s) =>
                /\ pc'[s] = pc[s] /\ run'[s].picture = run[s].picture
                /\ run'[s].bytes = run[s].bytes /\ ~run'[s].alone /\ overlap'
           /\ \A s \in Runs \ {r} : ~AtWork(s) => pc'[s] = "idle"
           /\ overlap => overlap'
<1> DEFINE picture == IF image = Absent THEN Absent ELSE url
           others == {s \in Runs \ {r} : AtWork(s)}
           x == [NoRun EXCEPT !.note = Words(picture), !.picture = picture, !.alone = others = {}]
           y == [s \in Runs |-> [run[s] EXCEPT !.alone = FALSE]]
<1>1. /\ run' = [s \in Runs |-> IF s = r THEN x ELSE IF s \in others THEN y[s] ELSE NoRun]
      /\ pc' = [s \in Runs |-> IF s = r THEN "list" ELSE IF s \in others THEN pc[s] ELSE "idle"]
      /\ overlap' = (overlap \/ others # {})
      /\ UNCHANGED <<site, folder, crashes>> /\ ~AtWork(r)
  BY DEF Start
<1>2. x.found = {} /\ x.alone = (others = {})
  BY DEF NoRun
<1>3. ASSUME NEW s \in Runs
      PROVE  y[s].picture = run[s].picture /\ y[s].bytes = run[s].bytes /\ ~y[s].alone
  BY DEF VaultTypeOK, RunRecord
<1>4. others = {s \in Runs \ {r} : AtWork(s)}
  OBVIOUS
<1> HIDE DEF x, y, others
<1>5. /\ run'[r] = x /\ pc'[r] = "list"
      /\ \A s \in Runs \ {r} : s \in others => pc'[s] = pc[s] /\ run'[s] = y[s] /\ overlap'
      /\ \A s \in Runs \ {r} : s \notin others => pc'[s] = "idle"
  BY <1>1
<1>6. QED BY <1>1, <1>2, <1>3, <1>4, <1>5

\* Starting keeps the invariant: whoever is at work is alone no longer, and the new run has done nothing yet.
LEMMA StartKeeps ==
    ASSUME VaultInv, NEW r \in Runs, Start(r)
    PROVE  VaultInv'
<1> USE DEF VaultInv
<1>1. VaultTypeOK' /\ VersionHasPicture'
  BY StartTyped DEF Start, site, VersionHasPicture
<1>2. /\ note' = note /\ partial' = partial /\ final' = final
      /\ pc'[r] = "list" /\ pc[r] \in {"idle", "done"}
      /\ \A s \in Runs \ {r} : pc'[s] # "idle" => AtWork(s) /\ pc'[s] = pc[s] /\ ~run'[s].alone
      /\ \A s \in Runs \ {r} : pc'[s] # "idle" =>
           run'[s].picture = run[s].picture /\ run'[s].bytes = run[s].bytes
  BY StartMoves DEF folder, AtWork
<1>3. WritersAtWork'
  <2>1. ASSUME NEW s \in Runs, pc[s] \in {"fill", "flush"} PROVE pc'[s] = pc[s]
    BY <1>2, <2>1, StartMoves DEF AtWork
  <2>2. QED BY <1>2, <2>1 DEF WritersAtWork
<1>4. AloneMeansAlone'
  <2>1. ASSUME NEW s \in Runs, NEW t \in Runs, pc'[s] # "idle", run'[s].alone, t # s
        PROVE  ~AtWork(t)'
    <3>1. s = r
      BY <1>2, <2>1
    <3>2. ~AtWork(t)
      BY <2>1, <3>1, StartMoves
    <3>3. QED BY <2>1, <3>1, <3>2, StartMoves DEF AtWork
  <2>2. ASSUME NEW s \in Runs, ~overlap', AtWork(s)' PROVE run'[s].alone
    BY <2>2, StartMoves DEF AtWork
  <2>3. QED BY <2>1, <2>2 DEF AloneMeansAlone
<1>5. OwnersAside'
  BY <1>2 DEF OwnersAside
<1>6. RunsSound'
  <2>1. ASSUME NEW s \in Runs \ {r} PROVE RunSound(s)'
    BY <1>2 DEF RunSound, RunsSound
  <2>2. /\ \A v \in Versions : final[v] # r
        /\ run'[r].found = {}
    BY <1>2, StartMoves DEF WritersAtWork
  <2>3. RunSound(r)'
    BY <1>2, <2>2 DEF RunSound, NoteSound, NotePlaced, PartialSound, FinalSound, Done, PicturesSorted
  <2>4. QED BY <2>1, <2>3 DEF RunsSound
<1>7. BrokenOnlyByTwo'
  BY <1>2, StartMoves DEF BrokenOnlyByTwo, NoBrokenPicture
<1>8. QED BY <1>1, <1>3, <1>4, <1>5, <1>6, <1>7

\* What a killed run was writing is spoilt, and nothing else is touched.
LEMMA KillMoves ==
    ASSUME VaultTypeOK, NEW r \in Runs, Kill(r)
    PROVE  /\ AtWork(r) /\ pc'[r] = "idle" /\ UNCHANGED <<site, started, overlap>>
           /\ \A s \in Runs \ {r} : pc'[s] = pc[s] /\ run'[s] = run[s]
           /\ note' = IF note = r THEN "torn" ELSE note
           /\ \A v \in Versions : partial'[v] = IF partial[v] = r THEN "broken" ELSE partial[v]
           /\ \A v \in Versions : final'[v] = IF final[v] = r THEN "broken" ELSE final[v]
BY DEF VaultTypeOK, Kill, Fail, Go, Know, Broken

\* Being killed keeps the types.
LEMMA KillTyped ==
    ASSUME VaultTypeOK, NEW r \in Runs, Kill(r)
    PROVE  VaultTypeOK'
<1>1. /\ partial' \in [Versions -> File] /\ final' \in [Versions -> File]
  BY DEF Kill, Broken, File, VaultTypeOK
<1>2. pc' \in [Runs -> Places] /\ run' \in [Runs -> RunRecord]
  BY NothingTyped DEF Kill, Fail, Go, Know, VaultTypeOK, Places
<1>3. crashes' \in 0..MaxCrashes
  BY VaultAssumption DEF Kill, VaultTypeOK
<1>4. note' \in Contents
  BY KillMoves DEF VaultTypeOK, Contents
<1>5. QED BY <1>1, <1>2, <1>3, <1>4, KillMoves DEF VaultTypeOK, PicturesTypeOK, site, Places, Contents

\* Being killed keeps the invariant: what the run was writing is no picture unless two were at work.
LEMMA KillKeeps ==
    ASSUME VaultInv, NEW r \in Runs, Kill(r)
    PROVE  VaultInv'
<1> USE DEF VaultInv
<1>1. VaultTypeOK' /\ VersionHasPicture'
  BY KillTyped, KillMoves DEF site, VersionHasPicture
<1>2. /\ pc'[r] = "idle" /\ AtWork(r) /\ pc[r] # "idle"
      /\ \A s \in Runs \ {r} : pc'[s] = pc[s] /\ run'[s] = run[s]
  BY KillMoves DEF AtWork
<1>3. WritersAtWork'
  <2>1. \A s \in Runs : s \notin {"torn", "broken"}
    BY VaultAssumption
  <2>2. QED BY <1>2, <2>1, KillMoves DEF WritersAtWork
<1>4. AloneMeansAlone'
  BY <1>2, KillMoves DEF AloneMeansAlone, AtWork
<1>5. OwnersAside'
  <2>1. /\ note' = "owner" => note = "owner"
        /\ \A v \in Versions : partial'[v] = "owner" => partial[v] = "owner"
        /\ \A v \in Versions : final'[v] = "owner" => final[v] = "owner"
    BY KillMoves
  <2>2. QED BY <1>2, <2>1 DEF OwnersAside
<1>6. RunsSound'
  <2>1. ASSUME NEW s \in Runs \ {r} PROVE RunSound(s)'
    <3>1. RunSound(s) /\ ~(run[s].alone /\ pc[s] # "idle")
      BY <1>2 DEF AloneMeansAlone, RunsSound
    <3>2. QED BY <1>2, <3>1 DEF RunSound
  <2>2. RunSound(r)'
    BY <1>2 DEF RunSound
  <2>3. QED BY <2>1, <2>2 DEF RunsSound
<1>7. BrokenOnlyByTwo'
  <2>1. ASSUME ~overlap, NEW v \in Versions PROVE final'[v] # "broken"
    <3>1. final[v] # "broken" /\ run[r].alone
      BY <1>2, <2>1 DEF BrokenOnlyByTwo, NoBrokenPicture, AloneMeansAlone
    <3>2. final[v] # r
      BY <1>2, <3>1 DEF RunsSound, RunSound, FinalSound
    <3>3. QED BY <3>1, <3>2, KillMoves
  <2>2. QED BY <2>1, KillMoves DEF BrokenOnlyByTwo, NoBrokenPicture
<1>8. QED BY <1>1, <1>3, <1>4, <1>5, <1>6, <1>7

-----------------------------------------------------------------------------
(* The theorems *)

\* Nothing of the vault depends on the site between two of a run's steps.
LEMMA SiteKeeps ==
    ASSUME VaultInv, PicturesTypeOK', VersionHasPicture', UNCHANGED <<folder, pc, run, counts>>
    PROVE  VaultInv'
<1> USE DEF VaultInv, folder, counts
<1>1. VaultTypeOK'
  BY DEF VaultTypeOK
<1>2. WritersAtWork' /\ AloneMeansAlone' /\ OwnersAside' /\ BrokenOnlyByTwo'
  BY DEF WritersAtWork, AloneMeansAlone, AtWork, OwnersAside, BrokenOnlyByTwo, NoBrokenPicture
<1>3. RunsSound'
  BY DEF RunsSound, RunSound, NoteSound, PartialSound, FinalSound, Done
<1>4. QED BY <1>1, <1>2, <1>3

\* The invariant holds at first, whatever the owner has put in the folder.
LEMMA VaultInvInit == VaultInit => VaultInv
<1> SUFFICES ASSUME VaultInit PROVE VaultInv
  OBVIOUS
<1>1. PicturesTypeOK /\ VersionHasPicture
  BY PicturesAssumption DEF VaultInit, PicturesInit, PicturesTypeOK, VersionHasPicture, NoTx
<1>2. /\ pc = [r \in Runs |-> "idle"] /\ run = [r \in Runs |-> NoRun]
      /\ note \in {"none", "owner"}
      /\ partial \in [Versions -> {"none", "owner"}] /\ final \in [Versions -> {"none", "owner"}]
      /\ started = 0 /\ crashes = 0 /\ overlap = FALSE
  BY DEF VaultInit
<1>3. VaultTypeOK
  <2>1. run \in [Runs -> RunRecord]
    BY <1>2, NothingTyped
  <2>2. partial \in [Versions -> File] /\ final \in [Versions -> File]
    BY <1>2 DEF File
  <2>3. started \in 0..MaxRuns /\ crashes \in 0..MaxCrashes /\ overlap \in BOOLEAN
    <3>1. MaxRuns \in Nat /\ MaxCrashes \in Nat
      BY VaultAssumption
    <3>2. started = 0 /\ crashes = 0
      BY <1>2
    <3>3. started \in 0..MaxRuns /\ crashes \in 0..MaxCrashes
      BY <3>1, <3>2
    <3>4. overlap \in BOOLEAN
      BY <1>2
    <3>5. QED BY <3>3, <3>4
  <2>4. QED BY <1>1, <1>2, <2>1, <2>2, <2>3 DEF VaultTypeOK
<1>4. WritersAtWork /\ AloneMeansAlone /\ OwnersAside /\ BrokenOnlyByTwo
  BY <1>2, VaultAssumption
     DEF WritersAtWork, AloneMeansAlone, AtWork, OwnersAside, BrokenOnlyByTwo, NoBrokenPicture
<1>5. RunsSound
  BY <1>2 DEF RunsSound, RunSound
<1>6. QED BY <1>1, <1>3, <1>4, <1>5 DEF VaultInv

\* Every step keeps it.
LEMMA VaultInvNext == VaultInv /\ [VaultNext]_vaultVars => VaultInv'
<1> SUFFICES ASSUME VaultInv, [VaultNext]_vaultVars PROVE VaultInv'
  OBVIOUS
<1>1. CASE PicturesNext /\ UNCHANGED <<folder, pc, run, counts>>
  <2>1. PicturesTypeOK' /\ VersionHasPicture'
    BY <1>1, PicturesKept DEF VaultInv, VaultTypeOK
  <2>2. QED BY <1>1, <2>1, SiteKeeps
<1>2. ASSUME NEW r \in Runs, Start(r) \/ NoteStep(r) \/ PictureStep(r) \/ Kill(r)
      PROVE  VaultInv'
  BY <1>2, StartKeeps, OwnKeeps, KillKeeps DEF OwnStep
<1>3. CASE UNCHANGED vaultVars
  <2>1. PicturesTypeOK' /\ VersionHasPicture' /\ UNCHANGED <<folder, pc, run, counts>>
    BY <1>3 DEF vaultVars, site, VaultInv, VaultTypeOK, PicturesTypeOK, VersionHasPicture
  <2>2. QED BY <2>1, SiteKeeps
<1>4. QED BY <1>1, <1>2, <1>3 DEF VaultNext

\* So it always holds.
LEMMA VaultInvariance == VaultSpec => []VaultInv
<1>1. QED BY VaultInvInit, VaultInvNext, PTL DEF VaultSpec

\* Saving, removing and deleting, in any order and with any lost connection, never leave a
\* version beside an account whose picture is not the one stored (avatars.ts).
THEOREM PictureBehindVersion == VaultSpec => []VersionHasPicture
<1>1. VaultInv => VersionHasPicture
  BY DEF VaultInv
<1>2. QED BY <1>1, VaultInvariance, PTL

\* A run of the export that had the folder to itself leaves what a rebuild from scratch would
\* give, whatever the runs before it left and wherever they were killed; and no broken file
\* has a picture's name as long as no two runs were at work at once (brain/vault.ts).
THEOREM RebuiltByARunAlone == VaultSpec => []FolderRebuilt
<1>1. VaultInv => FolderRebuilt
  <2>1. SUFFICES ASSUME VaultInv, NEW r \in Runs, pc[r] = "done", run[r].alone
                 PROVE  AsRebuilt(r)
    BY DEF VaultInv, FolderRebuilt
  <2>2. NoteSound(r) /\ \A v \in Versions : PartialSound(r, v) /\ FinalSound(r, v)
    BY <2>1 DEF VaultInv, RunsSound, RunSound
  <2>3. QED BY <2>1, <2>2
            DEF AsRebuilt, NoteSound, NotePlaced, PartialSound, FinalSound, Done, PicturesSorted
<1>2. QED BY <1>1, VaultInvariance, PTL

\* No step of a run, however many are at work, takes or overwrites what the owner put in the
\* place of a note, of a picture or of a temporary file (brain/vault.ts).
THEOREM OwnerUntouched == VaultSpec => OwnersKept
<1> DEFINE Kept == /\ note = "owner" => note' = "owner"
                   /\ \A v \in Versions : /\ partial[v] = "owner" => partial'[v] = "owner"
                                          /\ final[v] = "owner" => final'[v] = "owner"
<1>1. ASSUME VaultInv, [VaultNext]_vaultVars PROVE Kept
  <2>1. CASE UNCHANGED <<note, partial, final>>
    BY <2>1
  <2>2. ASSUME NEW r \in Runs, OwnStep(r) PROVE Kept
    BY <1>1, <2>2, OwnersStay DEF VaultInv
  <2>3. ASSUME NEW r \in Runs, Kill(r) PROVE Kept
    <3>1. r # "owner"
      BY VaultAssumption
    <3>2. QED BY <1>1, <2>3, <3>1, KillMoves DEF VaultInv
  <2>4. ASSUME NEW r \in Runs, Start(r) PROVE UNCHANGED <<note, partial, final>>
    BY <2>4 DEF Start, folder
  <2>5. QED BY <1>1, <2>1, <2>2, <2>3, <2>4 DEF VaultNext, OwnStep, vaultVars, folder
<1>2. VaultInv /\ [VaultNext]_vaultVars => [Kept]_vaultVars
  BY <1>1
<1>3. QED BY <1>2, VaultInvariance, PTL DEF VaultSpec, OwnersKept

=============================================================================
