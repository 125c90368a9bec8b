---------------------------- MODULE DiscordProofs ----------------------------
(***************************************************************************)
(* Links stay unique and die with their member, and a rank role is never   *)
(* given to an account that did not earn it, for any number of members,    *)
(* Discord accounts, requests and roles, whatever calls fail and whatever  *)
(* server dies between two of them.                                        *)
(*                                                                         *)
(* What an account has earned it has earned for good: links are remembered *)
(* and a member who leaves is remembered too.  So a rank that was read, by *)
(* a request or by Agent Zero, may be applied however late.                *)
(***************************************************************************)
EXTENDS DiscordRoles, TLAPS

Places == {"idle", "previous", "upsert", "rank", "calls", "lookup", "delete"}

\* The accounts that were linked to a member who has the rank, or who is gone.
Earned == {a \in Accounts : \E m \in ranked \cup gone : <<m, a>> \in linked}

\* What a request has to do with: a link that was stored, and a role that was earned.
RequestSound(q) ==
    /\ pc[q] # "idle" => req[q].member \in Members
    /\ pc[q] \in {"previous", "upsert"} => req[q].who \in Accounts
    /\ pc[q] = "rank" \/ (pc[q] = "calls" /\ req[q].then = "rank") =>
         req[q].who \in Accounts /\ <<req[q].member, req[q].who>> \in linked
    /\ pc[q] = "calls" =>
         req[q].target \in Accounts /\ (req[q].wanted \in Roles => req[q].target \in Earned)

RequestsSound == \A q \in Requests : RequestSound(q)

LinksKept == \A m \in Members : link[m] # None => <<m, link[m]>> \in linked

\* Every rank on Agent Zero's list was earned.
ListSound == list # None => \A e \in list.ranks : e.rank \in Roles => e.account \in Earned

RolesEarned == \A a \in Accounts : holds[a] # {} => a \in Earned

IInv == TypeOK /\ RequestsSound /\ LinksKept /\ ListSound /\ RolesEarned

-----------------------------------------------------------------------------
(* What a step may do *)

\* The steps of a request.
Own(q) ==
    \/ \E m \in Members : \/ DiscordUnlink(q, m) \/ DeleteUser(q, m) \/ Earn(q, m)
                          \/ \E s \in States : Callback(q, s, m)
    \/ Serve(q) \/ Crash(q)

\* Those of the browser, of Agent Zero and of Discord.
Elsewhere ==
    \/ CallbackRefused \/ AgentZero
    \/ \E a \in Accounts : JoinServer(a)
    \/ \E m \in Members : DiscordLink(m)
    \/ UNCHANGED vars

LEMMA StepsAre ==
    ASSUME [Next]_vars
    PROVE  (\E q \in Requests : Own(q)) \/ Elsewhere
BY DEF Next, Own, Elsewhere

LEMMA NothingIsTyped == Nothing \in RequestRecord
BY DEF Nothing, RequestRecord

\* The record with which the role calls begin.
LEMMA SyncIs ==
    ASSUME NEW r \in RequestRecord, NEW a \in Accounts, NEW rank,
           NEW then \in {"rank", "callback", "answer", "delete"}
    PROVE  LET s == SyncTo(r, a, rank, then) IN
           /\ s \in RequestRecord
           /\ s.member = r.member /\ s.who = r.who /\ s.target = a /\ s.then = then
           /\ s.wanted \in Roles => s.wanted = rank
<1> DEFINE w == IF rank \in Roles THEN rank ELSE None
           s == [r EXCEPT !.target = a, !.wanted = w, !.left = Roles, !.then = then]
<1>1. w \in Roles \cup {None} /\ (w \in Roles => w = rank)
  BY DiscordAssumption
<1>2. SyncTo(r, a, rank, then) = s
  BY DEF SyncTo
<1> HIDE DEF w
<1>3. s \in RequestRecord
  BY <1>1 DEF RequestRecord
<1>4. s.member = r.member /\ s.who = r.who /\ s.target = a /\ s.then = then /\ s.wanted = w
  BY DEF RequestRecord
<1>5. QED BY <1>1, <1>2, <1>3, <1>4

\* Ways for a request to go on.
Goes(q, at, r) == Step(q, at) /\ Set(q, r)

\* Where a request goes, what it knows then, and what it leaves alone.
LEMMA OwnGoes ==
    ASSUME TypeOK, RequestsSound, NEW q \in Requests, Own(q)
    PROVE  \E at \in Places, r \in RequestRecord : Goes(q, at, r)
<1>0. /\ pc \in [Requests -> Places] /\ req \in [Requests -> RequestRecord]
      /\ req[q] \in RequestRecord /\ Nothing \in RequestRecord
      /\ link \in [Members -> Accounts \cup {None}]
  BY NothingIsTyped DEF TypeOK, Places
<1>1. ASSUME NEW m \in Members, NEW then \in {"answer", "delete"}, NEW a \in Accounts
      PROVE  SyncTo([Nothing EXCEPT !.member = m], a, None, then) \in RequestRecord
  <2>1. [Nothing EXCEPT !.member = m] \in RequestRecord
    BY DEF Nothing, RequestRecord
  <2>2. QED BY <2>1, SyncIs
<1>2. ASSUME NEW m \in Members PROVE [Nothing EXCEPT !.member = m] \in RequestRecord
  BY DEF Nothing, RequestRecord
<1>3. ASSUME NEW m \in Members, DiscordUnlink(q, m)
      PROVE  \E at \in Places, r \in RequestRecord : Goes(q, at, r)
  <2>1. link[m] \in Accounts
    BY <1>0, <1>3 DEF DiscordUnlink
  <2>2. SyncTo([Nothing EXCEPT !.member = m], link[m], None, "answer") \in RequestRecord
    BY <1>1, <2>1
  <2>3. QED BY <1>3, <2>2 DEF DiscordUnlink, Goes, Places
<1>4. ASSUME NEW m \in Members, DeleteUser(q, m)
      PROVE  \E at \in Places, r \in RequestRecord : Goes(q, at, r)
  <2>1. CASE link[m] = None
    BY <1>2, <1>4, <2>1 DEF DeleteUser, Goes, Places
  <2>2. CASE link[m] # None
    <3>1. SyncTo([Nothing EXCEPT !.member = m], link[m], None, "delete") \in RequestRecord
      BY <1>0, <1>1, <2>2
    <3>2. QED BY <1>4, <2>2, <3>1 DEF DeleteUser, Goes, Places
  <2>3. QED BY <2>1, <2>2
<1>5. ASSUME NEW m \in Members, Earn(q, m)
      PROVE  \E at \in Places, r \in RequestRecord : Goes(q, at, r)
  BY <1>2, <1>5 DEF Earn, Goes, Places
<1>6. CASE Answer(q)
  BY <1>0, <1>6 DEF Answer, Goes, Places
<1>7. ASSUME NEW m \in Members, NEW s \in States, Callback(q, s, m)
      PROVE  \E at \in Places, r \in RequestRecord : Goes(q, at, r)
  <2>1. CASE Answer(q)
    BY <1>6, <2>1
  <2>2. ASSUME NEW a \in Accounts,
               Set(q, [Nothing EXCEPT !.member = m, !.who = a, !.then = "callback"]),
               Step(q, "previous")
        PROVE  \E at \in Places, r \in RequestRecord : Goes(q, at, r)
    <3>1. [Nothing EXCEPT !.member = m, !.who = a, !.then = "callback"] \in RequestRecord
      BY DEF Nothing, RequestRecord
    <3>2. QED BY <2>2, <3>1 DEF Goes, Places
  <2>3. QED BY <1>7, <2>1, <2>2 DEF Callback, CallbackAnswer
<1>8. CASE Previous(q)
  <2> DEFINE r == [req[q] EXCEPT !.previous = link[req[q].member]]
  <2>1. link[req[q].member] \in Accounts \cup {None}
    BY <1>0, <1>8 DEF Previous, RequestsSound, RequestSound
  <2>2. r \in RequestRecord
    BY <1>0, <2>1 DEF RequestRecord
  <2>3. Set(q, r) /\ Step(q, "upsert")
    BY <1>8 DEF Previous
  <2> HIDE DEF r
  <2>4. QED BY <2>2, <2>3 DEF Goes, Places
<1>9. CASE req' = req /\ \E at \in Places : Step(q, at)
  <2>1. Set(q, req[q])
    BY <1>0, <1>9 DEF Set
  <2>2. QED BY <1>0, <1>9, <2>1 DEF Goes
<1>10. CASE Upsert(q)
  <2>1. CASE Answer(q)
    BY <1>6, <2>1
  <2>2. CASE Step(q, "rank") /\ UNCHANGED req
    BY <1>9, <2>2 DEF Places
  <2>3. CASE /\ req[q].previous \notin {None, req[q].who} /\ Step(q, "calls")
             /\ Set(q, SyncTo(req[q], req[q].previous, None, "rank"))
    <3>1. req[q].previous \in Accounts
      BY <1>0, <2>3 DEF RequestRecord
    <3>2. SyncTo(req[q], req[q].previous, None, "rank") \in RequestRecord
      BY <1>0, <3>1, SyncIs
    <3>3. QED BY <2>3, <3>2 DEF Goes, Places
  <2>4. QED BY <1>10, <2>1, <2>2, <2>3 DEF Upsert, CallbackAnswer
<1>11. CASE ReadRank(q)
  <2>1. req[q].who \in Accounts /\ req[q].then \in {"rank", "callback", "answer", "delete"}
    BY <1>0, <1>11 DEF ReadRank, RequestsSound, RequestSound, RequestRecord
  <2>2. SyncTo(req[q], req[q].who, RankOf(req[q].member), req[q].then) \in RequestRecord
    BY <1>0, <2>1, SyncIs
  <2>3. QED BY <1>11, <2>2 DEF ReadRank, Goes, Places
<1>12. CASE RoleCall(q)
  <2>1. ASSUME NEW left \in SUBSET Roles PROVE [req[q] EXCEPT !.left = left] \in RequestRecord
    BY <1>0 DEF RequestRecord
  <2>2. req[q].left \in SUBSET Roles
    BY <1>0 DEF RequestRecord
  <2>3. \E left \in SUBSET Roles : Set(q, [req[q] EXCEPT !.left = left])
    BY <1>0, <1>12, <2>2 DEF RoleCall
  <2>4. PICK left \in SUBSET Roles : Set(q, [req[q] EXCEPT !.left = left])
    BY <2>3
  <2>5. Step(q, "calls")
    BY <1>0, <1>12 DEF RoleCall, Step
  <2>6. QED BY <2>1, <2>4, <2>5 DEF Goes, Places
<1>13. CASE CallsDone(q)
  <2>1. [req[q] EXCEPT !.then = "callback"] \in RequestRecord
    BY <1>0 DEF RequestRecord
  <2>2. \/ Step(q, "rank") /\ Set(q, [req[q] EXCEPT !.then = "callback"])
        \/ Step(q, "delete") /\ UNCHANGED req
        \/ Answer(q)
    BY <1>13 DEF CallsDone, CallbackAnswer
  <2>3. QED BY <1>6, <1>9, <2>1, <2>2 DEF Goes, Places
<1>14. CASE Lookup(q)
  <2> DEFINE m == req[q].member
  <2>1. CASE Answer(q)
    BY <1>6, <2>1
  <2>2. CASE link[m] # None /\ Set(q, [req[q] EXCEPT !.who = link[m]]) /\ Step(q, "rank")
    <3>1. link[m] \in Accounts
      BY <1>0, <1>14, <2>2 DEF Lookup, RequestsSound, RequestSound
    <3>2. [req[q] EXCEPT !.who = link[m]] \in RequestRecord
      BY <1>0, <3>1 DEF RequestRecord
    <3>3. QED BY <2>2, <3>2 DEF Goes, Places
  <2>3. QED BY <1>14, <2>1, <2>2 DEF Lookup
<1>15. CASE Delete(q) \/ Crash(q)
  BY <1>6, <1>15 DEF Delete, Crash
<1>16. QED
  BY <1>3, <1>4, <1>5, <1>7, <1>8, <1>10, <1>11, <1>12, <1>13, <1>14, <1>15 DEF Own, Serve

LEMMA OthersKept ==
    ASSUME TypeOK, RequestsSound, NEW q \in Requests, Own(q)
    PROVE  /\ \A p \in Requests \ {q} : pc'[p] = pc[p] /\ req'[p] = req[p]
           /\ pc' \in [Requests -> Places] /\ req' \in [Requests -> RequestRecord]
<1>1. pc \in [Requests -> Places] /\ req \in [Requests -> RequestRecord]
  BY DEF TypeOK, Places
<1>2. QED BY <1>1, OwnGoes DEF Goes, Step, Set

-----------------------------------------------------------------------------
(* The tables *)

\* Storing a link, and removing one.
Stores(q) ==
    /\ ~Refused(q) /\ pc[q] = "upsert"
    /\ link' = [link EXCEPT ![req[q].member] = req[q].who]
    /\ linked' = linked \cup {<<req[q].member, req[q].who>>}
    /\ UNCHANGED <<ranked, gone>>

Removes(m) == link' = [link EXCEPT ![m] = None] /\ linked' = linked

\* A request stores a link, removes one, adds a rank, deletes an account, or leaves the
\* tables alone.
LEMMA TablesMove ==
    ASSUME TypeOK, RequestsSound, NEW q \in Requests, Own(q)
    PROVE  \/ Stores(q)
           \/ \E m \in Members : Removes(m) /\ UNCHANGED <<ranked, gone>>
           \/ \E m \in Members \ gone : ranked' = ranked \cup {m} /\ UNCHANGED <<link, gone, linked>>
           \/ \E m \in Members : /\ Removes(m) /\ gone' = gone \cup {m} /\ ranked' = ranked \ {m}
           \/ UNCHANGED tables
<1>1. CASE \E m \in Members : DiscordUnlink(q, m)
  BY <1>1 DEF DiscordUnlink, Removes
<1>2. CASE \E m \in Members : Earn(q, m)
  BY <1>2 DEF Earn
<1>3. CASE (\E m \in Members : DeleteUser(q, m) \/ \E s \in States : Callback(q, s, m)) \/ Previous(q)
             \/ ReadRank(q) \/ RoleCall(q) \/ CallsDone(q) \/ Lookup(q) \/ Crash(q)
  BY <1>3 DEF DeleteUser, Callback, Previous, ReadRank, RoleCall, CallsDone, Lookup, Crash
<1>4. CASE Upsert(q)
  BY <1>4 DEF Upsert, Stores
<1>5. CASE Delete(q)
  <2>1. req[q].member \in Members
    BY <1>5 DEF Delete, RequestsSound, RequestSound
  <2>2. QED BY <1>5, <2>1 DEF Delete, Removes
<1>6. QED BY <1>1, <1>2, <1>3, <1>4, <1>5 DEF Own, Serve

\* What was earned stays earned.
LEMMA EarnedStays ==
    ASSUME TypeOK, RequestsSound, NEW q \in Requests, Own(q)
    PROVE  linked \subseteq linked' /\ Earned \subseteq Earned'
<1>1. linked \subseteq linked' /\ ranked \cup gone \subseteq ranked' \cup gone'
  BY TablesMove DEF Stores, Removes, tables
<1>2. QED BY <1>1 DEF Earned

LEMMA TablesKept ==
    ASSUME TypeOK, RequestsSound, LinksKept, NEW q \in Requests, Own(q)
    PROVE  /\ link' \in [Members -> Accounts \cup {None}]
           /\ ranked' \subseteq Members /\ gone' \subseteq Members
           /\ linked' \subseteq Members \X Accounts
           /\ \A m, n \in Members : link'[m] # None /\ link'[m] = link'[n] => m = n
           /\ \A m \in gone' : link'[m] = None /\ m \notin ranked'
           /\ LinksKept'
<1>0. /\ link \in [Members -> Accounts \cup {None}]
      /\ ranked \subseteq Members /\ gone \subseteq Members
      /\ linked \subseteq Members \X Accounts
      /\ \A m, n \in Members : link[m] # None /\ link[m] = link[n] => m = n
      /\ \A m \in gone : link[m] = None /\ m \notin ranked
      /\ \A m \in Members : link[m] # None => <<m, link[m]>> \in linked
  BY DEF TypeOK, LinksKept
<1>1. CASE Stores(q)
  <2>1. /\ req[q].member \in Members /\ req[q].who \in Accounts /\ req[q].member \notin gone
        /\ \A m \in Members \ {req[q].member} : link[m] # req[q].who
    BY <1>1 DEF Stores, Refused, Taken, RequestsSound, RequestSound
  <2>2. QED BY <1>0, <1>1, <2>1 DEF Stores, LinksKept
<1>2. CASE \E m \in Members : Removes(m) /\ UNCHANGED <<ranked, gone>>
  BY <1>0, <1>2 DEF Removes, LinksKept
<1>3. CASE \E m \in Members \ gone : ranked' = ranked \cup {m} /\ UNCHANGED <<link, gone, linked>>
  BY <1>0, <1>3 DEF LinksKept
<1>4. CASE \E m \in Members : Removes(m) /\ gone' = gone \cup {m} /\ ranked' = ranked \ {m}
  BY <1>0, <1>4 DEF Removes, LinksKept
<1>5. CASE UNCHANGED tables
  BY <1>0, <1>5 DEF tables, LinksKept
<1>6. QED BY <1>1, <1>2, <1>3, <1>4, <1>5, TablesMove

\* What a request does to the browser, to Discord and to Agent Zero.
LEMMA ServerKept ==
    ASSUME TypeOK, RequestsSound, RolesEarned, ListSound, NEW q \in Requests, Own(q)
    PROVE  /\ cookie' \in [state : States, owner : Members] \cup {None}
           /\ flows' = flows /\ used' \subseteq DOMAIN flows
           /\ holds' \in [Accounts -> SUBSET Roles] /\ inServer' = inServer /\ list' = list
           /\ RolesEarned' /\ ListSound'
<1>0. /\ cookie \in [state : States, owner : Members] \cup {None}
      /\ used \subseteq DOMAIN flows /\ holds \in [Accounts -> SUBSET Roles]
  BY DEF TypeOK
<1>1. CASE RoleCall(q)
  <2> DEFINE r == req[q]
  <2>1. /\ r.target \in Accounts /\ (r.wanted \in Roles => r.target \in Earned) /\ r.left \subseteq Roles
    BY <1>1 DEF RoleCall, RequestsSound, RequestSound, TypeOK, RequestRecord
  <2>2. PICK role \in NextRoles(r) :
          holds' = holds \/ holds' = [holds EXCEPT ![r.target] = AfterCall(r, role, @)]
    BY <1>1 DEF RoleCall
  <2>3. role \in Roles
    BY <2>1 DEF NextRoles
  <2>4. ASSUME NEW a \in Accounts
        PROVE  holds'[a] \subseteq Roles /\ (holds'[a] # {} => a \in Earned)
    <3>1. holds[a] \subseteq Roles /\ (holds[a] # {} => a \in Earned)
      BY <1>0 DEF RolesEarned
    <3>2. CASE holds'[a] = holds[a]
      BY <3>1, <3>2
    <3>3. CASE a = r.target /\ holds'[a] = AfterCall(r, role, holds[a])
      BY <2>1, <2>3, <3>1, <3>3 DEF AfterCall
    <3>4. QED BY <1>0, <2>1, <2>2, <3>2, <3>3
  <2>5. holds' \in [Accounts -> SUBSET Roles]
    <3>1. \E f \in [Accounts -> SUBSET Roles] : holds' = f
      <4>1. CASE holds' = holds
        BY <1>0, <4>1
      <4>2. CASE holds' = [holds EXCEPT ![r.target] = AfterCall(r, role, @)]
        <5>1. AfterCall(r, role, holds[r.target]) \in SUBSET Roles
          BY <1>0, <2>1, <2>3 DEF AfterCall
        <5>2. QED BY <1>0, <2>1, <4>2, <5>1
      <4>3. QED BY <2>2, <4>1, <4>2
    <3>2. QED BY <3>1
  <2>6. UNCHANGED <<browser, used, tables, inServer, list>>
    BY <1>1 DEF RoleCall
  <2>7. QED BY <1>0, <2>4, <2>5, <2>6, EarnedStays DEF RolesEarned, ListSound, browser
<1>2. ASSUME UNCHANGED <<holds, inServer, list>> PROVE RolesEarned' /\ ListSound'
  BY <1>2, EarnedStays DEF RolesEarned, ListSound
<1>3. CASE (\E m \in Members : DiscordUnlink(q, m) \/ DeleteUser(q, m) \/ Earn(q, m)) \/ Previous(q)
             \/ ReadRank(q) \/ Lookup(q) \/ Delete(q) \/ Crash(q)
  <2>1. UNCHANGED <<browser, used, server, list>>
    BY <1>3 DEF DiscordUnlink, DeleteUser, Earn, Previous, ReadRank, Lookup, Delete, Crash
  <2>2. QED BY <1>0, <1>2, <2>1 DEF browser, server
<1>4. CASE (\E m \in Members, s \in States : Callback(q, s, m)) \/ Upsert(q) \/ CallsDone(q)
  <2>1. /\ UNCHANGED <<flows, server, list>> /\ cookie' \in {cookie, None}
        /\ used' = used \/ \E s \in DOMAIN flows : used' = used \cup {s}
    BY <1>4 DEF Callback, Upsert, CallsDone, CallbackAnswer, browser
  <2>2. QED BY <1>0, <1>2, <2>1 DEF server
<1>5. QED BY <1>1, <1>3, <1>4 DEF Own, Serve

-----------------------------------------------------------------------------
(* What requests know *)

\* What a request knows after a step of its own.
LEMMA RequestGoesOn ==
    ASSUME TypeOK, RequestsSound, LinksKept, NEW q \in Requests, Own(q)
    PROVE  RequestSound(q)'
<1>0. /\ pc \in [Requests -> Places] /\ req \in [Requests -> RequestRecord]
      /\ req[q] \in RequestRecord /\ RequestSound(q) /\ None \notin Roles
      /\ link \in [Members -> Accounts \cup {None}]
  BY DiscordAssumption DEF TypeOK, Places, RequestsSound
<1>2. ASSUME NEW at \in Places, NEW r \in RequestRecord, Goes(q, at, r)
      PROVE  pc'[q] = at /\ req'[q] = r
  BY <1>0, <1>2 DEF Goes, Step, Set
<1>3. CASE Answer(q)
  <2>1. pc'[q] = "idle"
    BY <1>0, <1>3 DEF Answer, Step
  <2>2. QED BY <2>1 DEF RequestSound
<1>4. ASSUME NEW r \in RequestRecord, r.member \in Members, NEW a \in Accounts, NEW rank,
             NEW then \in {"rank", "callback", "answer", "delete"},
             Step(q, "calls"), Set(q, SyncTo(r, a, rank, then)),
             then = "rank" => r.who \in Accounts /\ <<r.member, r.who>> \in linked',
             rank \in Roles => a \in Earned'
      PROVE  RequestSound(q)'
  <2>1. SyncTo(r, a, rank, then) \in RequestRecord /\ "calls" \in Places
    BY SyncIs DEF Places
  <2>2. pc'[q] = "calls" /\ req'[q] = SyncTo(r, a, rank, then)
    BY <1>2, <1>4, <2>1 DEF Goes
  <2>3. /\ req'[q].member = r.member /\ req'[q].who = r.who /\ req'[q].target = a
        /\ req'[q].then = then /\ (req'[q].wanted \in Roles => req'[q].wanted = rank)
    BY <2>2, SyncIs
  <2>4. req'[q].wanted \in Roles => req'[q].target \in Earned'
    BY <1>4, <2>3 DEF Earned
  <2>5. QED BY <1>4, <2>2, <2>3, <2>4 DEF RequestSound, Earned
<1>5. ASSUME NEW m \in Members
      PROVE  LET r == [Nothing EXCEPT !.member = m] IN r \in RequestRecord /\ r.member = m
  BY DEF Nothing, RequestRecord
<1>6. ASSUME NEW m \in Members, DiscordUnlink(q, m) PROVE RequestSound(q)'
  <2>1. link[m] \in Accounts
    BY <1>0, <1>6 DEF DiscordUnlink
  <2>2. Step(q, "calls") /\ Set(q, SyncTo([Nothing EXCEPT !.member = m], link[m], None, "answer"))
    BY <1>6 DEF DiscordUnlink
  <2>3. QED BY <1>0, <1>4, <1>5, <2>1, <2>2
<1>7. ASSUME NEW m \in Members, Step(q, "delete") \/ Step(q, "lookup"),
             Set(q, [Nothing EXCEPT !.member = m])
      PROVE  RequestSound(q)'
  <2>1. pc'[q] \in {"delete", "lookup"} /\ req'[q].member = m
    BY <1>0, <1>5, <1>7 DEF Step, Set
  <2>2. QED BY <2>1 DEF RequestSound
<1>8. ASSUME NEW m \in Members, DeleteUser(q, m) PROVE RequestSound(q)'
  <2>1. CASE link[m] = None
    BY <1>7, <1>8, <2>1 DEF DeleteUser
  <2>2. CASE link[m] # None
    <3>1. Step(q, "calls") /\ Set(q, SyncTo([Nothing EXCEPT !.member = m], link[m], None, "delete"))
      BY <1>8, <2>2 DEF DeleteUser
    <3>2. link[m] \in Accounts
      BY <1>0, <2>2
    <3>3. QED BY <1>0, <1>4, <1>5, <3>1, <3>2
  <2>3. QED BY <2>1, <2>2
<1>9. ASSUME NEW m \in Members, Earn(q, m) PROVE RequestSound(q)'
  BY <1>7, <1>9 DEF Earn
<1>10. ASSUME NEW m \in Members, NEW s \in States, Callback(q, s, m) PROVE RequestSound(q)'
  <2>1. CASE Answer(q)
    BY <1>3, <2>1
  <2>2. ASSUME NEW a \in Accounts, Step(q, "previous"),
               Set(q, [Nothing EXCEPT !.member = m, !.who = a, !.then = "callback"])
        PROVE  RequestSound(q)'
    <3> DEFINE r == [Nothing EXCEPT !.member = m, !.who = a, !.then = "callback"]
    <3>1. r.member = m /\ r.who = a
      BY DEF Nothing
    <3>2. pc'[q] = "previous" /\ req'[q] = r
      BY <1>0, <2>2 DEF Step, Set
    <3> HIDE DEF r
    <3>3. QED BY <3>1, <3>2 DEF RequestSound
  <2>3. QED BY <1>10, <2>1, <2>2 DEF Callback, CallbackAnswer
<1>11. CASE Previous(q)
  <2>1. /\ pc[q] = "previous" /\ pc'[q] = "upsert"
        /\ req'[q].member = req[q].member /\ req'[q].who = req[q].who
    BY <1>0, <1>11 DEF Previous, Step, Set, RequestRecord
  <2>2. QED BY <1>0, <2>1 DEF RequestSound
<1>12. CASE Upsert(q)
  <2>0. pc[q] = "upsert" /\ req[q].member \in Members /\ req[q].who \in Accounts
    BY <1>0, <1>12 DEF Upsert, RequestSound
  <2>1. CASE Refused(q)
    BY <1>3, <1>12, <2>1 DEF Upsert, CallbackAnswer
  <2>2. CASE ~Refused(q)
    <3>1. <<req[q].member, req[q].who>> \in linked'
      BY <1>12, <2>2 DEF Upsert
    <3>2. CASE Step(q, "rank") /\ UNCHANGED req
      <4>1. pc'[q] = "rank" /\ req'[q] = req[q]
        BY <1>0, <3>2 DEF Step
      <4>2. QED BY <2>0, <3>1, <4>1 DEF RequestSound
    <3>3. CASE /\ req[q].previous \notin {None, req[q].who} /\ Step(q, "calls")
               /\ Set(q, SyncTo(req[q], req[q].previous, None, "rank"))
      <4>1. req[q].previous \in Accounts
        BY <1>0, <3>3 DEF RequestRecord
      <4>2. QED BY <1>0, <1>4, <2>0, <3>1, <3>3, <4>1
    <3>4. QED BY <1>12, <2>2, <3>2, <3>3 DEF Upsert
  <2>3. QED BY <2>1, <2>2
<1>13. CASE ReadRank(q)
  <2>1. /\ req[q].member \in Members /\ req[q].who \in Accounts
        /\ <<req[q].member, req[q].who>> \in linked
        /\ req[q].then \in {"rank", "callback", "answer", "delete"} /\ linked' = linked /\ ranked' = ranked
        /\ Step(q, "calls") /\ Set(q, SyncTo(req[q], req[q].who, RankOf(req[q].member), req[q].then))
    BY <1>0, <1>13 DEF ReadRank, RequestSound, RequestRecord, tables
  <2>2. RankOf(req[q].member) \in Roles => req[q].who \in Earned'
    BY <1>0, <2>1 DEF RankOf, Earned
  <2>3. QED BY <1>0, <1>4, <2>1, <2>2
<1>14. CASE RoleCall(q)
  <2>1. pc[q] = "calls" /\ pc'[q] = "calls"
    BY <1>14 DEF RoleCall
  <2>2. PICK left : Set(q, [req[q] EXCEPT !.left = left])
    BY <1>14 DEF RoleCall
  <2>3. /\ req'[q].member = req[q].member /\ req'[q].who = req[q].who
        /\ req'[q].target = req[q].target /\ req'[q].then = req[q].then
        /\ req'[q].wanted = req[q].wanted
    BY <1>0, <2>2 DEF Set, RequestRecord
  <2>4. linked \subseteq linked' /\ Earned \subseteq Earned'
    BY EarnedStays
  <2>5. QED BY <1>0, <2>1, <2>3, <2>4 DEF RequestSound
<1>15. CASE CallsDone(q)
  <2>0. pc[q] = "calls" /\ linked' = linked
    BY <1>15 DEF CallsDone, tables
  <2>1. \/ req[q].then = "rank" /\ Step(q, "rank") /\ Set(q, [req[q] EXCEPT !.then = "callback"])
        \/ Step(q, "delete") /\ UNCHANGED req
        \/ Answer(q)
    BY <1>15 DEF CallsDone, CallbackAnswer
  <2>2. CASE req[q].then = "rank" /\ Step(q, "rank") /\ Set(q, [req[q] EXCEPT !.then = "callback"])
    <3>1. pc'[q] = "rank" /\ req'[q].member = req[q].member /\ req'[q].who = req[q].who
      BY <1>0, <2>2 DEF Step, Set, RequestRecord
    <3>2. QED BY <1>0, <2>0, <2>2, <3>1 DEF RequestSound
  <2>3. CASE Step(q, "delete") /\ UNCHANGED req
    <3>1. pc'[q] = "delete" /\ req'[q] = req[q]
      BY <1>0, <2>3 DEF Step
    <3>2. QED BY <1>0, <2>0, <3>1 DEF RequestSound
  <2>4. QED BY <1>3, <2>1, <2>2, <2>3
<1>16. CASE Lookup(q)
  <2> DEFINE m == req[q].member
  <2>1. CASE link[m] = None
    BY <1>3, <1>16, <2>1 DEF Lookup
  <2>2. CASE link[m] # None
    <3>1. m \in Members /\ link[m] \in Accounts /\ <<m, link[m]>> \in linked /\ linked' = linked
      BY <1>0, <1>16, <2>2 DEF Lookup, RequestSound, LinksKept, tables
    <3>2. Set(q, [req[q] EXCEPT !.who = link[m]]) /\ Step(q, "rank")
      BY <1>16, <2>2 DEF Lookup
    <3>3. pc'[q] = "rank" /\ req'[q].member = m /\ req'[q].who = link[m]
      BY <1>0, <3>2 DEF Step, Set, RequestRecord
    <3>4. QED BY <3>1, <3>3 DEF RequestSound
  <2>3. QED BY <2>1, <2>2
<1>17. QED
  BY <1>3, <1>6, <1>8, <1>9, <1>10, <1>11, <1>12, <1>13, <1>14, <1>15, <1>16
  DEF Own, Serve, Delete, Crash

LEMMA RequestsKept ==
    ASSUME TypeOK, RequestsSound, LinksKept, NEW q \in Requests, Own(q)
    PROVE  RequestsSound'
<1>1. ASSUME NEW p \in Requests \ {q} PROVE RequestSound(p)'
  <2>1. pc'[p] = pc[p] /\ req'[p] = req[p] /\ RequestSound(p) /\ linked \subseteq linked'
    BY OthersKept, EarnedStays DEF RequestsSound
  <2>2. Earned \subseteq Earned'
    BY EarnedStays
  <2>3. QED BY <2>1, <2>2 DEF RequestSound
<1>2. QED BY <1>1, RequestGoesOn DEF RequestsSound

-----------------------------------------------------------------------------
(* The invariant *)

LEMMA OwnKeeps == ASSUME IInv, NEW q \in Requests, Own(q) PROVE IInv'
<1>0. TypeOK /\ RequestsSound /\ LinksKept /\ ListSound /\ RolesEarned
  BY DEF IInv
<1>1. TypeOK'
  BY <1>0, OthersKept, TablesKept, ServerKept DEF TypeOK, Places
<1>2. QED BY <1>0, <1>1, RequestsKept, TablesKept, ServerKept DEF IInv

LEMMA ElsewhereKeeps == ASSUME IInv, Elsewhere PROVE IInv'
<1>0. TypeOK /\ RequestsSound /\ LinksKept /\ ListSound /\ RolesEarned
  BY DEF IInv
<1>1. UNCHANGED <<tables, pc, req>>
  BY DEF Elsewhere, CallbackRefused, AgentZero, FetchRanks, ApplyRank, JoinServer, DiscordLink, vars
<1>2. RequestsSound' /\ LinksKept' /\ Earned' = Earned
  <2>1. UNCHANGED <<link, ranked, gone, linked, pc, req>>
    BY <1>1 DEF tables
  <2>2. Earned' = Earned
    BY <2>1 DEF Earned
  <2>3. LinksKept'
    BY <1>0, <2>1 DEF LinksKept
  <2>4. RequestsSound'
    BY <1>0, <2>1 DEF RequestsSound, RequestSound, Earned
  <2>5. QED BY <2>2, <2>3, <2>4
<1>3. /\ UNCHANGED <<link, ranked, gone, linked, pc, req>>
      /\ link \in [Members -> Accounts \cup {None}] /\ holds \in [Accounts -> SUBSET Roles]
  BY <1>0, <1>1 DEF tables, TypeOK
<1>4. ASSUME UNCHANGED <<holds, list, inServer>>,
             cookie' \in [state : States, owner : Members] \cup {None},
             flows' \in Seq(Members), Len(flows') <= MaxStarts, used' \subseteq DOMAIN flows'
      PROVE  IInv'
  <2>1. TypeOK'
    BY <1>0, <1>3, <1>4 DEF TypeOK
  <2>2. ListSound' /\ RolesEarned'
    BY <1>0, <1>2, <1>4 DEF ListSound, RolesEarned
  <2>3. QED BY <1>2, <2>1, <2>2 DEF IInv
<1>5. CASE CallbackRefused \/ UNCHANGED vars
  <2>1. UNCHANGED <<holds, list, inServer, flows, used>> /\ cookie' \in {cookie, None}
    BY <1>5 DEF CallbackRefused, vars, browser, server
  <2>2. QED BY <1>0, <1>4, <2>1 DEF TypeOK
<1>6. ASSUME NEW m \in Members, DiscordLink(m) PROVE IInv'
  <2>1. /\ flows \in Seq(Members) /\ Len(flows) < MaxStarts /\ used \subseteq 1..Len(flows)
        /\ flows' = Append(flows, m) /\ used' = used /\ UNCHANGED <<holds, list, inServer>>
        /\ cookie' = [state |-> Len(flows) + 1, owner |-> m]
    BY <1>0, <1>6 DEF DiscordLink, TypeOK, server
  <2>2. Len(flows) \in Nat /\ MaxStarts \in Nat
    BY <2>1, DiscordAssumption
  <2>3. Len(flows) + 1 \in States
    BY <2>1, <2>2 DEF States
  <2>4. flows' \in Seq(Members) /\ Len(flows') = Len(flows) + 1 /\ DOMAIN flows' = 1..Len(flows) + 1
    BY <2>1, <2>2
  <2>5. used' \subseteq DOMAIN flows'
    BY <2>1, <2>2, <2>4
  <2>6. QED BY <1>4, <2>1, <2>2, <2>3, <2>4, <2>5
<1>7. ASSUME UNCHANGED <<browser, used>>,
             holds' \in [Accounts -> SUBSET Roles], inServer' \subseteq Accounts,
             RolesEarned', ListSound',
             list' = None \/ list' \in [todo : SUBSET Accounts,
                                       ranks : SUBSET [account : Accounts, rank : Roles \cup {None}]]
      PROVE  IInv'
  <2>1. TypeOK'
    BY <1>0, <1>3, <1>7 DEF TypeOK, browser
  <2>2. QED BY <1>2, <1>7, <2>1 DEF IInv
<1>8. CASE FetchRanks
  <2>1. /\ list' = [todo |-> Accounts, ranks |-> LinkedRanks]
        /\ UNCHANGED <<browser, used, holds, inServer>>
    BY <1>8 DEF FetchRanks, server
  <2>2. ASSUME NEW e \in LinkedRanks
        PROVE  /\ e \in [account : Accounts, rank : Roles \cup {None}]
               /\ e.rank \in Roles => e.account \in Earned
    <3>1. PICK m \in Members : link[m] # None /\ e = [account |-> link[m], rank |-> RankOf(m)]
      BY DEF LinkedRanks
    <3>2. link[m] \in Accounts /\ <<m, link[m]>> \in linked
      BY <1>0, <1>3, <3>1 DEF LinksKept
    <3>3. RankOf(m) \in Roles => m \in ranked
      BY DiscordAssumption DEF RankOf
    <3>4. RankOf(m) \in Roles \cup {None}
      BY DiscordAssumption DEF RankOf
    <3>5. QED BY <3>1, <3>2, <3>3, <3>4 DEF Earned
  <2>3. QED
    <3>1. list'.ranks = LinkedRanks
      BY <2>1
    <3>2. ListSound'
      BY <1>2, <2>2, <3>1 DEF ListSound
    <3>3. RolesEarned'
      BY <1>0, <1>2, <2>1 DEF RolesEarned
    <3>4. LinkedRanks \subseteq [account : Accounts, rank : Roles \cup {None}]
      BY <2>2, DiscordAssumption
    <3>5. QED BY <1>0, <1>7, <2>1, <3>2, <3>3, <3>4 DEF TypeOK
<1>9. CASE ApplyRank
  <2>1. PICK a \in list.todo :
          LET entries == {e \in list.ranks : e.account = a}
              given == {e.rank : e \in entries} \cap Roles IN
          /\ holds' = [holds EXCEPT ![a] =
                 IF a \notin inServer THEN @ ELSE IF entries = {} THEN {} ELSE @ \cup given]
          /\ list' = IF list.todo = {a} THEN None ELSE [list EXCEPT !.todo = @ \ {a}]
    BY <1>9 DEF ApplyRank
  <2>2. /\ list # None /\ UNCHANGED <<browser, used, inServer>>
        /\ list \in [todo : SUBSET Accounts,
                    ranks : SUBSET [account : Accounts, rank : Roles \cup {None}]]
        /\ a \in Accounts
    BY <1>0, <1>9 DEF ApplyRank, TypeOK
  <2> DEFINE entries == {e \in list.ranks : e.account = a}
             given == {e.rank : e \in entries} \cap Roles
             now == IF a \notin inServer THEN holds[a] ELSE IF entries = {} THEN {} ELSE holds[a] \cup given
  <2>3. given \subseteq Roles /\ (given # {} => a \in Earned)
    BY <1>0, <2>2 DEF ListSound
  <2>4. holds' = [holds EXCEPT ![a] = now]
    BY <1>3, <2>1
  <2>5. now \in SUBSET Roles /\ (now # {} => a \in Earned)
    <3>1. holds[a] \in SUBSET Roles /\ (holds[a] # {} => a \in Earned)
      BY <1>0, <1>3, <2>2 DEF RolesEarned
    <3> HIDE DEF given, entries
    <3>2. QED BY <2>3, <3>1
  <2> HIDE DEF now, given, entries
  <2>6. holds' \in [Accounts -> SUBSET Roles] /\ RolesEarned'
    BY <1>0, <1>2, <1>3, <2>2, <2>4, <2>5 DEF RolesEarned
  <2>7. list' = None \/ (/\ list'.ranks = list.ranks
                        /\ list' \in [todo : SUBSET Accounts,
                              ranks : SUBSET [account : Accounts, rank : Roles \cup {None}]])
    BY <2>1, <2>2
  <2>8. ListSound'
    BY <1>0, <1>2, <2>2, <2>7 DEF ListSound
  <2>9. QED BY <1>0, <1>7, <2>2, <2>6, <2>7, <2>8 DEF TypeOK
<1>10. ASSUME NEW a \in Accounts, JoinServer(a) PROVE IInv'
  <2>1. /\ inServer' = inServer \cup {a} /\ UNCHANGED <<browser, used, list>>
        /\ holds' = [holds EXCEPT ![a] = {DiscordProfile(a)} \cap Roles]
    BY <1>10 DEF JoinServer
  <2>2. DiscordProfile(a) \in Roles => a \in Earned
    <3>1. CASE \E m \in Members : link[m] = a
      <4> DEFINE m == CHOOSE n \in Members : link[n] = a
      <4>1. m \in Members /\ link[m] = a
        BY <3>1
      <4>2. DiscordProfile(a) = RankOf(m)
        BY <3>1 DEF DiscordProfile
      <4> HIDE DEF m
      <4>3. a # None
        BY DiscordAssumption
      <4>4. RankOf(m) \in Roles => m \in ranked
        BY DiscordAssumption DEF RankOf
      <4>5. QED BY <1>0, <4>1, <4>2, <4>3, <4>4 DEF LinksKept, Earned
    <3>2. CASE ~\E m \in Members : link[m] = a
      BY <3>2, DiscordAssumption DEF DiscordProfile
    <3>3. QED BY <3>1, <3>2
  <2>3. holds' \in [Accounts -> SUBSET Roles] /\ RolesEarned'
    BY <1>0, <1>2, <1>3, <2>1, <2>2 DEF RolesEarned
  <2>4. ListSound'
    BY <1>0, <1>2, <2>1 DEF ListSound
  <2>5. QED BY <1>0, <1>7, <2>1, <2>3, <2>4 DEF TypeOK
<1>11. QED BY <1>5, <1>6, <1>8, <1>9, <1>10 DEF Elsewhere, AgentZero

LEMMA InitialInvariant == Init => IInv
<1> SUFFICES ASSUME Init PROVE IInv
  OBVIOUS
<1>1. MaxStarts \in Nat
  BY DiscordAssumption
<1>2. TypeOK
  <2>1. flows \in Seq(Members) /\ Len(flows) = 0 /\ flows = <<>>
    BY DEF Init
  <2>2. QED BY <1>1, <2>1, NothingIsTyped DEF Init, TypeOK
<1>3. RequestsSound /\ LinksKept /\ ListSound /\ RolesEarned
  BY DEF Init, RequestsSound, RequestSound, LinksKept, ListSound, RolesEarned
<1>4. QED BY <1>2, <1>3 DEF IInv

\* The invariant of links and roles: what a request or Agent Zero is about to give was earned.
THEOREM Invariance == Spec => []IInv
<1>1. Init => IInv
  BY InitialInvariant
<1>2. IInv /\ [Next]_vars => IInv'
  BY StepsAre, OwnKeeps, ElsewhereKeeps
<1>3. QED BY <1>1, <1>2, PTL DEF Spec

\* A Discord account is linked to one member at most, a deleted member keeps no link and no
\* rank, and no order of callbacks, role calls, unlinking, deletions and rounds of Agent Zero
\* gives the role of a rank to an account that was not linked to a member who earned it
\* (saveDiscordLink, syncDiscordRoles, createRoleRemoval, linkedRanks).
THEOREM RolesAreEarned == Spec => []LinksAndRoles
<1>1. IInv => LinksAndRoles
  <2>1. IInv => TypeOK /\ RolesEarned
    BY DEF IInv
  <2>2. RolesEarned => RoleWasEarned
    BY DEF RolesEarned, RoleWasEarned, Earned
  <2>3. QED BY <2>1, <2>2 DEF LinksAndRoles
<1>2. QED BY <1>1, Invariance, PTL

=============================================================================
