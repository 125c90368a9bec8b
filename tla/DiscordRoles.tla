----------------------------- MODULE DiscordRoles -----------------------------
(***************************************************************************)
(* Discord accounts linked to members and the rank roles that follow: the  *)
(* endpoints of src/lib/discord/discord-plugin.ts over the table           *)
(* discord_links, the role calls of role-sync.ts one by one, the rank sync *)
(* after a step was earned, the removal before an account is deleted, and  *)
(* the answers of internal-api.ts that Agent Zero, the Discord bot,        *)
(* repairs the roles from.                                                 *)
(*                                                                         *)
(* A request is a process; a step is one SQL statement or one call to      *)
(* Discord.  One browser, in which now one member and now another is       *)
(* signed in, goes through the OAuth2 flow.  Discord's servers and Agent   *)
(* Zero are the environment.                                               *)
(***************************************************************************)
EXTENDS Integers, Sequences

CONSTANTS
    Members,    \* accounts of the site
    Accounts,   \* Discord accounts
    Requests,   \* requests being handled
    None,       \* nothing
    Roles,      \* the rank keys of DISCORD_RANK_ROLE_IDS
    Bronze,     \* the only rank key today
    MaxStarts,  \* bound of the model: how often "Link Discord" is pressed
    MayFail     \* bound of the model: whether Discord and servers fail in it

States == 1..MaxStarts

ASSUME DiscordAssumption ==
    /\ None \notin Members \cup Accounts \cup States \cup Roles
    /\ Bronze \in Roles
    /\ MaxStarts \in Nat
    /\ MayFail \in BOOLEAN

VARIABLES
    cookie,     \* the signed cookie discord_state of the browser: the state and its owner
    flows,      \* the flows begun: the member each state was made for
    used,       \* the flows whose code was traded for a token
    link,       \* discord_links, by member
    ranked,     \* members whose rank_history holds Bronze
    gone,       \* members whose account has been deleted
    holds,      \* Discord: the rank roles of each account in the server
    inServer,   \* Discord: who is in the server
    pc,         \* where each request stands
    req,        \* what it knows
    list,       \* Agent Zero: what is left to apply of the list it fetched, or None
    linked      \* history: the links there ever were

browser == <<cookie, flows>>
tables == <<link, ranked, gone, linked>>
server == <<holds, inServer>>
vars == <<browser, used, tables, server, pc, req, list>>

\* A request: its member, the Discord account it has to do with, the one linked before,
\* the account whose roles are being set, the role wanted, the roles still to be called,
\* and what follows the calls.
RequestRecord ==
    [member : Members \cup {None}, who : Accounts \cup {None},
     previous : Accounts \cup {None}, target : Accounts \cup {None}, wanted : Roles \cup {None},
     left : SUBSET Roles, then : {"rank", "callback", "answer", "delete"}]

Nothing ==
    [member |-> None, who |-> None, previous |-> None, target |-> None,
     wanted |-> None, left |-> {}, then |-> "answer"]

Init ==
    /\ cookie = None
    /\ flows = <<>>
    /\ used = {}
    /\ link = [m \in Members |-> None]
    /\ ranked = {}
    /\ gone = {}
    /\ holds = [a \in Accounts |-> {}]
    /\ inServer \in SUBSET Accounts
    /\ pc = [q \in Requests |-> "idle"]
    /\ req = [q \in Requests |-> Nothing]
    /\ list = None
    /\ linked = {}

-----------------------------------------------------------------------------
(* Control *)

Step(q, at) == pc' = [pc EXCEPT ![q] = at]

Set(q, r) == req' = [req EXCEPT ![q] = r]

Answer(q) == Step(q, "idle") /\ Set(q, Nothing)

\* rankOf and rankKeyOf: the rank of a member.
RankOf(m) == IF m \in ranked THEN Bronze ELSE None

\* Slip: every linked account gets the first role, whatever the rank.
SlipSyncTo(r, a, rank, then) ==
    [r EXCEPT !.target = a, !.wanted = CHOOSE role \in Roles : TRUE, !.left = Roles, !.then = then]

\* syncDiscordRoles begins: a role for the rank, if one is configured, and none of the others.
SyncTo(r, a, rank, then) ==
    [r EXCEPT !.target = a, !.wanted = IF rank \in Roles THEN rank ELSE None,
              !.left = Roles, !.then = then]

-----------------------------------------------------------------------------
(* GET /discord/link *)

\* The state is kept in a signed cookie with the member it was made for.
DiscordLink(m) ==
    /\ m \notin gone
    /\ Len(flows) < MaxStarts
    /\ flows' = Append(flows, m)
    /\ cookie' = [state |-> Len(flows) + 1, owner |-> m]
    /\ UNCHANGED <<used, tables, server, pc, req, list>>

-----------------------------------------------------------------------------
(* GET /discord/callback *)

\* The state of the cookie, and m, the member it was made for, signed in.
Accepts(s, m) == cookie # None /\ cookie.state = s /\ cookie.owner = m

\* Cancelled, expired, not signed in: the cookie is cleared and nothing else happens.
CallbackRefused ==
    /\ cookie # None
    /\ cookie' = None
    /\ UNCHANGED <<flows, used, tables, server, pc, req, list>>

\* The answer of a callback clears the cookie, whichever the browser holds by now.
CallbackAnswer(q) ==
    /\ Answer(q)
    /\ cookie' = None
    /\ UNCHANGED flows

\* The browser comes back with the code of flow s while m is signed in.  The code is traded,
\* once, for the account that agreed on Discord's screen; or Discord fails.
Callback(q, s, m) ==
    /\ pc[q] = "idle"
    /\ s \in DOMAIN flows
    /\ m \notin gone
    /\ Accepts(s, m)
    /\ used' = used \cup {s}
    /\ \/ /\ s \notin used
          /\ \E a \in Accounts : Set(q, [Nothing EXCEPT !.member = m, !.who = a, !.then = "callback"])
          /\ Step(q, "previous")
          /\ UNCHANGED browser
       \/ (s \in used \/ MayFail) /\ CallbackAnswer(q)
    /\ UNCHANGED <<tables, server, list>>

\* saveDiscordLink reads what was linked before.
Previous(q) ==
    /\ pc[q] = "previous"
    /\ Set(q, [req[q] EXCEPT !.previous = link[req[q].member]])
    /\ Step(q, "upsert")
    /\ UNCHANGED <<browser, used, tables, server, list>>

\* The unique index: the Discord account is linked to somebody else.
Taken(q) == \E m \in Members \ {req[q].member} : link[m] = req[q].who

\* Slip: a link may be stored for an account that has been deleted.
SlipRefused(q) == Taken(q)

\* The database refuses the row: it is taken, or its member is gone.
Refused(q) == Taken(q) \/ req[q].member \in gone

\* The upsert; then come the roles of the account that was replaced, or the rank.
Upsert(q) ==
    LET r == req[q]
        m == r.member IN
    /\ pc[q] = "upsert"
    /\ \/ /\ Refused(q)
          /\ CallbackAnswer(q)
          /\ UNCHANGED tables
       \/ /\ ~Refused(q)
          /\ link' = [link EXCEPT ![m] = r.who]
          /\ linked' = linked \cup {<<m, r.who>>}
          /\ IF r.previous \in {None, r.who}
             THEN Step(q, "rank") /\ UNCHANGED req
             ELSE Step(q, "calls") /\ Set(q, SyncTo(r, r.previous, None, "rank"))
          /\ UNCHANGED <<ranked, gone, browser>>
    /\ UNCHANGED <<used, server, list>>

\* rankOf is read, and the roles of the account begin to follow it.
ReadRank(q) ==
    /\ pc[q] = "rank"
    /\ Set(q, SyncTo(req[q], req[q].who, RankOf(req[q].member), req[q].then))
    /\ Step(q, "calls")
    /\ UNCHANGED <<browser, used, tables, server, list>>

-----------------------------------------------------------------------------
(* The role calls of syncDiscordRoles *)

\* The role wanted is given before any other is taken.
NextRoles(r) == IF r.wanted \in r.left THEN {r.wanted} ELSE r.left

AfterCall(r, role, has) == IF role = r.wanted THEN has \cup {role} ELSE has \ {role}

\* One call.  Not in the server, rate limited, failed: the rest is not made.  A call that
\* timed out may have been carried out all the same.
RoleCall(q) ==
    LET r == req[q] IN
    /\ pc[q] = "calls"
    /\ \E role \in NextRoles(r) :
         \/ /\ r.target \in inServer
            /\ holds' = [holds EXCEPT ![r.target] = AfterCall(r, role, @)]
            /\ \/ Set(q, [r EXCEPT !.left = @ \ {role}])
               \/ MayFail /\ Set(q, [r EXCEPT !.left = {}])
         \/ /\ r.target \notin inServer \/ MayFail
            /\ Set(q, [r EXCEPT !.left = {}])
            /\ UNCHANGED holds
    /\ UNCHANGED <<browser, used, tables, inServer, pc, list>>

\* The calls are over: the callback goes on to its own account or answers, unlinking and
\* earning answer, and a deletion goes on.
CallsDone(q) ==
    /\ pc[q] = "calls"
    /\ req[q].left = {}
    /\ CASE req[q].then = "rank" ->
              Step(q, "rank") /\ Set(q, [req[q] EXCEPT !.then = "callback"]) /\ UNCHANGED browser
         [] req[q].then = "delete" -> Step(q, "delete") /\ UNCHANGED <<req, browser>>
         [] req[q].then = "callback" -> CallbackAnswer(q)
         [] OTHER -> Answer(q) /\ UNCHANGED browser
    /\ UNCHANGED <<used, tables, server, list>>

-----------------------------------------------------------------------------
(* POST /discord/unlink *)

\* The row goes, and the roles of the account it named.
DiscordUnlink(q, m) ==
    /\ pc[q] = "idle"
    /\ link[m] # None
    /\ link' = [link EXCEPT ![m] = None]
    /\ Set(q, SyncTo([Nothing EXCEPT !.member = m], link[m], None, "answer"))
    /\ Step(q, "calls")
    /\ UNCHANGED <<browser, used, ranked, gone, linked, server, list>>

-----------------------------------------------------------------------------
(* createRankSync, after the Academy has stored new steps *)

\* Both levels are finished: the rank is stored, and then synced.
Earn(q, m) ==
    /\ pc[q] = "idle"
    /\ m \notin gone \cup ranked
    /\ ranked' = ranked \cup {m}
    /\ Set(q, [Nothing EXCEPT !.member = m])
    /\ Step(q, "lookup")
    /\ UNCHANGED <<browser, used, link, gone, linked, server, list>>

\* getDiscordLink: nothing to do for a member without a link.
Lookup(q) ==
    LET m == req[q].member IN
    /\ pc[q] = "lookup"
    /\ IF link[m] = None THEN Answer(q)
       ELSE Set(q, [req[q] EXCEPT !.who = link[m]]) /\ Step(q, "rank")
    /\ UNCHANGED <<browser, used, tables, server, list>>

-----------------------------------------------------------------------------
(* createRoleRemoval, before an account is deleted *)

DeleteUser(q, m) ==
    /\ pc[q] = "idle"
    /\ m \notin gone
    /\ IF link[m] = None
       THEN Set(q, [Nothing EXCEPT !.member = m]) /\ Step(q, "delete")
       ELSE /\ Set(q, SyncTo([Nothing EXCEPT !.member = m], link[m], None, "delete"))
            /\ Step(q, "calls")
    /\ UNCHANGED <<browser, used, tables, server, list>>

\* The account goes with its link and its rank.
Delete(q) ==
    LET m == req[q].member IN
    /\ pc[q] = "delete"
    /\ gone' = gone \cup {m}
    /\ link' = [link EXCEPT ![m] = None]
    /\ ranked' = ranked \ {m}
    /\ Answer(q)
    /\ UNCHANGED <<browser, used, linked, server, list>>

-----------------------------------------------------------------------------
(* The internal API, and Agent Zero *)

\* Slip: a link that was removed is still listed.
SlipLinkedRanks == {[account |-> l[2], rank |-> RankOf(l[1])] : l \in linked}

\* GET /api/internal/discord/ranks: every linked account with its rank key.
LinkedRanks ==
    {[account |-> link[m], rank |-> RankOf(m)] : m \in {n \in Members : link[n] # None}}

\* GET /api/internal/discord/:discordId/profile: the rank key of one account, or none.
DiscordProfile(a) ==
    IF \E m \in Members : link[m] = a THEN RankOf(CHOOSE m \in Members : link[m] = a) ELSE None

\* On start and every five minutes.
FetchRanks ==
    /\ list = None
    /\ list' = [todo |-> Accounts, ranks |-> LinkedRanks]
    /\ UNCHANGED <<browser, used, tables, server, pc, req>>

\* A listed account is given the role of its rank and loses none; any other loses them all.
ApplyRank ==
    /\ list # None
    /\ \E a \in list.todo :
         /\ LET entries == {e \in list.ranks : e.account = a}
                given == {e.rank : e \in entries} \cap Roles
            IN holds' = [holds EXCEPT ![a] =
                 IF a \notin inServer THEN @ ELSE IF entries = {} THEN {} ELSE @ \cup given]
         /\ list' = IF list.todo = {a} THEN None ELSE [list EXCEPT !.todo = @ \ {a}]
    /\ UNCHANGED <<browser, used, tables, inServer, pc, req>>

\* Somebody joins the server and is asked about once: the role of their rank is given.
JoinServer(a) ==
    /\ a \notin inServer
    /\ inServer' = inServer \cup {a}
    /\ holds' = [holds EXCEPT ![a] = {DiscordProfile(a)} \cap Roles]
    /\ UNCHANGED <<browser, used, tables, pc, req, list>>

AgentZero == FetchRanks \/ ApplyRank

-----------------------------------------------------------------------------
(* The surroundings *)

\* The server handling q dies: what it has sent stays, the cookie too.
Crash(q) ==
    /\ MayFail
    /\ pc[q] # "idle"
    /\ Answer(q)
    /\ UNCHANGED <<browser, used, tables, server, list>>

Serve(q) ==
    \/ Previous(q) \/ Upsert(q) \/ ReadRank(q) \/ RoleCall(q) \/ CallsDone(q)
    \/ Lookup(q) \/ Delete(q)

Next ==
    \/ CallbackRefused \/ AgentZero
    \/ \E a \in Accounts : JoinServer(a)
    \/ \E m \in Members : DiscordLink(m)
    \/ \E q \in Requests :
         \/ \E m \in Members : \/ DiscordUnlink(q, m) \/ DeleteUser(q, m) \/ Earn(q, m)
                               \/ \E s \in States : Callback(q, s, m)
         \/ Serve(q) \/ Crash(q)

Spec == Init /\ [][Next]_vars

\* Requests are served to their end, and Agent Zero goes its rounds; nobody else has to act.
FairSpec == Spec /\ WF_vars(AgentZero) /\ \A q \in Requests : WF_vars(Serve(q))

-----------------------------------------------------------------------------
(* Properties *)

\* Types; a Discord account is linked to one member at most; the account of a deleted member
\* keeps no link and no rank, whatever was being done for it meanwhile.
TypeOK ==
    /\ cookie \in [state : States, owner : Members] \cup {None}
    /\ flows \in Seq(Members)
    /\ Len(flows) <= MaxStarts
    /\ used \subseteq DOMAIN flows
    /\ link \in [Members -> Accounts \cup {None}]
    /\ ranked \subseteq Members
    /\ gone \subseteq Members
    /\ holds \in [Accounts -> SUBSET Roles]
    /\ inServer \subseteq Accounts
    /\ pc \in [Requests -> {"idle", "previous", "upsert", "rank", "calls", "lookup",
                            "delete"}]
    /\ req \in [Requests -> RequestRecord]
    /\ list = None \/ list \in [todo : SUBSET Accounts, ranks : SUBSET
         [account : Accounts, rank : Roles \cup {None}]]
    /\ linked \subseteq Members \X Accounts
    /\ \A m, n \in Members : link[m] # None /\ link[m] = link[n] => m = n
    /\ \A m \in gone : link[m] = None /\ m \notin ranked

\* A rank role is held only by an account that was linked to a member, and one who had
\* earned the rank unless their account is gone since: no order of callbacks, role calls,
\* unlinking and rounds of Agent Zero gives it to anyone else.
RoleWasEarned ==
    \A a \in Accounts : Bronze \in holds[a] =>
        \E m \in ranked \cup gone : <<m, a>> \in linked

\* The links are well formed, and so are the roles that follow them.
LinksAndRoles == TypeOK /\ RoleWasEarned

\* In the server, a linked account of a rank holds its role and an account that is not
\* linked holds none.
RolesMatch ==
    \A a \in inServer :
        /\ \A m \in Members : link[m] = a => {RankOf(m)} \cap Roles \subseteq holds[a]
        /\ (\A m \in Members : link[m] # a) => holds[a] = {}

Quiet == \A q \in Requests : pc[q] = "idle"

\* Whatever failed, was late or crossed on the way, the roles end up matching the links and
\* the ranks once no more requests come: Agent Zero repairs what the site's calls missed.
RolesSettle == <>[]Quiet => <>[]RolesMatch
=============================================================================
