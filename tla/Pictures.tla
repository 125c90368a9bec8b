------------------------------- MODULE Pictures -------------------------------
(***************************************************************************)
(* The profile picture of one member: saveAvatar and removeAvatar of       *)
(* src/lib/avatars/avatars.ts, each a transaction of two statements over   *)
(* the tables avatars and users, and the account's deletion.  A picture is *)
(* named by the hash of its bytes, its version, and stands for it here.    *)
(***************************************************************************)
EXTENDS Integers

CONSTANTS
    Versions,   \* pictures, by their version
    Requests,   \* requests for /account/avatar and /account/avatar/remove
    Absent,     \* no picture, nobody
    MaxChanges  \* bound of the model: pictures saved and removed

ASSUME PicturesAssumption ==
    /\ Absent \notin Versions \cup Requests
    /\ MaxChanges \in Nat

VARIABLES
    member,   \* the account exists
    image,    \* avatars: the picture, as committed
    url,      \* users.avatar_url, as committed
    holder,   \* the transaction that has written the avatars row and not ended yet
    tx,       \* what the transaction of each request has still to do
    changes   \* pictures saved and removed so far

site == <<member, image, url, holder, tx, changes>>

NoTx == [kind |-> "none", version |-> Absent]

PicturesInit ==
    /\ member = TRUE
    /\ image = Absent /\ url = Absent
    /\ holder = Absent
    /\ tx = [q \in Requests |-> NoTx]
    /\ changes = 0

Begin(q, kind, v) ==
    /\ tx[q] = NoTx
    /\ member
    /\ changes < MaxChanges
    /\ changes' = changes + 1
    /\ tx' = [tx EXCEPT ![q] = [kind |-> kind, version |-> v]]

\* Slip: the row stays locked when its transaction ends.
SlipEnd(q) == tx' = [tx EXCEPT ![q] = NoTx] /\ UNCHANGED holder

\* Commit or not, the transaction is over and its row free.
End(q) ==
    /\ tx' = [tx EXCEPT ![q] = NoTx]
    /\ holder' = IF holder = q THEN Absent ELSE holder

\* The upsert into avatars waits for whoever holds the row.
SaveImage(q, v) ==
    /\ Begin(q, "save", v)
    /\ holder = Absent
    /\ holder' = q
    /\ UNCHANGED <<member, image, url>>

\* The version beside it, and the commit.
SaveVersion(q) ==
    /\ tx[q].kind = "save"
    /\ image' = tx[q].version
    /\ url' = tx[q].version
    /\ End(q)
    /\ UNCHANGED <<member, changes>>

\* The delete waits for whoever holds a row it can see; one that is being inserted it cannot.
RemoveImage(q) ==
    /\ Begin(q, "remove", Absent)
    /\ IF image = Absent THEN UNCHANGED holder ELSE holder = Absent /\ holder' = q
    /\ UNCHANGED <<member, image, url>>

\* Slip: the version beside the picture is left.
SlipClearedUrl == url

\* What removing leaves beside the account.
ClearedUrl == Absent

\* The version is cleared whether a picture was deleted or not.
RemoveVersion(q) ==
    /\ tx[q].kind = "remove"
    /\ image' = IF holder = q THEN Absent ELSE image
    /\ url' = ClearedUrl
    /\ End(q)
    /\ UNCHANGED <<member, changes>>

\* The connection is lost: the database undoes the transaction.
RollBack(q) ==
    /\ tx[q] # NoTx
    /\ End(q)
    /\ UNCHANGED <<member, image, url, changes>>

\* The account goes, and the picture with it.
DeleteAccount ==
    /\ member
    /\ holder = Absent
    /\ member' = FALSE
    /\ image' = Absent /\ url' = Absent
    /\ UNCHANGED <<holder, tx, changes>>

PicturesNext ==
    \/ DeleteAccount
    \/ \E q \in Requests :
         \/ \E v \in Versions : SaveImage(q, v)
         \/ SaveVersion(q) \/ RemoveImage(q) \/ RemoveVersion(q) \/ RollBack(q)

-----------------------------------------------------------------------------
(* Properties *)

\* Types; a row being written is held by a transaction that is under way, and the account
\* does not go from under it.
PicturesTypeOK ==
    /\ member \in BOOLEAN
    /\ image \in Versions \cup {Absent}
    /\ url \in Versions \cup {Absent}
    /\ holder \in Requests \cup {Absent}
    /\ tx \in [Requests -> [kind : {"none", "save", "remove"}, version : Versions \cup {Absent}]]
    /\ changes \in 0..MaxChanges
    /\ holder # Absent => member /\ tx[holder] # NoTx

\* The version beside an account is that of the picture stored for it: no order of saving and
\* removing leaves a version without its picture, or with another one.
VersionHasPicture == url # Absent => url = image
=============================================================================
