------------------------------- MODULE Backup -------------------------------
(***************************************************************************)
(* The owner's commands around the one database, while the site goes on    *)
(* writing: db:backup, which dumps every table in one snapshot, encrypts   *)
(* the dump into a file of chunks and reads it back; db:migrate, which     *)
(* wants a recent backup first; and the restore, into a database built     *)
(* from the migrations of the repository.                                  *)
(*                                                                         *)
(* Every table but the first holds at most one row per row of the first    *)
(* and refers to it, so the rows of a table are a set of keys.  Migration  *)
(* n brings the tables of Creates[n] and adds a column that may not be     *)
(* null to the tables of Widens[n].  A command may be killed at any point. *)
(***************************************************************************)
EXTENDS Naturals, Sequences, FiniteSets

CONSTANTS
    Tables,        \* the tables of the public schema
    Refs,          \* <<child, parent>>: the foreign keys
    Creates,       \* migration -> the tables it creates
    Widens,        \* migration -> the tables it adds a required column to
    Keys,          \* accounts
    Names,         \* file names: the second a backup was begun at
    Backups,       \* runs of db:backup
    None,
    MaxChanges     \* bound: changes the site makes

Migrations == DOMAIN Creates
Existing(n) == UNION {Creates[i] : i \in 1..n}
Parents(t) == {p \in Tables : <<t, p>> \in Refs}

\* What a query sees of the database; a dump; and a file, of which at most the header and
\* some chunks are on the disk.
Snapshots == [applied : Migrations, rows : [Tables -> SUBSET Keys]]
Dumps == [migrations : Migrations, tables : SUBSET Tables, rows : [Tables -> SUBSET Keys]]
Files == [this : BOOLEAN, recent : BOOLEAN, header : BOOLEAN,
          chunks : Seq([index : Nat, last : BOOLEAN]), dump : Dumps]

\* A table comes no earlier than those it refers to, and no circle of tables refer to each
\* other: PostgreSQL wants the one, restoreOrder the other.
ASSUME BackupAssumption ==
    /\ Refs \subseteq Tables \X Tables
    /\ Creates \in Seq(SUBSET Tables) /\ Creates # <<>>
    /\ DOMAIN Widens = Migrations
    /\ \A n \in Migrations : Widens[n] \subseteq Tables
    /\ \A n \in Migrations : \A t \in Creates[n] : Parents(t) \subseteq Existing(n)
    /\ \A S \in SUBSET Tables : S # {} => \E t \in S : Parents(t) \cap S \subseteq {t}
    /\ None \notin Names \cup Files

VARIABLES
    db,        \* the database: the migrations applied and the rows of every table
    repo,      \* the newest migration in the repository
    files,     \* file name -> the file
    run,       \* db:backup -> what it holds
    migrate,   \* db:migrate, while it waits for the confirmation: the backup it found
    restore,   \* the restore: where it is, its dump, its target, the tables left to fill
    changes,   \* bound
    verified,  \* history: the files reported "written and verified"
    spoilt     \* history: the files a killed command left or a disk damaged

vars == <<db, repo, files, run, migrate, restore, changes, verified, spoilt>>

NoRows == [t \in Tables |-> {}]
Closed(rows) == \A t \in Tables : \A p \in Parents(t) : rows[t] \subseteq rows[p]

Idle == [pc |-> "idle", this |-> TRUE, name |-> None, snapshot |-> None, unread |-> {},
         dump |-> None]

NoRestore == [pc |-> "idle", dump |-> None, target |-> None, left |-> {}, why |-> None]

Init ==
    /\ \E keys \in SUBSET Keys :
         db = [applied |-> 1, rows |-> [t \in Tables |-> IF t \in Existing(1) THEN keys ELSE {}]]
    /\ repo = 1
    /\ files = [f \in Names |-> None]
    /\ run = [b \in Backups |-> Idle]
    /\ migrate = None
    /\ restore = NoRestore
    /\ changes = 0
    /\ verified = {} /\ spoilt = {}

-----------------------------------------------------------------------------
(* The file *)

Chunk(i, last) == [index |-> i, last |-> last]
Whole == <<Chunk(0, FALSE), Chunk(1, TRUE)>>

\* Slip: a file that ends early is not noticed.
SlipDecrypts(f) ==
    f.header /\ \A i \in DOMAIN f.chunks : f.chunks[i].index = i - 1

\* A chunk is authenticated with the header, its place and its flags, and the last one
\* must come last.
Decrypts(f) ==
    /\ f.header /\ f.chunks # <<>>
    /\ \A i \in DOMAIN f.chunks :
         f.chunks[i].index = i - 1 /\ (f.chunks[i].last <=> i = Len(f.chunks))

-----------------------------------------------------------------------------
(* npm run db:backup *)

\* The transaction begins; the migrations and the tables are read in its snapshot.  The
\* settings may name another database, which is empty here.
Snapshot(b) ==
    /\ run[b].pc = "idle"
    /\ \E this \in BOOLEAN :
         LET seen == IF this THEN db ELSE [applied |-> 1, rows |-> NoRows] IN
         run' = [run EXCEPT ![b] = [Idle EXCEPT
           !.pc = "dump", !.this = this, !.snapshot = seen, !.unread = Existing(seen.applied),
           !.dump = [migrations |-> seen.applied, tables |-> Existing(seen.applied),
                     rows |-> NoRows]]]
    /\ UNCHANGED <<db, repo, files, migrate, restore, changes, verified, spoilt>>

\* Slip: every statement sees what is committed when it begins.
SlipRowsRead(b, t) == db.rows[t]

RowsRead(b, t) == run[b].snapshot.rows[t]

ReadTable(b) ==
    /\ run[b].pc = "dump"
    /\ \E t \in run[b].unread :
         run' = [run EXCEPT ![b].unread = @ \ {t}, ![b].dump.rows[t] = RowsRead(b, t)]
    /\ UNCHANGED <<db, repo, files, migrate, restore, changes, verified, spoilt>>

\* Slip: a file of the same name is written over.
SlipFree(f) == TRUE

Free(f) == files[f] = None

\* The file is created, or the command fails because one of that name is there.
OpenFile(b) ==
    /\ run[b].pc = "dump" /\ run[b].unread = {}
    /\ \E f \in Names :
         IF Free(f)
         THEN /\ files' = [files EXCEPT ![f] =
                    [this |-> run[b].this, recent |-> TRUE, header |-> FALSE, chunks |-> <<>>,
                     dump |-> run[b].dump]]
              /\ run' = [run EXCEPT ![b].pc = "write", ![b].name = f, ![b].snapshot = None]
         ELSE run' = [run EXCEPT ![b] = Idle] /\ UNCHANGED files
    /\ UNCHANGED <<db, repo, migrate, restore, changes, verified, spoilt>>

\* The next piece reaches the disk: the header, then one chunk after the other.
WritePiece(b) ==
    LET f == run[b].name IN
    /\ run[b].pc = "write"
    /\ IF ~files[f].header
       THEN files' = [files EXCEPT ![f].header = TRUE] /\ UNCHANGED run
       ELSE /\ files' = [files EXCEPT ![f].chunks = Append(@, Whole[Len(@) + 1])]
            /\ run' = IF Len(files[f].chunks) + 1 = Len(Whole)
                      THEN [run EXCEPT ![b].pc = "verify"] ELSE run
    /\ UNCHANGED <<db, repo, migrate, restore, changes, verified, spoilt>>

\* The file is read again; one that does not decrypt is reported, and stays.
Verify(b) ==
    LET f == run[b].name IN
    /\ run[b].pc = "verify"
    /\ verified' = IF Decrypts(files[f]) /\ files[f].dump = run[b].dump
                   THEN verified \cup {f} ELSE verified
    /\ run' = [run EXCEPT ![b] = Idle]
    /\ UNCHANGED <<db, repo, files, migrate, restore, changes, spoilt>>

Kill(b) ==
    /\ run[b].pc # "idle"
    /\ spoilt' = IF run[b].pc = "write" THEN spoilt \cup {run[b].name} ELSE spoilt
    /\ run' = [run EXCEPT ![b] = Idle]
    /\ UNCHANGED <<db, repo, files, migrate, restore, changes, verified>>

BackupStep(b) ==
    Snapshot(b) \/ ReadTable(b) \/ OpenFile(b) \/ WritePiece(b) \/ Verify(b) \/ Kill(b)

-----------------------------------------------------------------------------
(* npm run db:migrate *)

\* Slip: the backup of any database will do.
SlipIsRecentBackup(f) == files[f] # None /\ files[f].recent /\ files[f].header

\* Modified within the hour, with a header that names this database; nothing is decrypted.
IsRecentBackup(f) ==
    files[f] # None /\ files[f].recent /\ files[f].header /\ files[f].this

AskToMigrate ==
    /\ migrate = None /\ db.applied < repo
    /\ \E f \in Names : IsRecentBackup(f) /\ migrate' = f
    /\ UNCHANGED <<db, repo, files, run, restore, changes, verified, spoilt>>

\* The confirmation is typed: everything in the folder that is newer than the newest
\* migration applied is applied.
ApplyMigrations ==
    /\ migrate # None
    /\ db' = [db EXCEPT !.applied = repo]
    /\ migrate' = None
    /\ UNCHANGED <<repo, files, run, restore, changes, verified, spoilt>>

StopMigrating ==
    /\ migrate # None
    /\ migrate' = None
    /\ UNCHANGED <<db, repo, files, run, restore, changes, verified, spoilt>>

-----------------------------------------------------------------------------
(* restoreDatabase, in a transaction of a database built from the migrations *)

Refuse(why) == restore' = [NoRestore EXCEPT !.pc = "failed", !.why = why]

\* Why a dump is not restored into a target that has the first n migrations.
Objection(d, n, used) ==
    IF d.migrations > n THEN "older"
    ELSE IF ~(d.tables \subseteq Existing(n)) THEN "no table"
    ELSE IF used THEN "used" ELSE None

\* The file is decrypted, what it holds is compared with what its head announces, and the
\* target with it.  The target is new, or one that was pointed at by mistake: used already,
\* or behind the repository.
OpenBackup ==
    /\ restore.pc = "idle"
    /\ \E f \in Names, n \in 1..repo, used \in BOOLEAN :
         /\ files[f] # None
         /\ LET d == files[f].dump
                why == IF Decrypts(files[f]) THEN Objection(d, n, used) ELSE "damaged" IN
            IF why # None THEN Refuse(why)
            ELSE restore' = [NoRestore EXCEPT !.pc = "fill", !.dump = d, !.left = d.tables,
                               !.target = [applied |-> n, rows |-> NoRows]]
    /\ UNCHANGED <<db, repo, files, run, migrate, changes, verified, spoilt>>

\* Slip: the tables are filled in the order of their names.
SlipReady(left) == left

\* Parents before children; a table that refers to itself does not wait for itself.
Ready(left) == {t \in left : \A p \in Parents(t) \ {t} : p \notin left}

\* jsonb_populate_recordset gives null for a column the backup does not have.
Lacking(t) ==
    /\ restore.dump.rows[t] # {}
    /\ \E n \in restore.dump.migrations + 1 .. restore.target.applied : t \in Widens[n]

\* PostgreSQL: every row of the table has its parent.
HasParents(t) ==
    \A p \in Parents(t) : restore.dump.rows[t] \subseteq
                            (IF p = t THEN restore.dump.rows[t] ELSE restore.target.rows[p])

FillTable ==
    /\ restore.pc = "fill" /\ restore.left # {}
    /\ IF Ready(restore.left) = {} THEN Refuse("circle")
       ELSE \E t \in Ready(restore.left) :
         CASE Lacking(t) -> Refuse("lacking")
           [] ~Lacking(t) /\ ~HasParents(t) -> Refuse("orphans")
           [] OTHER -> restore' = [restore EXCEPT !.left = @ \ {t},
                                                  !.target.rows[t] = restore.dump.rows[t]]
    /\ UNCHANGED <<db, repo, files, run, migrate, changes, verified, spoilt>>

CommitRestore ==
    /\ restore.pc = "fill" /\ restore.left = {}
    /\ restore' = [restore EXCEPT !.pc = "done"]
    /\ UNCHANGED <<db, repo, files, run, migrate, changes, verified, spoilt>>

EndRestore ==
    /\ restore.pc # "idle"
    /\ restore' = NoRestore
    /\ UNCHANGED <<db, repo, files, run, migrate, changes, verified, spoilt>>

RestoreStep == OpenBackup \/ FillTable \/ CommitRestore \/ EndRestore

-----------------------------------------------------------------------------
(* The surroundings *)

\* A member comes, gets a row somewhere, or goes with everything that refers to it.
SiteWrites ==
    /\ changes < MaxChanges
    /\ changes' = changes + 1
    /\ \E k \in Keys :
         \/ \E t \in Existing(db.applied) :
              /\ \A p \in Parents(t) : k \in db.rows[p]
              /\ db' = [db EXCEPT !.rows[t] = @ \cup {k}]
         \/ db' = [db EXCEPT !.rows = [t \in Tables |-> @[t] \ {k}]]
    /\ UNCHANGED <<repo, files, run, migrate, restore, verified, spoilt>>

\* The repository gets a migration.
Release ==
    /\ repo < Len(Creates)
    /\ repo' = repo + 1
    /\ UNCHANGED <<db, files, run, migrate, restore, changes, verified, spoilt>>

\* An hour passes.
Hour ==
    /\ \E f \in Names : files[f] # None /\ files[f].recent
    /\ files' = [f \in Names |-> IF files[f] = None THEN None
                                 ELSE [files[f] EXCEPT !.recent = FALSE]]
    /\ UNCHANGED <<db, repo, run, migrate, restore, changes, verified, spoilt>>

\* A disk or a copy loses, repeats or swaps a part of a file nobody is writing.
Damage(f) ==
    /\ files[f] # None /\ f \notin spoilt /\ \A b \in Backups : run[b].name # f
    /\ \E c \in {<<Whole[1]>>, <<Whole[2], Whole[1]>>, <<Whole[1], Whole[2], Whole[2]>>} :
         files' = [files EXCEPT ![f].chunks = c]
    /\ spoilt' = spoilt \cup {f}
    /\ UNCHANGED <<db, repo, run, migrate, restore, changes, verified>>

Next ==
    \/ \E b \in Backups : BackupStep(b)
    \/ AskToMigrate \/ ApplyMigrations \/ StopMigrating
    \/ RestoreStep
    \/ SiteWrites \/ Release \/ Hour \/ \E f \in Names : Damage(f)

Spec == Init /\ [][Next]_vars

-----------------------------------------------------------------------------
(* Properties *)

\* A file that decrypts at all holds every table, as they were at one instant: no row
\* without its parent, though the site wrote between the queries (dump.ts:14).
FilesAreSnapshots ==
    \A f \in Names : files[f] # None /\ Decrypts(files[f]) =>
        files[f].chunks = Whole /\ Closed(files[f].dump.rows)

\* "Backup written and verified" stays true of a file no disk has damaged: no later run
\* of a command touches it.
VerifiedStays == \A f \in verified \ spoilt : files[f] # None /\ Decrypts(files[f])

\* What a backup file may be relied on for.
FilesHold == FilesAreSnapshots /\ VerifiedStays

\* A restore ends with exactly the rows of the dump, or for one of the reasons that lie
\* outside the file: it never trips over the order of the tables or a row without parent.
RestoresWhatWasSaved ==
    /\ restore.pc = "done" => restore.target.rows = restore.dump.rows
    /\ restore.pc = "failed" => restore.why \in {"damaged", "older", "used", "lacking"}

\* The schema changes only while a backup of this database, made in the hour before the
\* question, can be decrypted, unless it was cut short by a kill, spoilt by a disk or is
\* still being written.
MigratedBehindABackup ==
    [][db'.applied # db.applied =>
         LET f == migrate IN
         /\ files[f].this /\ files[f].dump.migrations <= db.applied
         /\ Decrypts(files[f]) \/ f \in spoilt \/ \E b \in Backups : run[b].name = f]_vars
=============================================================================
