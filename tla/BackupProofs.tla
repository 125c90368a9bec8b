----------------------------- MODULE BackupProofs -----------------------------
(***************************************************************************)
(* A backup that decrypts is a snapshot, a verified one stays, a restore   *)
(* gives back what was saved, and the schema changes only behind a backup: *)
(* for any tables, migrations, accounts and runs of the commands.          *)
(*                                                                         *)
(* The argument is that the rows of the database are closed under the      *)
(* foreign keys at every moment, that a dump is complete once no table is  *)
(* left to read, and that a file belongs to one run until it is finished.  *)
(***************************************************************************)
EXTENDS Backup, TLAPS

RunRecord ==
    [pc : {"idle", "dump", "write", "verify"}, this : BOOLEAN, name : Names \cup {None},
     snapshot : Snapshots \cup {None}, unread : SUBSET Tables, dump : Dumps \cup {None}]

RestoreRecord ==
    [pc : {"idle", "fill", "done", "failed"}, dump : Dumps \cup {None},
     target : Snapshots \cup {None}, left : SUBSET Tables,
     why : {"damaged", "older", "no table", "used", "circle", "lacking", "orphans", None}]

TypeOK ==
    /\ db \in Snapshots
    /\ repo \in Migrations
    /\ db.applied <= repo
    /\ files \in [Names -> Files \cup {None}]
    /\ run \in [Backups -> RunRecord]
    /\ migrate \in Names \cup {None}
    /\ restore \in RestoreRecord
    /\ verified \subseteq Names
    /\ spoilt \subseteq Names

\* Rows of the first n migrations: every row has its parents.
RowsSound(n, rows) == Closed(rows) /\ \A t \in Tables \ Existing(n) : rows[t] = {}

DbSound == RowsSound(db.applied, db.rows)

DumpSound(d) == d.tables = Existing(d.migrations) /\ RowsSound(d.migrations, d.rows)

\* What has been read of a snapshot so far.
Partial(r) ==
    /\ r.snapshot \in Snapshots /\ r.dump \in Dumps
    /\ RowsSound(r.snapshot.applied, r.snapshot.rows)
    /\ r.dump.migrations = r.snapshot.applied /\ r.dump.tables = Existing(r.snapshot.applied)
    /\ \A t \in Tables : r.dump.rows[t] = IF t \in r.unread THEN {} ELSE r.snapshot.rows[t]

\* What can be on the disk of the chunks, as written and as damaged.
Pieces ==
    {<<>>, <<Whole[1]>>, Whole, <<Whole[2], Whole[1]>>, <<Whole[1], Whole[2], Whole[2]>>}

Complete(file) == file.header /\ file.chunks = Whole

RunSound(b) ==
    LET r == run[b] IN
    /\ r.pc \in {"idle", "dump"} => r.name = None
    /\ r.pc = "dump" => Partial(r) /\ r.snapshot.applied <= db.applied
    /\ r.pc \in {"write", "verify"} =>
         /\ r.name \in Names \ (spoilt \cup verified)
         /\ files[r.name] # None
    /\ r.pc = "write" =>
         /\ files[r.name].chunks \in {<<>>, <<Whole[1]>>}
         /\ files[r.name].header \/ files[r.name].chunks = <<>>
    /\ r.pc = "verify" => Complete(files[r.name])

RunsSound == \A b \in Backups : RunSound(b)

\* No two runs write one file.
RunsApart ==
    \A b, c \in Backups : run[b].name = run[c].name /\ run[b].name # None => b = c

\* A file that nobody writes and nothing has spoilt is whole.
FileSound(f) ==
    files[f] # None =>
        /\ DumpSound(files[f].dump)
        /\ files[f].dump.migrations <= db.applied
        /\ files[f].chunks \in Pieces
        /\ f \in spoilt \/ (\E b \in Backups : run[b].name = f) \/ Complete(files[f])

FilesSound == \A f \in Names : FileSound(f)

FilesStay == \A f \in verified \cup spoilt : files[f] # None

Asked == migrate # None => files[migrate] # None /\ files[migrate].this

RestoreSound ==
    /\ restore.pc \in {"fill", "done"} =>
         /\ restore.dump \in Dumps /\ DumpSound(restore.dump)
         /\ restore.target \in Snapshots
         /\ restore.left \subseteq restore.dump.tables
         /\ \A t \in Tables :
              restore.target.rows[t] = IF t \in restore.left THEN {} ELSE restore.dump.rows[t]
    /\ restore.pc = "done" => restore.left = {}
    /\ restore.pc = "failed" => restore.why \in {"damaged", "older", "used", "lacking"}

IInv ==
    /\ TypeOK /\ DbSound /\ RunsSound /\ RunsApart /\ FilesSound /\ FilesStay /\ Asked
    /\ RestoreSound

-----------------------------------------------------------------------------
(* Constants *)

LEMMA MigrationsAre ==
    /\ Migrations \subseteq Nat /\ 1 \in Migrations
    /\ \A n \in Migrations, m \in Nat : m >= 1 /\ m <= n => m \in Migrations
    /\ Len(Creates) \in Migrations /\ \A n \in Migrations : n <= Len(Creates)
<1>1. Creates \in Seq(SUBSET Tables) /\ Creates # <<>>
  BY BackupAssumption
<1>2. Len(Creates) \in Nat /\ Len(Creates) >= 1 /\ DOMAIN Creates = 1..Len(Creates)
  BY <1>1
<1>3. QED BY <1>2 DEF Migrations

LEMMA ExistingAre ==
    /\ \A n \in Migrations : Existing(n) \subseteq Tables
    /\ \A n, m \in Migrations : n <= m => Existing(n) \subseteq Existing(m)
    /\ \A n \in Migrations : \A t \in Existing(n) : Parents(t) \subseteq Existing(n)
<1>1. \A i \in Migrations : Creates[i] \subseteq Tables
  BY BackupAssumption DEF Migrations
<1>2. ASSUME NEW n \in Migrations, NEW i \in 1..n PROVE i \in Migrations
  BY MigrationsAre
<1>3. ASSUME NEW n \in Migrations PROVE Existing(n) \subseteq Tables
  BY <1>1, <1>2 DEF Existing
<1>4. ASSUME NEW n \in Migrations, NEW m \in Migrations, n <= m
      PROVE  Existing(n) \subseteq Existing(m)
  <2>1. 1..n \subseteq 1..m
    BY <1>4, MigrationsAre
  <2>2. QED BY <2>1 DEF Existing
<1>5. ASSUME NEW n \in Migrations, NEW t \in Existing(n) PROVE Parents(t) \subseteq Existing(n)
  <2>1. PICK i \in 1..n : t \in Creates[i]
    BY DEF Existing
  <2>2. i \in Migrations /\ i <= n
    BY <1>2, MigrationsAre
  <2>3. Parents(t) \subseteq Existing(i)
    BY <2>1, <2>2, BackupAssumption
  <2>4. QED BY <1>4, <2>2, <2>3
<1>6. QED BY <1>3, <1>4, <1>5

LEMMA WholeIs ==
    /\ Whole = <<Chunk(0, FALSE), Chunk(1, TRUE)>>
    /\ Len(Whole) = 2 /\ Whole[1] = Chunk(0, FALSE) /\ Whole[2] = Chunk(1, TRUE)
    /\ Chunk(0, FALSE).index = 0 /\ Chunk(0, FALSE).last = FALSE
    /\ Chunk(1, TRUE).index = 1 /\ Chunk(1, TRUE).last = TRUE
    /\ Chunk(0, FALSE) \in [index : Nat, last : BOOLEAN]
    /\ Chunk(1, TRUE) \in [index : Nat, last : BOOLEAN]
<1>1. /\ Chunk(0, FALSE) \in [index : Nat, last : BOOLEAN]
      /\ Chunk(1, TRUE) \in [index : Nat, last : BOOLEAN]
  BY DEF Chunk
<1>2. /\ Chunk(0, FALSE).index = 0 /\ Chunk(0, FALSE).last = FALSE
      /\ Chunk(1, TRUE).index = 1 /\ Chunk(1, TRUE).last = TRUE
  BY DEF Chunk
<1>3. /\ Whole = <<Chunk(0, FALSE), Chunk(1, TRUE)>>
      /\ Len(Whole) = 2 /\ Whole[1] = Chunk(0, FALSE) /\ Whole[2] = Chunk(1, TRUE)
  BY DEF Whole
<1>4. QED BY <1>1, <1>2, <1>3

LEMMA PiecesAreChunks == Pieces \subseteq Seq([index : Nat, last : BOOLEAN])
<1> DEFINE S == [index : Nat, last : BOOLEAN]
           first == Chunk(0, FALSE)
           second == Chunk(1, TRUE)
<1>1. first \in S /\ second \in S
  BY WholeIs
<1>2. Pieces = {<<>>, <<first>>, <<first, second>>, <<second, first>>, <<first, second, second>>}
  BY WholeIs DEF Pieces
<1> HIDE DEF S, first, second
<1>3. <<>> \in Seq(S) /\ <<first>> \in Seq(S) /\ <<first, second>> \in Seq(S)
      /\ <<second, first>> \in Seq(S) /\ <<first, second, second>> \in Seq(S)
  BY <1>1
<1>4. Pieces \subseteq Seq(S)
  BY <1>2, <1>3
<1>5. QED BY <1>4 DEF S

\* Of what can be on the disk, only the whole file decrypts.
LEMMA DecryptsMeans ==
    ASSUME NEW f, f.chunks \in Pieces
    PROVE  Decrypts(f) <=> Complete(f)
<1> DEFINE c == f.chunks
           first == Chunk(0, FALSE)
           second == Chunk(1, TRUE)
<1>0. /\ Whole = <<first, second>> /\ Whole[1] = first /\ Whole[2] = second
      /\ first.index = 0 /\ first.last = FALSE /\ second.index = 1 /\ second.last = TRUE
  BY WholeIs
<1> HIDE DEF first, second
<1>1. CASE c = <<>>
  BY <1>0, <1>1 DEF Decrypts, Complete
<1>2. CASE c = <<first>>
  <2>1. 1 \in DOMAIN c /\ c[1] = first /\ Len(c) = 1
    BY <1>2
  <2>2. ~Decrypts(f)
    BY <1>0, <2>1 DEF Decrypts
  <2>3. c # Whole
    BY <1>0, <2>1
  <2>4. QED BY <2>2, <2>3 DEF Complete
<1>3. CASE c = <<first, second>>
  <2>1. DOMAIN c = {1, 2} /\ c[1] = first /\ c[2] = second /\ Len(c) = 2 /\ c # <<>>
    BY <1>3
  <2>2. \A i \in DOMAIN c : c[i].index = i - 1 /\ (c[i].last <=> i = Len(c))
    BY <1>0, <2>1
  <2>3. QED BY <1>0, <1>3, <2>1, <2>2 DEF Decrypts, Complete
<1>4. CASE c = <<second, first>>
  <2>1. 1 \in DOMAIN c /\ c[1] = second
    BY <1>4
  <2>2. ~Decrypts(f)
    BY <1>0, <2>1 DEF Decrypts
  <2>3. c # Whole
    BY <1>0, <2>1
  <2>4. QED BY <2>2, <2>3 DEF Complete
<1>5. CASE c = <<first, second, second>>
  <2>1. 3 \in DOMAIN c /\ c[3] = second /\ Len(c) = 3
    BY <1>5
  <2>2. ~Decrypts(f)
    BY <1>0, <2>1 DEF Decrypts
  <2>3. c # Whole
    BY <1>0, <2>1
  <2>4. QED BY <2>2, <2>3 DEF Complete
<1>6. QED BY <1>0, <1>1, <1>2, <1>3, <1>4, <1>5 DEF Pieces

\* The first chunk is written, and then the second.
LEMMA Appends ==
    ASSUME NEW S, NEW a \in S, NEW b \in S
    PROVE  Append(<<>>, a) = <<a>> /\ Append(<<a>>, b) = <<a, b>>
<1>1. Append(<<>>, a) = <<a>>
  OBVIOUS
<1>2. /\ Append(<<a>>, b) \in Seq(S) /\ Len(Append(<<a>>, b)) = 2
      /\ Append(<<a>>, b)[1] = a /\ Append(<<a>>, b)[2] = b
  OBVIOUS
<1>3. <<a, b>> \in Seq(S) /\ Len(<<a, b>>) = 2 /\ <<a, b>>[1] = a /\ <<a, b>>[2] = b
  OBVIOUS
<1>4. \A s, t \in Seq(S) : Len(s) = 2 /\ Len(t) = 2 /\ s[1] = t[1] /\ s[2] = t[2] => s = t
  OBVIOUS
<1>5. QED BY <1>1, <1>2, <1>3, <1>4

LEMMA NoRowsAreSound ==
    NoRows \in [Tables -> SUBSET Keys] /\ \A n : RowsSound(n, NoRows)
BY DEF NoRows, RowsSound, Closed, Parents

\* The tables of an earlier migration are sound for a later one.
LEMMA SoundLater ==
    ASSUME NEW n \in Migrations, NEW m \in Migrations, n <= m, NEW rows, RowsSound(n, rows)
    PROVE  RowsSound(m, rows)
BY ExistingAre DEF RowsSound

-----------------------------------------------------------------------------
(* The restore *)

LEMMA RestoreOpens == ASSUME IInv, OpenBackup PROVE restore' \in RestoreRecord /\ RestoreSound'
<1>1. PICK f \in Names, n \in 1..repo, used \in BOOLEAN :
        /\ files[f] # None
        /\ LET d == files[f].dump
               why == IF Decrypts(files[f]) THEN Objection(d, n, used) ELSE "damaged" IN
           IF why # None THEN Refuse(why)
           ELSE restore' = [NoRestore EXCEPT !.pc = "fill", !.dump = d, !.left = d.tables,
                              !.target = [applied |-> n, rows |-> NoRows]]
  BY DEF OpenBackup
<1> DEFINE d == files[f].dump
           why == IF Decrypts(files[f]) THEN Objection(d, n, used) ELSE "damaged"
<1>2. /\ d \in Dumps /\ DumpSound(d) /\ n \in Migrations /\ n \in Nat /\ d.migrations \in Migrations
      /\ d.migrations \in Nat
  BY <1>1, MigrationsAre DEF IInv, TypeOK, FilesSound, FileSound, Files, Dumps
<1>3. why \in {"damaged", "older", "used", None}
  <2>1. d.migrations > n \/ d.tables \subseteq Existing(n)
    BY <1>2, ExistingAre DEF DumpSound
  <2>2. CASE Decrypts(files[f])
    <3> DEFINE o == Objection(d, n, used)
    <3>1. CASE d.migrations > n
      BY <2>2, <3>1 DEF Objection
    <3>2. CASE ~(d.migrations > n)
      <4>1. o = "used" \/ o = None
        BY <2>1, <3>2 DEF Objection
      <4> HIDE DEF o
      <4>2. why = o
        BY <2>2 DEF o
      <4>3. QED BY <4>1, <4>2
    <3>3. QED BY <2>2, <3>1, <3>2
  <2>3. CASE ~Decrypts(files[f])
    BY <2>3
  <2>4. QED BY <2>2, <2>3
<1>4. \/ why # None /\ Refuse(why)
      \/ restore' = [NoRestore EXCEPT !.pc = "fill", !.dump = d, !.left = d.tables,
                              !.target = [applied |-> n, rows |-> NoRows]]
  BY <1>1
<1> HIDE DEF d, why
<1>5. CASE why # None /\ Refuse(why)
  BY <1>3, <1>5 DEF Refuse, NoRestore, RestoreRecord, RestoreSound
<1>6. CASE restore' = [NoRestore EXCEPT !.pc = "fill", !.dump = d, !.left = d.tables,
                              !.target = [applied |-> n, rows |-> NoRows]]
  <2> DEFINE target == [applied |-> n, rows |-> NoRows]
  <2>1. target \in Snapshots /\ target.rows = NoRows
    BY <1>2, NoRowsAreSound DEF Snapshots
  <2>2. d.tables \in SUBSET Tables
    BY <1>2 DEF Dumps
  <2> HIDE DEF target
  <2>3. /\ restore'.pc = "fill" /\ restore'.dump = d /\ restore'.left = d.tables
        /\ restore'.target = target
    BY <1>6 DEF target, NoRestore
  <2>4. restore' \in RestoreRecord
    BY <1>2, <1>6, <2>1, <2>2 DEF target, NoRestore, RestoreRecord
  <2>5. \A t \in Tables : NoRows[t] = IF t \in d.tables THEN {} ELSE d.rows[t]
    BY <1>2 DEF NoRows, DumpSound, RowsSound
  <2>6. QED BY <1>2, <2>1, <2>3, <2>4, <2>5 DEF RestoreSound
<1>7. QED BY <1>4, <1>5, <1>6

LEMMA RestoreFills == ASSUME IInv, FillTable PROVE restore' \in RestoreRecord /\ RestoreSound'
<1> DEFINE left == restore.left
           dump == restore.dump
           target == restore.target
<1>1. /\ restore.pc = "fill" /\ left # {} /\ left \subseteq dump.tables /\ left \subseteq Tables
      /\ dump \in Dumps /\ DumpSound(dump) /\ target \in Snapshots /\ restore \in RestoreRecord
      /\ \A t \in Tables : target.rows[t] = IF t \in left THEN {} ELSE dump.rows[t]
  BY DEF FillTable, IInv, TypeOK, RestoreSound, RestoreRecord
<1>2. Ready(left) # {}
  <2>1. PICK t \in left : Parents(t) \cap left \subseteq {t}
    BY <1>1, BackupAssumption
  <2>2. QED BY <2>1 DEF Ready
<1>3. ASSUME NEW t \in Ready(left) PROVE HasParents(t) /\ t \in left /\ t \in Tables
  <2>1. t \in left /\ t \in Tables /\ \A p \in Parents(t) \ {t} : p \notin left /\ p \in Tables
    BY <1>1 DEF Ready, Parents
  <2>2. \A p \in Parents(t) : dump.rows[t] \subseteq dump.rows[p]
    BY <1>1, <2>1 DEF DumpSound, RowsSound, Closed
  <2>3. QED BY <1>1, <2>1, <2>2 DEF HasParents
<1>4. PICK t \in Ready(left) :
        \/ Refuse("lacking")
        \/ restore' = [restore EXCEPT !.left = @ \ {t}, !.target.rows[t] = dump.rows[t]]
  BY <1>2, <1>3 DEF FillTable
<1>5. CASE Refuse("lacking")
  BY <1>5 DEF Refuse, NoRestore, RestoreRecord, RestoreSound
<1>6. CASE restore' = [restore EXCEPT !.left = @ \ {t}, !.target.rows[t] = dump.rows[t]]
  <2> DEFINE rows == [target.rows EXCEPT ![t] = dump.rows[t]]
             next == [target EXCEPT !.rows = rows]
  <2>1. restore' = [restore EXCEPT !.left = left \ {t}, !.target = next]
    BY <1>1, <1>6 DEF RestoreRecord
  <2>2. rows \in [Tables -> SUBSET Keys]
    BY <1>1, <1>3 DEF Snapshots, Dumps
  <2>3. \A u \in Tables : rows[u] = IF u \in left \ {t} THEN {} ELSE dump.rows[u]
    BY <1>1, <1>3 DEF Snapshots
  <2> HIDE DEF rows
  <2>4. next \in Snapshots /\ next.rows = rows
    BY <1>1, <2>2 DEF Snapshots
  <2> HIDE DEF next
  <2>5. /\ restore'.pc = "fill" /\ restore'.dump = dump /\ restore'.left = left \ {t}
        /\ restore'.target = next
    BY <1>1, <2>1 DEF RestoreRecord
  <2>6. restore' \in RestoreRecord
    BY <1>1, <2>1, <2>4 DEF RestoreRecord
  <2>7. QED BY <1>1, <2>3, <2>4, <2>5, <2>6 DEF RestoreSound
<1>7. QED BY <1>4, <1>5, <1>6

\* What the commands and the surroundings share.
LEMMA Untouched ==
    ASSUME IInv, UNCHANGED <<db, repo, files, run, migrate, verified, spoilt>>,
           restore' \in RestoreRecord, RestoreSound'
    PROVE  IInv'
<1>1. TypeOK' /\ DbSound' /\ RunsApart' /\ FilesStay' /\ Asked'
  BY DEF IInv, TypeOK, DbSound, RunsApart, FilesStay, Asked
<1>2. RunsSound' /\ FilesSound'
  BY DEF IInv, RunsSound, RunSound, FilesSound, FileSound
<1>3. QED BY <1>1, <1>2 DEF IInv

LEMMA RestoreKeeps == ASSUME IInv, RestoreStep PROVE IInv'
<1>1. UNCHANGED <<db, repo, files, run, migrate, verified, spoilt>>
  BY DEF RestoreStep, OpenBackup, FillTable, CommitRestore, EndRestore
<1>2. restore' \in RestoreRecord /\ RestoreSound'
  <2>1. CASE OpenBackup
    BY <2>1, RestoreOpens
  <2>2. CASE FillTable
    BY <2>2, RestoreFills
  <2>3. CASE CommitRestore
    <3>1. /\ restore.pc = "fill" /\ restore.left = {} /\ restore' = [restore EXCEPT !.pc = "done"]
          /\ restore \in RestoreRecord /\ RestoreSound
      BY <2>3 DEF CommitRestore, IInv, TypeOK
    <3>2. /\ restore'.pc = "done" /\ restore'.dump = restore.dump /\ restore'.left = {}
          /\ restore'.target = restore.target /\ restore' \in RestoreRecord
      BY <3>1 DEF RestoreRecord
    <3>3. QED BY <3>1, <3>2 DEF RestoreSound
  <2>4. CASE EndRestore
    BY <2>4 DEF EndRestore, NoRestore, RestoreRecord, RestoreSound
  <2>5. QED BY <2>1, <2>2, <2>3, <2>4 DEF RestoreStep
<1>3. QED BY <1>1, <1>2, Untouched

-----------------------------------------------------------------------------
(* Backups *)

\* A run goes on under the name it has, and no file changes.
LEMMA RunMoves ==
    ASSUME IInv, NEW b \in Backups, NEW x \in RunRecord, run' = [run EXCEPT ![b] = x],
           x.name = run[b].name, RunSound(b)',
           UNCHANGED <<db, repo, files, migrate, restore, verified, spoilt>>
    PROVE  IInv'
<1>1. run \in [Backups -> RunRecord]
  BY DEF IInv, TypeOK
<1>2. run' \in [Backups -> RunRecord] /\ \A c \in Backups : run'[c].name = run[c].name
  BY <1>1
<1>3. TypeOK' /\ DbSound' /\ FilesStay' /\ Asked' /\ RestoreSound'
  BY <1>2 DEF IInv, TypeOK, DbSound, FilesStay, Asked, RestoreSound
<1>4. RunsApart'
  BY <1>2 DEF IInv, RunsApart
<1>5. RunsSound'
  <2>1. ASSUME NEW c \in Backups, c # b PROVE RunSound(c)'
    <3>1. run'[c] = run[c] /\ RunSound(c)
      BY <1>1, <2>1 DEF IInv, RunsSound
    <3>2. QED BY <3>1 DEF RunSound
  <2>2. QED BY <2>1 DEF RunsSound
<1>6. FilesSound'
  BY <1>2 DEF IInv, FilesSound, FileSound
<1>7. QED BY <1>3, <1>4, <1>5, <1>6 DEF IInv

\* A run ends: the file it was writing, if any, is whole or counted as spoilt.
LEMMA RunEnds ==
    ASSUME IInv, NEW b \in Backups, run' = [run EXCEPT ![b] = Idle],
           verified' = verified \/ (run[b].name # None /\ verified' = verified \cup {run[b].name}),
           spoilt' = spoilt \/ (run[b].name # None /\ spoilt' = spoilt \cup {run[b].name}),
           run[b].name # None => run[b].name \in spoilt' \/ Complete(files[run[b].name]),
           UNCHANGED <<db, repo, files, migrate, restore>>
    PROVE  IInv'
<1> DEFINE f == run[b].name
<1>1. /\ run \in [Backups -> RunRecord] /\ f \in Names \cup {None} /\ RunSound(b)
      /\ Idle \in RunRecord /\ Idle.name = None /\ Idle.pc = "idle"
  BY DEF IInv, TypeOK, RunRecord, RunsSound, Idle
<1>2. f # None => f \in Names /\ files[f] # None
  BY <1>1 DEF RunSound, RunRecord
<1>3. /\ run' \in [Backups -> RunRecord] /\ run'[b] = Idle
      /\ \A c \in Backups \ {b} : run'[c] = run[c]
  BY <1>1
<1>4. TypeOK'
  BY <1>1, <1>3 DEF IInv, TypeOK
<1>5. DbSound' /\ Asked' /\ RestoreSound'
  BY DEF IInv, DbSound, Asked, RestoreSound
<1>6. FilesStay'
  BY <1>2 DEF IInv, FilesStay
<1>7. RunsApart'
  BY <1>1, <1>3 DEF IInv, RunsApart
<1>8. RunsSound'
  <2>1. RunSound(b)'
    BY <1>1, <1>3 DEF RunSound
  <2>2. ASSUME NEW c \in Backups \ {b} PROVE RunSound(c)'
    <3>1. run'[c] = run[c] /\ RunSound(c) /\ (run[c].name # None => run[c].name # f)
      BY <1>3 DEF IInv, RunsSound, RunsApart
    <3>2. None \notin Names
      BY BackupAssumption
    <3>3. run[c].name \in Names \ (spoilt \cup verified) => run[c].name \notin spoilt' \cup verified'
      BY <3>1, <3>2
    <3>4. QED BY <3>1, <3>3 DEF RunSound
  <2>3. QED BY <2>1, <2>2 DEF RunsSound
<1>9. FilesSound'
  <2> SUFFICES ASSUME NEW g \in Names, files[g] # None PROVE FileSound(g)'
    BY DEF FilesSound, FileSound
  <2>1. /\ FileSound(g) /\ g # None
    BY BackupAssumption DEF IInv, FilesSound
  <2>2. g \in spoilt' \/ (\E c \in Backups : run'[c].name = g) \/ Complete(files[g])
    <3>1. CASE g = f
      BY <2>1, <3>1
    <3>2. CASE g # f
      BY <1>3, <2>1, <3>2 DEF FileSound
    <3>3. QED BY <3>1, <3>2
  <2>3. QED BY <2>1, <2>2 DEF FileSound
<1>10. QED BY <1>4, <1>5, <1>6, <1>7, <1>8, <1>9 DEF IInv

LEMMA SnapshotKeeps == ASSUME IInv, NEW b \in Backups, Snapshot(b) PROVE IInv'
<1>1. PICK this \in BOOLEAN :
        LET seen == IF this THEN db ELSE [applied |-> 1, rows |-> NoRows] IN
        run' = [run EXCEPT ![b] = [Idle EXCEPT
          !.pc = "dump", !.this = this, !.snapshot = seen, !.unread = Existing(seen.applied),
          !.dump = [migrations |-> seen.applied, tables |-> Existing(seen.applied),
                    rows |-> NoRows]]]
  BY DEF Snapshot
<1> DEFINE seen == IF this THEN db ELSE [applied |-> 1, rows |-> NoRows]
           dump == [migrations |-> seen.applied, tables |-> Existing(seen.applied), rows |-> NoRows]
           x == [Idle EXCEPT !.pc = "dump", !.this = this, !.snapshot = seen,
                   !.unread = Existing(seen.applied), !.dump = dump]
<1>2. /\ seen \in Snapshots /\ RowsSound(seen.applied, seen.rows) /\ seen.applied <= db.applied
  <2>1. db \in Snapshots /\ RowsSound(db.applied, db.rows) /\ db.applied \in Nat /\ db.applied >= 1
    BY MigrationsAre DEF IInv, TypeOK, DbSound, Snapshots, Migrations
  <2>2. [applied |-> 1, rows |-> NoRows] \in Snapshots
    BY MigrationsAre, NoRowsAreSound DEF Snapshots
  <2>3. QED BY <2>1, <2>2, NoRowsAreSound
<1> HIDE DEF seen
<1>3. /\ seen.applied \in Migrations /\ Existing(seen.applied) \in SUBSET Tables
  BY <1>2, ExistingAre DEF Snapshots
<1>4. dump \in Dumps /\ dump.migrations = seen.applied /\ dump.tables = Existing(seen.applied)
      /\ dump.rows = NoRows
  BY <1>3, NoRowsAreSound DEF Dumps
<1> HIDE DEF dump
<1>5. x \in RunRecord /\ x.pc = "dump" /\ x.name = None /\ x.snapshot = seen /\ x.dump = dump
      /\ x.unread = Existing(seen.applied)
  BY <1>2, <1>3, <1>4 DEF Idle, RunRecord
<1>6. run' = [run EXCEPT ![b] = x]
  BY <1>1 DEF dump, seen
<1> HIDE DEF x
<1>7. run \in [Backups -> RunRecord] /\ run[b].name = None
  BY DEF Snapshot, IInv, TypeOK, RunsSound, RunSound
<1>8. Partial(x)
  <2>1. \A t \in Tables : NoRows[t] = IF t \in Existing(seen.applied) THEN {} ELSE seen.rows[t]
    BY <1>2 DEF RowsSound, NoRows
  <2>2. QED BY <1>2, <1>4, <1>5, <2>1 DEF Partial
<1>9. UNCHANGED <<db, repo, files, migrate, restore, verified, spoilt>>
  BY DEF Snapshot
<1>10. RunSound(b)'
  BY <1>2, <1>5, <1>6, <1>7, <1>8, <1>9 DEF RunSound
<1>11. QED BY <1>5, <1>6, <1>7, <1>9, <1>10, RunMoves

LEMMA ReadTableKeeps == ASSUME IInv, NEW b \in Backups, ReadTable(b) PROVE IInv'
<1> DEFINE r == run[b]
<1>1. PICK t \in r.unread :
        run' = [run EXCEPT ![b].unread = @ \ {t}, ![b].dump.rows[t] = RowsRead(b, t)]
  BY DEF ReadTable
<1>2. /\ run \in [Backups -> RunRecord] /\ r \in RunRecord /\ r.pc = "dump" /\ r.name = None
      /\ Partial(r) /\ r.snapshot.applied <= db.applied /\ r.unread \subseteq Tables
  BY DEF ReadTable, IInv, TypeOK, RunsSound, RunSound, RunRecord
<1> DEFINE rows == [r.dump.rows EXCEPT ![t] = r.snapshot.rows[t]]
           dump == [r.dump EXCEPT !.rows = rows]
           x == [r EXCEPT !.unread = r.unread \ {t}, !.dump = dump]
<1>3. run' = [run EXCEPT ![b] = x]
  BY <1>1, <1>2 DEF RowsRead, RunRecord
<1>4. r.dump \in Dumps /\ r.snapshot \in Snapshots
  BY <1>2 DEF Partial
<1>5. rows \in [Tables -> SUBSET Keys]
  BY <1>2, <1>4 DEF Dumps, Snapshots
<1>6. \A u \in Tables : rows[u] = IF u \in r.unread \ {t} THEN {} ELSE r.snapshot.rows[u]
  BY <1>2, <1>4 DEF Partial, Dumps
<1> HIDE DEF rows
<1>7. /\ dump \in Dumps /\ dump.rows = rows /\ dump.migrations = r.dump.migrations
      /\ dump.tables = r.dump.tables
  BY <1>4, <1>5 DEF Dumps
<1> HIDE DEF dump
<1>8. /\ x \in RunRecord /\ x.pc = "dump" /\ x.name = None /\ x.snapshot = r.snapshot
      /\ x.dump = dump /\ x.unread = r.unread \ {t}
  BY <1>2, <1>7 DEF RunRecord
<1> HIDE DEF x
<1>9. Partial(x)
  BY <1>2, <1>6, <1>7, <1>8 DEF Partial
<1>10. UNCHANGED <<db, repo, files, migrate, restore, verified, spoilt>>
  BY DEF ReadTable
<1>11. RunSound(b)'
  BY <1>2, <1>3, <1>8, <1>9, <1>10 DEF RunSound
<1>12. QED BY <1>2, <1>3, <1>8, <1>10, <1>11, RunMoves

\* A run changes the file it is writing, or a new one.
LEMMA FileMoves ==
    ASSUME IInv, NEW b \in Backups, NEW f \in Names, NEW x \in RunRecord, NEW y \in Files,
           run' = [run EXCEPT ![b] = x], files' = [files EXCEPT ![f] = y],
           x.name = f, run[b].name = f \/ (run[b].name = None /\ files[f] = None),
           files[f] # None => y.this = files[f].this,
           DumpSound(y.dump), y.dump.migrations <= db.applied, y.chunks \in Pieces,
           RunSound(b)',
           UNCHANGED <<db, repo, migrate, restore, verified, spoilt>>
    PROVE  IInv'
<1>1. /\ run \in [Backups -> RunRecord] /\ files \in [Names -> Files \cup {None}]
      /\ f # None /\ y # None
  BY BackupAssumption DEF IInv, TypeOK
<1>2. /\ run' \in [Backups -> RunRecord] /\ files' \in [Names -> Files \cup {None}]
      /\ run'[b] = x /\ files'[f] = y
      /\ \A c \in Backups \ {b} : run'[c] = run[c]
      /\ \A g \in Names \ {f} : files'[g] = files[g]
  BY <1>1
<1>3. \A c \in Backups \ {b} : run[c].name # f
  <2> SUFFICES ASSUME NEW c \in Backups \ {b}, run[c].name = f PROVE FALSE
    OBVIOUS
  <2>1. CASE run[b].name = f
    BY <1>1, <2>1 DEF IInv, RunsApart
  <2>2. CASE files[f] = None
    <3>1. run[c].pc \in {"write", "verify"} /\ RunSound(c)
      BY <1>1 DEF IInv, RunsSound, RunSound, RunRecord
    <3>2. QED BY <2>2, <3>1 DEF RunSound
  <2>3. QED BY <2>1, <2>2
<1>4. TypeOK' /\ DbSound' /\ RestoreSound'
  BY <1>2 DEF IInv, TypeOK, DbSound, RestoreSound
<1>5. FilesStay' /\ Asked'
  <2>1. verified \cup spoilt \subseteq Names /\ migrate \in Names \cup {None}
    BY DEF IInv, TypeOK
  <2>2. QED BY <1>1, <1>2, <2>1 DEF IInv, FilesStay, Asked
<1>6. RunsApart'
  BY <1>1, <1>2, <1>3 DEF IInv, RunsApart
<1>7. RunsSound'
  <2>1. ASSUME NEW c \in Backups \ {b} PROVE RunSound(c)'
    <3>1. run'[c] = run[c] /\ RunSound(c) /\ run[c].name # f
      BY <1>2, <1>3 DEF IInv, RunsSound
    <3>2. run[c].name \in Names => files'[run[c].name] = files[run[c].name]
      BY <1>2, <3>1
    <3>3. QED BY <3>1, <3>2 DEF RunSound
  <2>2. QED BY <2>1 DEF RunsSound
<1>8. FilesSound'
  <2> SUFFICES ASSUME NEW g \in Names PROVE FileSound(g)'
    BY DEF FilesSound
  <2>1. CASE g = f
    BY <1>2, <2>1 DEF FileSound
  <2>2. CASE g # f
    <3>1. files'[g] = files[g] /\ FileSound(g) /\ g # None
      BY <1>2, <2>2, BackupAssumption DEF IInv, FilesSound
    <3>2. (\E c \in Backups : run[c].name = g) => \E c \in Backups : run'[c].name = g
      BY <1>2, <2>2, <3>1
    <3>3. QED BY <3>1, <3>2 DEF FileSound
  <2>3. QED BY <2>1, <2>2
<1>9. QED BY <1>4, <1>5, <1>6, <1>7, <1>8 DEF IInv

LEMMA OpenFileKeeps == ASSUME IInv, NEW b \in Backups, OpenFile(b) PROVE IInv'
<1> DEFINE r == run[b]
<1>1. PICK f \in Names :
        IF Free(f)
        THEN /\ files' = [files EXCEPT ![f] =
                  [this |-> r.this, recent |-> TRUE, header |-> FALSE, chunks |-> <<>>,
                   dump |-> r.dump]]
             /\ run' = [run EXCEPT ![b].pc = "write", ![b].name = f, ![b].snapshot = None]
        ELSE run' = [run EXCEPT ![b] = Idle] /\ UNCHANGED files
  BY DEF OpenFile
<1>2. /\ run \in [Backups -> RunRecord] /\ r \in RunRecord /\ r.pc = "dump" /\ r.name = None
      /\ Partial(r) /\ r.snapshot.applied <= db.applied /\ r.unread = {}
      /\ UNCHANGED <<db, repo, migrate, restore, verified, spoilt>>
  BY DEF OpenFile, IInv, TypeOK, RunsSound, RunSound
<1>3. CASE ~Free(f)
  BY <1>1, <1>2, <1>3, RunEnds
<1>4. CASE Free(f)
  <2> DEFINE x == [r EXCEPT !.pc = "write", !.name = f, !.snapshot = None]
             y == [this |-> r.this, recent |-> TRUE, header |-> FALSE, chunks |-> <<>>,
                   dump |-> r.dump]
  <2>1. /\ r.dump \in Dumps /\ r.snapshot \in Snapshots
        /\ r.dump.migrations = r.snapshot.applied /\ r.dump.tables = Existing(r.dump.migrations)
        /\ RowsSound(r.snapshot.applied, r.snapshot.rows)
        /\ \A t \in Tables : r.dump.rows[t] = r.snapshot.rows[t]
    BY <1>2 DEF Partial
  <2>2. r.dump.rows = r.snapshot.rows
    BY <2>1 DEF Dumps, Snapshots
  <2>3. DumpSound(r.dump)
    BY <2>1, <2>2 DEF DumpSound
  <2>4. /\ x \in RunRecord /\ x.pc = "write" /\ x.name = f
    BY <1>2 DEF RunRecord
  <2>5. run' = [run EXCEPT ![b] = x] /\ files' = [files EXCEPT ![f] = y]
    BY <1>1, <1>2, <1>4 DEF RunRecord
  <2>6. /\ y \in Files /\ y.chunks = <<>> /\ y.dump = r.dump
    BY <1>2, <2>1 DEF Files, RunRecord
  <2> HIDE DEF x, y
  <2>7. files[f] = None /\ f \notin spoilt \cup verified /\ files \in [Names -> Files \cup {None}]
    BY <1>4 DEF Free, IInv, TypeOK, FilesStay
  <2>8. RunSound(b)'
    <3>1. run'[b] = x /\ files'[f] = y /\ y # None
      BY <1>2, <2>5, <2>6, <2>7, BackupAssumption
    <3>2. QED BY <1>2, <2>4, <2>6, <2>7, <3>1 DEF RunSound
  <2>9. QED BY <1>2, <2>1, <2>3, <2>4, <2>5, <2>6, <2>7, <2>8, FileMoves DEF Pieces
<1>5. QED BY <1>3, <1>4

LEMMA WritePieceKeeps == ASSUME IInv, NEW b \in Backups, WritePiece(b) PROVE IInv'
<1> DEFINE r == run[b]
           f == r.name
           file == files[f]
<1>1. /\ run \in [Backups -> RunRecord] /\ r \in RunRecord /\ r.pc = "write"
      /\ f \in Names \ (spoilt \cup verified) /\ file # None /\ file \in Files
      /\ files \in [Names -> Files \cup {None}]
      /\ file.chunks \in {<<>>, <<Whole[1]>>} /\ (file.header \/ file.chunks = <<>>)
      /\ DumpSound(file.dump) /\ file.dump.migrations <= db.applied
      /\ UNCHANGED <<db, repo, migrate, restore, verified, spoilt>>
  BY DEF WritePiece, IInv, TypeOK, RunsSound, RunSound, FilesSound, FileSound
<1>2. run = [run EXCEPT ![b] = r]
  BY <1>1
<1>3. CASE ~file.header
  <2> DEFINE y == [file EXCEPT !.header = TRUE]
  <2>1. files' = [files EXCEPT ![f] = y] /\ run' = run
    BY <1>1, <1>3 DEF WritePiece, Files
  <2>2. y \in Files /\ y.chunks = <<>> /\ y.dump = file.dump /\ y.this = file.this
    BY <1>1, <1>3 DEF Files
  <2> HIDE DEF y
  <2>3. RunSound(b)'
    <3>1. run'[b] = r /\ files'[f] = y /\ y # None
      BY <1>1, <2>1, <2>2, BackupAssumption
    <3>2. QED BY <1>1, <2>2, <3>1 DEF RunSound
  <2>4. QED BY <1>1, <1>2, <2>1, <2>2, <2>3, FileMoves DEF Pieces
<1>4. CASE file.header
  <2> DEFINE chunks == Append(file.chunks, Whole[Len(file.chunks) + 1])
             y == [file EXCEPT !.chunks = chunks]
             x == IF Len(file.chunks) + 1 = Len(Whole) THEN [r EXCEPT !.pc = "verify"] ELSE r
  <2>1. files' = [files EXCEPT ![f] = y]
    BY <1>1, <1>4 DEF WritePiece, Files
  <2>2. run' = [run EXCEPT ![b] = x]
    BY <1>1, <1>2, <1>4 DEF WritePiece, RunRecord
  <2>3. x \in RunRecord /\ x.name = f /\ x.pc \in {"write", "verify"}
    BY <1>1 DEF RunRecord
  <2>4. \/ x.pc = "write" /\ chunks = <<Whole[1]>>
        \/ x.pc = "verify" /\ chunks = Whole
    <3>0. /\ Append(<<>>, Whole[1]) = <<Whole[1]>>
          /\ Append(<<Whole[1]>>, Whole[2]) = <<Whole[1], Whole[2]>>
      <4> DEFINE S == {Whole[1], Whole[2]}
                 p == Whole[1]
                 q == Whole[2]
      <4>1. p \in S /\ q \in S
        OBVIOUS
      <4> HIDE DEF S, p, q
      <4>2. Append(<<>>, p) = <<p>> /\ Append(<<p>>, q) = <<p, q>>
        BY <4>1, Appends
      <4>3. QED BY <4>2 DEF p, q
    <3>1. CASE file.chunks = <<>>
      <4>1. Len(file.chunks) = 0
        BY <3>1
      <4>2. x = r
        BY <4>1, WholeIs
      <4>3. chunks = Append(<<>>, Whole[1])
        BY <3>1, <4>1
      <4>4. QED BY <1>1, <3>0, <4>2, <4>3
    <3>2. CASE file.chunks = <<Whole[1]>>
      <4>1. Len(file.chunks) = 1
        BY <3>2
      <4>2. x.pc = "verify"
        BY <1>1, <4>1, WholeIs DEF RunRecord
      <4>3. chunks = Append(<<Whole[1]>>, Whole[2])
        BY <3>2, <4>1
      <4>4. chunks = <<Whole[1], Whole[2]>>
        BY <3>0, <4>3
      <4>5. QED BY <4>2, <4>4, WholeIs
    <3>3. QED BY <1>1, <3>1, <3>2
  <2>5. chunks \in Pieces
    BY <2>4 DEF Pieces
  <2> HIDE DEF chunks, x
  <2>6. y \in Files /\ y.chunks = chunks /\ y.dump = file.dump /\ y.this = file.this
        /\ y.header = file.header
    BY <1>1, <2>5, PiecesAreChunks DEF Files
  <2> HIDE DEF y
  <2>7. RunSound(b)'
    <3>1. run'[b] = x /\ files'[f] = y /\ y # None
      BY <1>1, <2>1, <2>2, <2>6, BackupAssumption
    <3>2. QED BY <1>1, <1>4, <2>3, <2>4, <2>6, <3>1 DEF RunSound, Complete
  <2>8. QED BY <1>1, <2>1, <2>2, <2>3, <2>5, <2>6, <2>7, FileMoves
<1>5. QED BY <1>3, <1>4

LEMMA BackupKeeps == ASSUME IInv, NEW b \in Backups, BackupStep(b) PROVE IInv'
<1>1. CASE Verify(b)
  <2>1. /\ run[b].name # None /\ Complete(files[run[b].name])
        /\ run' = [run EXCEPT ![b] = Idle] /\ UNCHANGED <<db, repo, files, migrate, restore, spoilt>>
        /\ verified' = verified \/ verified' = verified \cup {run[b].name}
    BY <1>1, BackupAssumption DEF Verify, IInv, RunsSound, RunSound
  <2>2. QED BY <2>1, RunEnds
<1>2. CASE Kill(b)
  <2>1. /\ run[b].pc \in {"dump", "write", "verify"} /\ RunSound(b)
        /\ run' = [run EXCEPT ![b] = Idle] /\ UNCHANGED <<db, repo, files, migrate, restore, verified>>
        /\ spoilt' = IF run[b].pc = "write" THEN spoilt \cup {run[b].name} ELSE spoilt
    BY <1>2 DEF Kill, IInv, TypeOK, RunRecord, RunsSound
  <2>2. QED BY <2>1, BackupAssumption, RunEnds DEF RunSound
<1>3. QED BY <1>1, <1>2, SnapshotKeeps, ReadTableKeeps, OpenFileKeeps, WritePieceKeeps DEF BackupStep

-----------------------------------------------------------------------------
(* Migrations, the site, and the files as they lie there *)

\* The database moves on, and what was read of it before stays sound.
LEMMA DatabaseMoves ==
    ASSUME IInv, db' \in Snapshots, DbSound', db'.applied <= repo, db.applied <= db'.applied,
           migrate' \in {migrate, None},
           UNCHANGED <<repo, files, run, restore, verified, spoilt>>
    PROVE  IInv'
<1>1. /\ db.applied \in Nat /\ db'.applied \in Nat
      /\ \A n \in Migrations : n <= db.applied => n <= db'.applied
  <2>1. Migrations \subseteq Nat
    BY MigrationsAre
  <2>2. db.applied \in Migrations /\ db'.applied \in Migrations
    BY DEF IInv, TypeOK, Snapshots
  <2> DEFINE old == db.applied
             new == db'.applied
  <2>3. old \in Nat /\ new \in Nat /\ old <= new
    BY <2>1, <2>2
  <2> HIDE DEF old, new
  <2>4. \A n \in Migrations : n <= old => n <= new
    BY <2>1, <2>3
  <2>5. QED BY <2>3, <2>4 DEF old, new
<1>2. TypeOK' /\ RunsApart' /\ FilesStay' /\ RestoreSound'
  BY DEF IInv, TypeOK, RunsApart, FilesStay, RestoreSound
<1>3. Asked'
  BY DEF IInv, Asked
<1>4. RunsSound'
  <2> SUFFICES ASSUME NEW b \in Backups PROVE RunSound(b)'
    BY DEF RunsSound
  <2>1. RunSound(b)
    BY DEF IInv, RunsSound
  <2>2. run[b].pc = "dump" => run[b].snapshot.applied \in Migrations
    BY <2>1 DEF RunSound, Partial, Snapshots
  <2>3. QED BY <1>1, <2>1, <2>2 DEF RunSound
<1>5. FilesSound'
  <2> SUFFICES ASSUME NEW f \in Names PROVE FileSound(f)'
    BY DEF FilesSound
  <2>1. FileSound(f) /\ (files[f] # None => files[f].dump.migrations \in Migrations)
    BY DEF IInv, FilesSound, TypeOK, Files, Dumps
  <2>2. QED BY <1>1, <2>1 DEF FileSound
<1>6. QED BY <1>2, <1>3, <1>4, <1>5 DEF IInv

LEMMA ApplyKeeps == ASSUME IInv, ApplyMigrations PROVE IInv'
<1>1. /\ db \in Snapshots /\ db.applied \in Migrations /\ repo \in Migrations /\ db.applied <= repo
      /\ db' = [db EXCEPT !.applied = repo] /\ RowsSound(db.applied, db.rows)
  BY DEF ApplyMigrations, IInv, TypeOK, DbSound, Snapshots
<1>2. db' \in Snapshots /\ db'.applied = repo /\ db'.rows = db.rows
  BY <1>1 DEF Snapshots
<1>3. DbSound'
  BY <1>1, <1>2, SoundLater DEF DbSound
<1>4. repo <= repo
  BY <1>1, MigrationsAre
<1>5. QED BY <1>1, <1>2, <1>3, <1>4, DatabaseMoves DEF ApplyMigrations

LEMMA SiteKeeps == ASSUME IInv, SiteWrites PROVE IInv'
<1>1. /\ db \in Snapshots /\ db.applied \in Migrations /\ db.applied <= repo
      /\ RowsSound(db.applied, db.rows) /\ db.applied <= db.applied
      /\ UNCHANGED <<repo, files, run, migrate, restore, verified, spoilt>>
  BY MigrationsAre DEF SiteWrites, IInv, TypeOK, DbSound, Snapshots
<1>2. PICK k \in Keys :
        \/ \E t \in Existing(db.applied) :
             /\ \A p \in Parents(t) : k \in db.rows[p]
             /\ db' = [db EXCEPT !.rows[t] = @ \cup {k}]
        \/ db' = [db EXCEPT !.rows = [t \in Tables |-> @[t] \ {k}]]
  BY DEF SiteWrites
<1>3. ASSUME NEW rows \in [Tables -> SUBSET Keys], RowsSound(db.applied, rows),
             db' = [db EXCEPT !.rows = rows]
      PROVE  IInv'
  <2>1. db' \in Snapshots /\ db'.applied = db.applied /\ db'.rows = rows
    BY <1>1, <1>3 DEF Snapshots
  <2>2. DbSound'
    BY <1>3, <2>1 DEF DbSound
  <2>3. QED BY <1>1, <2>1, <2>2, DatabaseMoves
<1>4. ASSUME NEW t \in Existing(db.applied), \A p \in Parents(t) : k \in db.rows[p],
             db' = [db EXCEPT !.rows[t] = @ \cup {k}]
      PROVE  IInv'
  <2> DEFINE rows == [db.rows EXCEPT ![t] = db.rows[t] \cup {k}]
  <2>1. db.rows \in [Tables -> SUBSET Keys] /\ t \in Tables
    BY <1>1, ExistingAre DEF Snapshots
  <2>2. db' = [db EXCEPT !.rows = rows]
    BY <1>1, <1>4, <2>1 DEF Snapshots
  <2>3. rows \in [Tables -> SUBSET Keys]
    BY <2>1
  <2>4. Closed(rows)
    <3> SUFFICES ASSUME NEW u \in Tables, NEW p \in Parents(u) PROVE rows[u] \subseteq rows[p]
      BY DEF Closed
    <3>1. p \in Tables /\ db.rows[u] \subseteq db.rows[p] /\ db.rows[p] \subseteq rows[p]
      BY <1>1, <2>1 DEF RowsSound, Closed, Parents
    <3>2. CASE u = t
      <4>1. k \in db.rows[p] /\ rows[u] = db.rows[u] \cup {k}
        BY <1>4, <2>1, <3>2
      <4>2. QED BY <3>1, <4>1
    <3>3. CASE u # t
      BY <2>1, <3>1, <3>3
    <3>4. QED BY <3>2, <3>3
  <2>5. RowsSound(db.applied, rows)
    BY <1>1, <2>1, <2>4 DEF RowsSound
  <2> HIDE DEF rows
  <2>6. QED BY <1>3, <2>2, <2>3, <2>5
<1>5. ASSUME db' = [db EXCEPT !.rows = [t \in Tables |-> @[t] \ {k}]] PROVE IInv'
  <2> DEFINE rows == [t \in Tables |-> db.rows[t] \ {k}]
  <2>1. db' = [db EXCEPT !.rows = rows] /\ db.rows \in [Tables -> SUBSET Keys]
    BY <1>1, <1>5 DEF Snapshots
  <2>2. rows \in [Tables -> SUBSET Keys]
    BY <2>1
  <2>3. RowsSound(db.applied, rows)
    BY <1>1 DEF RowsSound, Closed, Parents
  <2> HIDE DEF rows
  <2>4. QED BY <1>3, <2>1, <2>2, <2>3
<1>6. QED BY <1>2, <1>4, <1>5

LEMMA AskKeeps == ASSUME IInv, AskToMigrate \/ StopMigrating \/ Release PROVE IInv'
<1>1. /\ UNCHANGED <<db, files, run, restore, verified, spoilt>>
      /\ repo' = repo \/ (repo' = repo + 1 /\ repo < Len(Creates))
      /\ \/ migrate' \in {migrate, None}
         \/ migrate' \in Names /\ files[migrate'] # None /\ files[migrate'].this
  BY DEF AskToMigrate, StopMigrating, Release, IsRecentBackup
<1>2. repo' \in Migrations /\ db.applied <= repo'
  <2>1. /\ repo \in Nat /\ repo >= 1 /\ db.applied \in Nat /\ db.applied <= repo /\ repo \in Migrations
        /\ Len(Creates) \in Migrations /\ Len(Creates) \in Nat
    BY MigrationsAre DEF IInv, TypeOK, Snapshots, Migrations
  <2>2. CASE repo' = repo
    BY <2>1, <2>2
  <2>3. CASE repo' = repo + 1 /\ repo < Len(Creates)
    <3>1. repo' \in Nat /\ repo' >= 1 /\ repo' <= Len(Creates) /\ db.applied <= repo'
      BY <2>1, <2>3
    <3>2. QED BY <2>1, <3>1, MigrationsAre
  <2>4. QED BY <1>1, <2>2, <2>3
<1>3. TypeOK' /\ DbSound' /\ RunsApart' /\ FilesStay' /\ RestoreSound'
  BY <1>1, <1>2 DEF IInv, TypeOK, DbSound, RunsApart, FilesStay, RestoreSound
<1>4. Asked'
  BY <1>1 DEF IInv, Asked
<1>5. RunsSound' /\ FilesSound'
  BY <1>1 DEF IInv, RunsSound, RunSound, FilesSound, FileSound
<1>6. QED BY <1>3, <1>4, <1>5 DEF IInv

\* A file grows old, or is damaged and counted as such.
LEMMA FilesAge ==
    ASSUME IInv, files' \in [Names -> Files \cup {None}], spoilt' \subseteq Names,
           spoilt \subseteq spoilt',
           UNCHANGED <<db, repo, run, migrate, restore, verified>>,
           \A b \in Backups : run[b].name \notin spoilt' \ spoilt,
           \A f \in spoilt' : files[f] # None,
           \A f \in Names : files[f] = None => files'[f] = None,
           \A f \in Names : files[f] # None =>
              /\ files'[f] # None /\ files'[f].this = files[f].this
              /\ files'[f].header = files[f].header /\ files'[f].dump = files[f].dump
              /\ files'[f].chunks = files[f].chunks \/ (f \in spoilt' \ spoilt /\ files'[f].chunks \in Pieces)
    PROVE  IInv'
<1>1. TypeOK' /\ DbSound' /\ RunsApart' /\ RestoreSound'
  BY DEF IInv, TypeOK, DbSound, RunsApart, RestoreSound
<1>2. FilesStay' /\ Asked'
  BY DEF IInv, TypeOK, FilesStay, Asked
<1>3. RunsSound'
  <2> SUFFICES ASSUME NEW b \in Backups PROVE RunSound(b)'
    BY DEF RunsSound
  <2>1. RunSound(b)
    BY DEF IInv, RunsSound
  <2>2. QED BY <2>1 DEF RunSound, Complete
<1>4. FilesSound'
  <2> SUFFICES ASSUME NEW f \in Names PROVE FileSound(f)'
    BY DEF FilesSound
  <2>1. FileSound(f)
    BY DEF IInv, FilesSound
  <2>2. QED BY <2>1 DEF FileSound, Complete
<1>5. QED BY <1>1, <1>2, <1>3, <1>4 DEF IInv

LEMMA HourKeeps == ASSUME IInv, Hour PROVE IInv'
<1>1. files \in [Names -> Files \cup {None}] /\ spoilt \subseteq Names /\ None \notin Files
  BY BackupAssumption DEF IInv, TypeOK
<1>2. /\ files' = [f \in Names |-> IF files[f] = None THEN None ELSE [files[f] EXCEPT !.recent = FALSE]]
      /\ UNCHANGED <<db, repo, run, migrate, restore, verified, spoilt>>
  BY DEF Hour
<1>3. ASSUME NEW f \in Names, files[f] # None
      PROVE  /\ files'[f] \in Files /\ files'[f].this = files[f].this
             /\ files'[f].header = files[f].header /\ files'[f].dump = files[f].dump
             /\ files'[f].chunks = files[f].chunks
  <2> DEFINE y == [files[f] EXCEPT !.recent = FALSE]
  <2>1. files'[f] = y /\ files[f] \in Files
    BY <1>1, <1>2, <1>3
  <2>2. /\ y \in Files /\ y.this = files[f].this /\ y.header = files[f].header
        /\ y.dump = files[f].dump /\ y.chunks = files[f].chunks
    BY <2>1 DEF Files
  <2>3. QED BY <2>1, <2>2
<1>4. files' \in [Names -> Files \cup {None}]
  <2>1. \A f \in Names : files'[f] \in Files \cup {None}
    BY <1>2, <1>3
  <2>2. QED BY <1>2, <2>1
<1>5. QED BY <1>1, <1>2, <1>3, <1>4, FilesAge DEF IInv, FilesStay

LEMMA DamageKeeps == ASSUME IInv, NEW f \in Names, Damage(f) PROVE IInv'
<1>1. /\ files \in [Names -> Files \cup {None}] /\ spoilt \subseteq Names /\ None \notin Files
      /\ files[f] # None /\ f \notin spoilt /\ \A b \in Backups : run[b].name # f
      /\ spoilt' = spoilt \cup {f} /\ UNCHANGED <<db, repo, run, migrate, restore, verified>>
  BY BackupAssumption DEF Damage, IInv, TypeOK
<1>2. PICK c \in Pieces : files' = [files EXCEPT ![f].chunks = c]
  BY DEF Damage, Pieces
<1> DEFINE y == [files[f] EXCEPT !.chunks = c]
<1>3. files' = [files EXCEPT ![f] = y] /\ c \in Seq([index : Nat, last : BOOLEAN])
  BY <1>2, PiecesAreChunks
<1>4. /\ y \in Files /\ y.this = files[f].this /\ y.header = files[f].header
      /\ y.dump = files[f].dump /\ y.chunks = c
  BY <1>1, <1>3 DEF Files
<1> HIDE DEF y
<1>5. files' \in [Names -> Files \cup {None}] /\ files'[f] = y
      /\ \A g \in Names \ {f} : files'[g] = files[g]
  BY <1>1, <1>3, <1>4
<1>6. QED BY <1>1, <1>2, <1>4, <1>5, FilesAge DEF IInv, FilesStay

-----------------------------------------------------------------------------
(* Theorems *)

LEMMA InitialInvariant == Init => IInv
<1> SUFFICES ASSUME Init PROVE IInv
  OBVIOUS
<1>1. PICK keys \in SUBSET Keys :
        db = [applied |-> 1, rows |-> [t \in Tables |-> IF t \in Existing(1) THEN keys ELSE {}]]
  BY DEF Init
<1> DEFINE rows == [t \in Tables |-> IF t \in Existing(1) THEN keys ELSE {}]
<1>2. db.applied = 1 /\ db.rows = rows /\ db \in Snapshots /\ 1 \in Migrations
  BY <1>1, MigrationsAre DEF Snapshots
<1>3. RowsSound(1, rows)
  BY <1>2, ExistingAre DEF RowsSound, Closed, Parents
<1>4. DbSound
  BY <1>2, <1>3 DEF DbSound
<1>5. Idle \in RunRecord /\ Idle.name = None /\ Idle.pc = "idle"
      /\ NoRestore \in RestoreRecord /\ NoRestore.pc = "idle"
  BY DEF Idle, NoRestore, RunRecord, RestoreRecord
<1>6. TypeOK
  BY <1>2, <1>5 DEF Init, TypeOK
<1>7. RunsSound /\ RunsApart /\ FilesSound /\ FilesStay /\ Asked /\ RestoreSound
  BY <1>5 DEF Init, RunsSound, RunSound, RunsApart, FilesSound, FileSound, FilesStay, Asked, RestoreSound
<1>8. QED BY <1>4, <1>6, <1>7 DEF IInv

LEMMA InvariantKept == IInv /\ [Next]_vars => IInv'
<1> SUFFICES ASSUME IInv, [Next]_vars PROVE IInv'
  OBVIOUS
<1>1. CASE UNCHANGED vars
  BY <1>1, Untouched DEF vars, IInv, TypeOK, RestoreSound
<1>2. QED
  BY <1>1, BackupKeeps, AskKeeps, ApplyKeeps, RestoreKeeps, SiteKeeps, HourKeeps, DamageKeeps DEF Next

\* The invariant of db:backup, db:migrate and the restore: the rows of the database are closed
\* under its foreign keys, and a file belongs to one run until it is whole.
THEOREM Invariance == Spec => []IInv
<1>1. QED BY InitialInvariant, InvariantKept, PTL DEF Spec

\* Whatever was killed and however the site wrote meanwhile, a backup that decrypts holds every
\* table as they were at one instant, and one that was verified stays so (dump.ts, format.ts,
\* db-backup.mjs).
THEOREM BackupsHold == Spec => []FilesHold
<1>1. ASSUME IInv, NEW f \in Names, files[f] # None
      PROVE  /\ Decrypts(files[f]) <=> Complete(files[f])
             /\ FileSound(f)
  BY <1>1, DecryptsMeans DEF IInv, FilesSound, FileSound
<1>2. IInv => FilesAreSnapshots
  BY <1>1 DEF FilesAreSnapshots, Complete, FileSound, DumpSound, RowsSound
<1>3. IInv => VerifiedStays
  <2> SUFFICES ASSUME IInv, NEW f \in verified \ spoilt PROVE files[f] # None /\ Decrypts(files[f])
    BY DEF VerifiedStays
  <2>1. f \in Names /\ files[f] # None
    BY DEF IInv, TypeOK, FilesStay
  <2>2. \A b \in Backups : run[b].name # f
    <3> SUFFICES ASSUME NEW b \in Backups, run[b].name = f PROVE FALSE
      OBVIOUS
    <3>1. run[b].pc \in {"write", "verify"} /\ RunSound(b)
      BY <2>1, BackupAssumption DEF IInv, TypeOK, RunRecord, RunsSound, RunSound
    <3>2. QED BY <3>1 DEF RunSound
  <2>3. QED BY <1>1, <2>1, <2>2 DEF FileSound
<1>4. QED BY <1>2, <1>3, Invariance, PTL DEF FilesHold

\* A restore that ends well has given back exactly the rows of the backup, and one that fails
\* does so for a reason outside the file: the order of restoreOrder leaves no table without
\* its parents and never stops in a circle (dump.ts).
THEOREM RestoresAreExact == Spec => []RestoresWhatWasSaved
<1>1. IInv => RestoresWhatWasSaved
  <2> SUFFICES ASSUME IInv PROVE RestoresWhatWasSaved
    OBVIOUS
  <2>1. ASSUME restore.pc = "done" PROVE restore.target.rows = restore.dump.rows
    BY <2>1 DEF IInv, RestoreSound, Snapshots, Dumps
  <2>2. QED BY <2>1 DEF IInv, RestoreSound, RestoresWhatWasSaved
<1>2. QED BY <1>1, Invariance, PTL

\* The schema changes only while a backup of this database, no newer than it, is whole,
\* unless it was cut short, spoilt, or is being written still (db-migrate.mjs).
THEOREM MigrationsAreCovered == Spec => MigratedBehindABackup
<1> DEFINE Covered ==
      db'.applied # db.applied =>
         LET f == migrate IN
         /\ files[f].this /\ files[f].dump.migrations <= db.applied
         /\ Decrypts(files[f]) \/ f \in spoilt \/ \E b \in Backups : run[b].name = f
<1>1. IInv /\ [Next]_vars => Covered
  <2> SUFFICES ASSUME IInv, [Next]_vars, db'.applied # db.applied PROVE Covered
    OBVIOUS
  <2>1. ApplyMigrations
    <3>1. ~SiteWrites
      BY DEF SiteWrites, IInv, TypeOK, Snapshots
    <3>2. QED BY <3>1 DEF Next, vars, BackupStep, Snapshot, ReadTable, OpenFile, WritePiece, Verify, Kill,
               AskToMigrate, StopMigrating, RestoreStep, OpenBackup, FillTable, CommitRestore,
               EndRestore, Release, Hour, Damage
  <2>2. migrate \in Names /\ files[migrate] # None /\ files[migrate].this
    BY <2>1 DEF ApplyMigrations, IInv, TypeOK, Asked
  <2>3. FileSound(migrate)
    BY <2>2 DEF IInv, FilesSound
  <2>4. QED BY <2>2, <2>3, DecryptsMeans DEF FileSound
<1>2. QED BY <1>1, Invariance, PTL DEF Spec, MigratedBehindABackup

=============================================================================
