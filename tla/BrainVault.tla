------------------------------ MODULE BrainVault ------------------------------
(***************************************************************************)
(* The owner's Obsidian vault, rebuilt from the database by runs of        *)
(* scripts/brain-export.mjs: readBrain and readPictures of brain/read.ts,  *)
(* syncBrainFolder and syncBrainPictures of brain/vault.ts, with the site  *)
(* changing the member's picture meanwhile (Pictures).                     *)
(*                                                                         *)
(* A run is a process (scripts/brain-watch.mjs starts one every few        *)
(* minutes, and the owner may start another); a step is one call to the    *)
(* file system.  A file is what it holds: one being written stands for the *)
(* run that writes it.  The vault has one note, the member's, which names  *)
(* the member's picture.                                                   *)
(***************************************************************************)
EXTENDS Pictures, FiniteSets

CONSTANTS
    Runs,       \* runs of the export
    MaxRuns,    \* bound of the model: how many runs are started
    MaxCrashes  \* bound of the model: how many runs are killed

ASSUME VaultAssumption ==
    /\ Absent \notin Runs
    /\ Runs \cap Versions = {}
    /\ (Runs \cup Versions) \cap {"none", "bare", "mixed", "torn", "owner", "whole", "broken"} = {}
    /\ {MaxRuns, MaxCrashes} \subseteq Nat

VARIABLES
    note,     \* the member's note
    partial,  \* in the pictures folder: the temporary file of each picture
    final,    \* in the pictures folder: the file of each picture
    pc,       \* where each run stands
    run,      \* what it knows
    started,  \* how many runs were started
    crashes,  \* how many were killed
    overlap   \* history: two runs have been at work at once

folder == <<note, partial, final>>
counts == <<started, crashes, overlap>>
vaultVars == <<site, folder, pc, run, counts>>

\* The words of a note are those about the member's picture, or bare of one; two runs' words
\* may run together.  A note may also be missing, the owner's own, or emptied by a run that
\* was killed.
Notes == Versions \cup {"bare"}
Generated == Notes \cup {"mixed"}
File == {"none", "whole", "broken", "owner"} \cup Runs

\* A run: the note and the picture the database asked for, the entries of the pictures folder
\* still to be looked at, the pictures found in place or taken, the picture read, whether no
\* other run was at work beside it, and whether it has left its picture for the next run.
RunRecord ==
    [note : Notes \cup {"none"}, picture : Versions \cup {Absent},
     entries : SUBSET ({"partial", "final"} \X Versions), found : SUBSET Versions,
     bytes : Versions \cup {Absent}, alone : BOOLEAN, skipped : BOOLEAN]

NoRun == [note |-> "none", picture |-> Absent, entries |-> {}, found |-> {},
          bytes |-> Absent, alone |-> TRUE, skipped |-> FALSE]

\* The owner may have put things of their own in the places of the export's.
VaultInit ==
    /\ PicturesInit
    /\ note \in {"none", "owner"}
    /\ \E p, f \in {"none", "owner"}, v \in Versions :
         /\ partial = [w \in Versions |-> IF w = v THEN p ELSE "none"]
         /\ final = [w \in Versions |-> IF w = v THEN f ELSE "none"]
    /\ pc = [r \in Runs |-> "idle"]
    /\ run = [r \in Runs |-> NoRun]
    /\ started = 0 /\ crashes = 0 /\ overlap = FALSE

-----------------------------------------------------------------------------
(* Control *)

Go(r, at) == pc' = [pc EXCEPT ![r] = at]

Know(r, k) == run' = [run EXCEPT ![r] = k]

\* An error nobody catches ends the run.
Fail(r) == Go(r, "idle") /\ Know(r, NoRun)

AtWork(r) == pc[r] \notin {"idle", "done"}

\* buildBrain: the member's note.
Words(picture) == IF ~member THEN "none" ELSE IF picture = Absent THEN "bare" ELSE picture

\* readBrain: one statement, so the member and the picture's version belong together.  What
\* the last run reported is history.
Start(r) ==
    LET picture == IF image = Absent THEN Absent ELSE url
        others == {s \in Runs \ {r} : AtWork(s)} IN
    /\ ~AtWork(r)
    /\ started < MaxRuns
    /\ started' = started + 1
    /\ run' = [s \in Runs |->
         IF s = r THEN [NoRun EXCEPT !.note = Words(picture),
                                     !.picture = picture, !.alone = others = {}]
         ELSE IF s \in others THEN [run[s] EXCEPT !.alone = FALSE] ELSE NoRun]
    /\ pc' = [s \in Runs |-> IF s = r THEN "list" ELSE IF s \in others THEN pc[s] ELSE "idle"]
    /\ overlap' = (overlap \/ others # {})
    /\ UNCHANGED <<site, folder, crashes>>

-----------------------------------------------------------------------------
(* syncBrainFolder, for the one note *)

\* The notes are listed: one that is not wanted is looked into, one that is wanted is placed.
ListNotes(r) ==
    /\ pc[r] = "list"
    /\ Go(r, IF run[r].note # "none" THEN "place"
             ELSE IF note # "none" THEN "judge" ELSE "scan")
    /\ UNCHANGED <<site, folder, run, counts>>

\* Slip: any note that is not wanted is deleted.
SlipIsGenerated(content) == TRUE

\* isGenerated: the note begins with the export's marker.
IsGenerated(content) == content \in Generated

\* The export's own note goes; any other is kept.
JudgeNote(r) ==
    /\ pc[r] = "judge"
    /\ IF note = "none" THEN Fail(r)
       ELSE Go(r, IF IsGenerated(note) THEN "unlink" ELSE "scan") /\ UNCHANGED run
    /\ UNCHANGED <<site, folder, counts>>

UnlinkNote(r) ==
    /\ pc[r] = "unlink"
    /\ note' = "none"
    /\ IF note = "none" THEN Fail(r) ELSE Go(r, "scan") /\ UNCHANGED run
    /\ UNCHANGED <<site, partial, final, counts>>

\* What is in the note's place: nothing, the same words, the export's note, or another's.
PlaceNote(r) ==
    /\ pc[r] = "place"
    /\ Go(r, IF note = "none" THEN "create"
             ELSE IF IsGenerated(note) /\ note # run[r].note THEN "truncate" ELSE "scan")
    /\ UNCHANGED <<site, folder, run, counts>>

\* A new file, refused if there is one by now; or the old one, emptied.
OpenNote(r) ==
    /\ pc[r] \in {"create", "truncate"}
    /\ IF pc[r] = "create" /\ note # "none"
       THEN Fail(r) /\ UNCHANGED note
       ELSE note' = r /\ Go(r, "fill") /\ UNCHANGED run
    /\ UNCHANGED <<site, partial, final, counts>>

\* The words.  The file may be gone from under the run, or another run's by now.
FillNote(r) ==
    /\ pc[r] = "fill"
    /\ note' \in CASE note = r -> {run[r].note}
                   [] note = "none" -> {"none"}
                   [] OTHER -> {note, "mixed", run[r].note}
    /\ Go(r, "scan")
    /\ UNCHANGED <<site, partial, final, run, counts>>

-----------------------------------------------------------------------------
(* syncBrainPictures *)

\* The entries of the pictures folder.
ScanPictures(r) ==
    /\ pc[r] = "scan"
    /\ Know(r, [run[r] EXCEPT !.entries =
         {e \in {"partial", "final"} \X Versions :
            (IF e[1] = "partial" THEN partial[e[2]] ELSE final[e[2]]) # "none"}])
    /\ Go(r, "entries")
    /\ UNCHANGED <<site, folder, counts>>

\* Slip: a write that never finished is left where it is.
SlipIsPartial(v) == FALSE

\* A plain file under the name of a temporary one.
IsPartial(v) == partial[v] # "owner"

\* A temporary file is cleared away, whoever writes it; something else in its place is kept.
ClearPartial(r, v) ==
    /\ pc[r] = "entries"
    /\ <<"partial", v>> \in run[r].entries
    /\ IF partial[v] = "none" THEN Fail(r) /\ UNCHANGED partial
       ELSE /\ partial' = IF IsPartial(v) THEN [partial EXCEPT ![v] = "none"] ELSE partial
            /\ Know(r, [run[r] EXCEPT !.entries = @ \ {<<"partial", v>>}])
            /\ UNCHANGED pc
    /\ UNCHANGED <<site, note, final, counts>>

\* Slip: a file in the way of nothing wanted is deleted unread.
SlipIsPicture(v) == TRUE

\* The bytes of the file hash to its name.
IsPicture(v) == final[v] = "whole"

\* A picture in place is left; one no longer wanted goes; what is not the export's stays.
JudgePicture(r, v) ==
    LET wanted == run[r].picture = v IN
    /\ pc[r] = "entries"
    /\ <<"final", v>> \in run[r].entries
    /\ IF final[v] = "none" THEN Fail(r) /\ UNCHANGED final
       ELSE /\ final' = IF IsPicture(v) /\ ~wanted THEN [final EXCEPT ![v] = "none"] ELSE final
            /\ Know(r, [run[r] EXCEPT !.entries = @ \ {<<"final", v>>},
                                      !.found = IF wanted THEN @ \cup {v} ELSE @])
            /\ UNCHANGED pc
    /\ UNCHANGED <<site, note, partial, counts>>

\* The picture goes to the next run, and this one is done.
Skip(r) == Go(r, "done") /\ Know(r, [run[r] EXCEPT !.skipped = TRUE])

\* Slip: the bytes read are not compared with the version.
SlipIsWanted(v) == image # Absent

\* readPictures answers with the picture of now: it must still be the one wanted.
IsWanted(v) == image = v

\* The missing picture is read.
ReadPicture(r) ==
    LET v == run[r].picture IN
    /\ pc[r] = "entries"
    /\ run[r].entries = {}
    /\ IF v \in run[r].found \cup {Absent} THEN Go(r, "done") /\ UNCHANGED run
       ELSE IF IsWanted(v) THEN Go(r, "open") /\ Know(r, [run[r] EXCEPT !.bytes = image])
       ELSE Skip(r)
    /\ UNCHANGED <<site, folder, counts>>

\* writeFlushed creates the temporary file, refused if something is in its place.
OpenPartial(r) ==
    LET v == run[r].picture IN
    /\ pc[r] = "open"
    /\ IF partial[v] # "none" THEN Skip(r) /\ UNCHANGED partial
       ELSE partial' = [partial EXCEPT ![v] = r] /\ Go(r, "flush") /\ UNCHANGED run
    /\ UNCHANGED <<site, note, final, counts>>

\* The bytes go to the file, under whatever name it has by now.
Written(files, r) ==
    [v \in Versions |-> IF files[v] # r THEN files[v]
                        ELSE IF run[r].bytes = v THEN "whole" ELSE "broken"]

FlushPartial(r) ==
    /\ pc[r] = "flush"
    /\ partial' = Written(partial, r)
    /\ final' = Written(final, r)
    /\ Go(r, "check")
    /\ UNCHANGED <<site, note, run, counts>>

\* Something is in the picture's place by now: the temporary file goes.
CheckFinal(r) ==
    LET v == run[r].picture IN
    /\ pc[r] = "check"
    /\ IF final[v] = "none" THEN Go(r, "rename") /\ UNCHANGED <<partial, run>>
       ELSE /\ partial' = [partial EXCEPT ![v] = "none"]
            /\ IF partial[v] = "none" THEN Fail(r) ELSE Skip(r)
    /\ UNCHANGED <<site, note, final, counts>>

\* The temporary file, whichever is there, takes the picture's name.  If another run took it
\* away, the picture is in place or is left for the next run.
RenamePartial(r) ==
    LET v == run[r].picture IN
    /\ pc[r] = "rename"
    /\ IF partial[v] # "none"
       THEN /\ final' = [final EXCEPT ![v] = partial[v]]
            /\ partial' = [partial EXCEPT ![v] = "none"]
            /\ Go(r, "done")
            /\ UNCHANGED run
       ELSE /\ IF final[v] = "whole" THEN Go(r, "done") /\ UNCHANGED run ELSE Skip(r)
            /\ UNCHANGED <<partial, final>>
    /\ UNCHANGED <<site, note, counts>>

-----------------------------------------------------------------------------
(* The surroundings *)

Broken(files, r) == [v \in Versions |-> IF files[v] = r THEN "broken" ELSE files[v]]

\* A run is killed, or the power is cut: what it was writing stays as it was.
Kill(r) ==
    /\ AtWork(r)
    /\ crashes < MaxCrashes
    /\ crashes' = crashes + 1
    /\ note' = IF note = r THEN "torn" ELSE note
    /\ partial' = Broken(partial, r)
    /\ final' = Broken(final, r)
    /\ Fail(r)
    /\ UNCHANGED <<site, started, overlap>>

NoteStep(r) ==
    ListNotes(r) \/ JudgeNote(r) \/ UnlinkNote(r) \/ PlaceNote(r) \/ OpenNote(r) \/ FillNote(r)

PictureStep(r) ==
    \/ ScanPictures(r) \/ ReadPicture(r)
    \/ \E v \in Versions : ClearPartial(r, v) \/ JudgePicture(r, v)
    \/ OpenPartial(r) \/ FlushPartial(r) \/ CheckFinal(r) \/ RenamePartial(r)

VaultNext ==
    \/ PicturesNext /\ UNCHANGED <<folder, pc, run, counts>>
    \/ \E r \in Runs : Start(r) \/ NoteStep(r) \/ PictureStep(r) \/ Kill(r)

VaultSpec == VaultInit /\ [][VaultNext]_vaultVars

-----------------------------------------------------------------------------
(* Properties *)

\* Types, those of the site among them.
VaultTypeOK ==
    /\ PicturesTypeOK
    /\ note \in Generated \cup {"none", "torn", "owner"} \cup Runs
    /\ partial \in [Versions -> File]
    /\ final \in [Versions -> File]
    /\ pc \in [Runs -> {"idle", "list", "judge", "unlink", "place", "create", "truncate",
         "fill", "scan", "entries", "open", "flush", "check", "rename", "done"}]
    /\ run \in [Runs -> RunRecord]
    /\ started \in 0..MaxRuns /\ crashes \in 0..MaxCrashes /\ overlap \in BOOLEAN

\* Neither a run that stops halfway nor a power cut leaves a broken file under a picture's name.
NoBrokenPicture == \A v \in Versions : final[v] # "broken"

\* That holds as long as no two runs have been at work at once.
BrokenOnlyByTwo == overlap \/ NoBrokenPicture

\* What a run that had the folder to itself leaves is what a rebuild from scratch would give:
\* the note the database asked for, its picture and no other, nothing unfinished; but for what
\* is the owner's, what it left for the next run, and what a killed run has spoilt.
AsRebuilt(r) ==
    /\ note \in {run[r].note, "owner", "torn"}
    /\ \A v \in Versions :
         /\ partial[v] \in {"none", "owner"}
         /\ v # run[r].picture => final[v] \in {"none", "owner", "broken"}
         /\ v = run[r].picture /\ final[v] = "none" => run[r].skipped

FolderRebuilt ==
    /\ VaultTypeOK /\ BrokenOnlyByTwo
    /\ \A r \in Runs : pc[r] = "done" /\ run[r].alone => AsRebuilt(r)

\* The export never changes, deletes or replaces what the owner put there.
OwnersKept ==
    [][/\ note = "owner" => note' = "owner"
       /\ \A v \in Versions : /\ partial[v] = "owner" => partial'[v] = "owner"
                              /\ final[v] = "owner" => final'[v] = "owner"]_vaultVars
=============================================================================
