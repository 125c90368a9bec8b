----------------------------- MODULE MCBrainNotes -----------------------------
(* Two courses, three chapters and a checkpoint; an edit changes one entry. *)
EXTENDS AcademyPages

CONSTANTS ann, bob, v1, v2

MCMembers == {ann, bob}
MCVersions == {v1, v2}
MCMemberName == <<"member-1", "member-2", "member-3">>
MCHyphenated == [d \in {"con"} |-> "con-"]
MCUsernames == {"ann", "con"}
MCNames ==
    MCUsernames \cup {"member-1", "member-2", "member-3", "con-", "l1", "l2", "l3", "c1", "c2", "c3", "k1", "k2",
      "bronze", "no-rank"}

File(id) == [numbered |-> TRUE, header |-> TRUE, id |-> id, fine |-> TRUE, draft |-> FALSE, checks |-> <<>>]
Folder(id, files, test) ==
    [numbered |-> TRUE, header |-> TRUE, id |-> id, fine |-> TRUE, files |-> files, test |-> test]
Shelf(id, soon, chapters) ==
    [numbered |-> TRUE, header |-> TRUE, id |-> id, fine |-> TRUE, soon |-> soon, chapters |-> chapters]
Test(reread) == [header |-> TRUE, pass |-> None, questions |-> <<Question(3, 1, reread)>>]

MCLevelOf == [k \in {"k1", "k2"} |-> IF k = "k1" THEN 1 ELSE 2]
MCLevelStep == <<"level-1", "level-2">>

MCTree ==
    <<Shelf("k1", FALSE, <<Folder("c1", <<File("l1"), File("con")>>, Test("l1"))>>),
      Shelf("k2", TRUE, <<Folder("c2", <<File("l2")>>, None)>>)>>

\* One field of an entry changed.
Changed(e, ids) ==
    {[e EXCEPT !.numbered = FALSE], [e EXCEPT !.header = FALSE], [e EXCEPT !.fine = FALSE]}
      \cup {[e EXCEPT !.id = id] : id \in ids \cup ReservedIds \cup {BadId}}

FileEdits(f) ==
    Changed(f, LessonIds) \cup {[f EXCEPT !.draft = ~@]}
      \cup {[f EXCEPT !.checks = <<q>>] : q \in {Question(1, 1, None), Question(2, 1, None), Question(4, 2, None)}}

Tests ==
    {None, Test("l1"), Test("l3"), [Test(None) EXCEPT !.questions = <<>>],
     [Test(None) EXCEPT !.pass = 2], [Test(None) EXCEPT !.header = FALSE]}

FolderEdits(c) ==
    Changed(c, ChapterIds) \cup {[c EXCEPT !.test = t] : t \in Tests}
      \cup {[c EXCEPT !.files = RemoveAt(@, k)] : k \in DOMAIN c.files}
      \cup UNION {{[c EXCEPT !.files[k] = f] : f \in FileEdits(c.files[k])} : k \in DOMAIN c.files}
      \cup (IF Len(c.files) = 2 THEN {} ELSE {[c EXCEPT !.files = Append(@, File(id))] : id \in LessonIds})

ShelfEdits(k) ==
    Changed(k, CourseIds) \cup {[k EXCEPT !.soon = ~@]}
      \cup {[k EXCEPT !.chapters = RemoveAt(@, j)] : j \in DOMAIN k.chapters}
      \cup UNION {{[k EXCEPT !.chapters[j] = c] : c \in FolderEdits(k.chapters[j])} : j \in DOMAIN k.chapters}

MCTrees == UNION {{[MCTree EXCEPT ![i] = k] : k \in ShelfEdits(MCTree[i])} : i \in DOMAIN MCTree}
=============================================================================
