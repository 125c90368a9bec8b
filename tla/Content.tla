------------------------------- MODULE Content -------------------------------
(***************************************************************************)
(* The Academy's lessons as the owner keeps them, a tree of folders and    *)
(* files, and loadCatalog of src/lib/academy/content.ts, which turns the   *)
(* tree into the catalog of courses, chapters and lessons or says what is  *)
(* wrong with it.                                                          *)
(*                                                                         *)
(* A folder is the sequence of its entries in the order of their names.    *)
(* Of an entry remain: whether its name begins with a number, whether the  *)
(* header of its file can be read, the id written there, and whether the   *)
(* rest of the header is in order.                                         *)
(***************************************************************************)
EXTENDS Integers, SequencesExt

CONSTANTS
    LessonIds, ChapterIds, CourseIds,   \* ids of the right shape
    ReservedIds,                        \* RESERVED_IDS
    BadId,                              \* an id of the wrong shape, or none at all
    None

Ids == LessonIds \cup ChapterIds \cup CourseIds \cup ReservedIds \cup {BadId}

\* A question of a checkpoint or a quick check: its options, those ticked, the lesson to
\* read again.
Question(options, ticked, reread) == [options |-> options, ticked |-> ticked, reread |-> reread]

-----------------------------------------------------------------------------
(* What one file says *)

\* requireId
GoodId(id) == id \in Ids \ (ReservedIds \cup {BadId})

\* parseOptions: two to six options, exactly one of them ticked.
QuestionFine(q) == q.options \in 2..6 /\ q.ticked = 1

\* Four questions of five, unless the file says otherwise.
PassMark(test) ==
    IF test.pass = None THEN (Len(test.questions) * 4 + 4) \div 5 ELSE test.pass

\* parseCheckpoint: without a readable header or a question there is no checkpoint.
Parsed(test) == IF test = None \/ ~test.header \/ test.questions = <<>> THEN None ELSE test

TestFine(test) ==
    test # None =>
        /\ Parsed(test) # None
        /\ \A i \in DOMAIN test.questions : QuestionFine(test.questions[i])
        /\ PassMark(test) \in 1..Len(test.questions)

\* splitLesson: the quick checks of a lesson.
ChecksFine(f) == \A i \in DOMAIN f.checks : QuestionFine(f.checks[i])

LessonFine(f) == GoodId(f.id) /\ f.fine /\ ChecksFine(f)

-----------------------------------------------------------------------------
(* loadCatalog *)

\* A folder of so many entries.
Listing(entries) == Len(entries) \in Nat /\ DOMAIN entries = 1..Len(entries)

\* Folders in folders.
FilesShaped(tree) ==
    Listing(tree) /\ \A i \in DOMAIN tree :
        Listing(tree[i].chapters) /\ \A j \in DOMAIN tree[i].chapters : Listing(tree[i].chapters[j].files)

\* The entries that are read at all; each of the others is a problem.
Read(entries) == {i \in DOMAIN entries : entries[i].numbered /\ entries[i].header}

Lesson(f) == [id |-> f.id, draft |-> f.draft]

\* A folder without its file is one whose header cannot be read.
Chapter(e, number) ==
    [id |-> e.id, number |-> number, lessons |-> [k \in Read(e.files) |-> Lesson(e.files[k])],
     test |-> Parsed(e.test)]

\* A chapter's place is its course's and its own within it, a lesson's its chapter's and its own.
ChapterFiles(tree) == UNION {{i} \X Read(tree[i].chapters) : i \in Read(tree)}

Earlier(p, q) == p[1] < q[1] \/ (p[1] = q[1] /\ p[2] < q[2])

\* Chapters are numbered through all the courses.
Number(tree, p) == 1 + Cardinality({q \in ChapterFiles(tree) : Earlier(q, p)})

Course(tree, i) ==
    [id |-> tree[i].id, soon |-> tree[i].soon,
     chapters |-> [j \in Read(tree[i].chapters) |-> Chapter(tree[i].chapters[j], Number(tree, <<i, j>>))]]

Courses(tree) == [i \in Read(tree) |-> Course(tree, i)]

ChapterPlaces(courses) == UNION {{i} \X DOMAIN courses[i].chapters : i \in DOMAIN courses}
ChapterAt(courses, p) == courses[p[1]].chapters[p[2]]

LessonPlaces(courses) == UNION {{p} \X DOMAIN ChapterAt(courses, p).lessons : p \in ChapterPlaces(courses)}
LessonAt(courses, p) == ChapterAt(courses, p[1]).lessons[p[2]]

ChaptersOf(courses) == {ChapterAt(courses, p) : p \in ChapterPlaces(courses)}
IdsIn(courses) == {LessonAt(courses, p).id : p \in LessonPlaces(courses)}

IdsOf(things) == [i \in DOMAIN things |-> things[i].id]

\* Slip: the ids of the lessons of one chapter are compared, not those of all.
SlipIdsDiffer(courses) ==
    /\ IsInjective(IdsOf(courses))
    /\ IsInjective([p \in ChapterPlaces(courses) |-> ChapterAt(courses, p).id])
    /\ \A c \in ChaptersOf(courses) : IsInjective(IdsOf(c.lessons))

\* courseIds, chapters, lessons: no id is used twice.
IdsDiffer(courses) ==
    /\ IsInjective(IdsOf(courses))
    /\ IsInjective([p \in ChapterPlaces(courses) |-> ChapterAt(courses, p).id])
    /\ IsInjective([p \in LessonPlaces(courses) |-> LessonAt(courses, p).id])

\* A checkpoint sends members back to lessons that exist.
RereadsExist(courses) ==
    LET ids == IdsIn(courses) IN
    \A c \in ChaptersOf(courses) : c.test # None =>
        \A i \in DOMAIN c.test.questions : c.test.questions[i].reread \in ids \cup {None}

\* Every entry can be read and is in order.
EntriesFine(tree) ==
    \A i \in DOMAIN tree :
        /\ i \in Read(tree) /\ GoodId(tree[i].id) /\ tree[i].fine
        /\ \A j \in DOMAIN tree[i].chapters :
             LET e == tree[i].chapters[j] IN
             /\ j \in Read(tree[i].chapters) /\ GoodId(e.id) /\ e.fine /\ TestFine(e.test)
             /\ \A k \in DOMAIN e.files : k \in Read(e.files) /\ LessonFine(e.files[k])

\* No problem is found; otherwise a ContentError lists them and there is no catalog.
Loads(tree) == EntriesFine(tree) /\ IdsDiffer(Courses(tree)) /\ RereadsExist(Courses(tree))

\* isOpen: a lesson that members can open.
Open(courses, id) ==
    \E p \in LessonPlaces(courses) :
        LessonAt(courses, p).id = id /\ ~LessonAt(courses, p).draft /\ ~courses[p[1][1]].soon
=============================================================================
