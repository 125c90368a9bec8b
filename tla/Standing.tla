------------------------------- MODULE Standing -------------------------------
(***************************************************************************)
(* Where a member of the Academy stands, src/lib/academy/standing.ts: the  *)
(* chapters they have completed, the levels they have finished and the     *)
(* steps that earns, as functions of the catalog, of the lessons they have *)
(* marked and of the checkpoints they have passed.                         *)
(*                                                                         *)
(* What is one lesson, chapter or course is fixed; which of them a catalog *)
(* has, and which are drafts or coming soon, changes from deployment to    *)
(* deployment.                                                             *)
(***************************************************************************)
EXTENDS Integers

CONSTANTS
    Lessons, Chapters, Courses,
    ChapterOf,      \* the chapter of a lesson
    CourseOf,       \* the course of a chapter
    LevelOf,        \* the level of a course
    BronzeLevels,   \* BRONZE_LEVELS
    Bronze          \* BRONZE_KEY; a level stands for its own step

Levels == {LevelOf[k] : k \in Courses}
Steps == Levels \cup BronzeLevels \cup {Bronze}

ASSUME StandingAssumption ==
    /\ ChapterOf \in [Lessons -> Chapters]
    /\ CourseOf \in [Chapters -> Courses]
    /\ LevelOf \in [Courses -> Nat]
    /\ BronzeLevels \subseteq Nat /\ BronzeLevels # {}
    /\ Bronze \notin Nat

\* A catalog: its chapters, the lessons that are written and those that are drafts, the
\* chapters that end in a checkpoint and the courses that are coming soon.
Catalog ==
    [chapters : SUBSET Chapters, written : SUBSET Lessons, drafts : SUBSET Lessons,
     tests : SUBSET Chapters, soon : SUBSET Courses]

ComingSoon(cat, c) == CourseOf[c] \in cat.soon

\* The lessons of a chapter that can be opened.
OpenLessons(cat, c) == {l \in cat.written : ChapterOf[l] = c /\ ~ComingSoon(cat, c)}

IsOpen(cat, l) == ChapterOf[l] \in cat.chapters /\ l \in OpenLessons(cat, ChapterOf[l])

LessonsDone(cat, c, completed) ==
    OpenLessons(cat, c) # {} /\ OpenLessons(cat, c) \subseteq completed

HasCheckpoint(cat, c) == c \in cat.tests /\ ~ComingSoon(cat, c)

\* Slip: the checkpoint of a chapter is not looked at.
SlipComplete(cat, c, completed, passed) == LessonsDone(cat, c, completed)

Complete(cat, c, completed, passed) ==
    LessonsDone(cat, c, completed) /\ (HasCheckpoint(cat, c) => c \in passed)

FullyWritten(cat, c) ==
    /\ \E l \in cat.written : ChapterOf[l] = c
    /\ \A l \in cat.drafts : ChapterOf[l] # c

\* The chapters that count for a level.
CountedFor(cat, n) ==
    {c \in cat.chapters : LevelOf[CourseOf[c]] = n /\ ~ComingSoon(cat, c)}

Finished(cat, n, completed, passed) ==
    /\ CountedFor(cat, n) # {}
    /\ \A c \in CountedFor(cat, n) :
         FullyWritten(cat, c) /\ Complete(cat, c, completed, passed)

FinishedLevels(cat, completed, passed) ==
    {n \in Levels : Finished(cat, n, completed, passed)}

\* The steps earned by what has been done.
EarnedSteps(cat, completed, passed) ==
    LET finished == FinishedLevels(cat, completed, passed) IN
    finished \cup (IF BronzeLevels \subseteq finished THEN {Bronze} ELSE {})

\* Slip: a level stored before does not count towards Bronze.
SlipStepsEarned(earned, stored) == earned

\* Levels stored before count towards Bronze, even if they have grown since.
StepsEarned(earned, stored) ==
    earned \cup (IF BronzeLevels \subseteq earned \cup stored THEN {Bronze} ELSE {})

\* The rules as the owner set them: every chapter of the level that counts has something
\* in it, everything in it is written and marked, and its checkpoint, if it has one, is
\* passed.
Deserves(cat, n, completed, passed) ==
    LET counted == {c \in cat.chapters : LevelOf[CourseOf[c]] = n /\ CourseOf[c] \notin cat.soon}
        lessons(c) == {l \in cat.written \cup cat.drafts : ChapterOf[l] = c} IN
    /\ counted # {}
    /\ \A c \in counted : /\ lessons(c) # {}
                          /\ lessons(c) \subseteq completed
                          /\ lessons(c) \cap cat.drafts = {}
    /\ counted \cap cat.tests \subseteq passed

\* The rank of a member who has these steps.
HasRank(steps) == Bronze \in steps
===============================================================================
