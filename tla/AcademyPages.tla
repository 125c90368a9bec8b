---------------------------- MODULE AcademyPages ----------------------------
(***************************************************************************)
(* What the site's pages show a member and where they lead: the standing   *)
(* of src/lib/academy/standing.ts on the catalog the site serves, the      *)
(* Academy's pages drawn from it, and the pages that send a visitor on     *)
(* (signed out, or without a username) instead of answering.               *)
(*                                                                         *)
(* A page is what it is and what it is about.  Which checkpoints a member  *)
(* has passed and which steps are stored is any of the possible; which     *)
(* lessons are marked, and when, is BrainNotes' state.                     *)
(***************************************************************************)
EXTENDS BrainNotes

CONSTANTS
    LevelOf,        \* the level of a course
    LevelStep,      \* levelStepKey, for the levels that make the rank
    Weeks,          \* PROGRESS_WEEKS
    ActiveDays,     \* the days counted as active ones
    FirstWeekday    \* the weekday of day 0, Monday being 0

ASSUME AcademyPagesAssumption ==
    /\ LevelOf \in [CourseIds -> Nat]
    /\ DOMAIN LevelStep \subseteq Nat /\ IsInjective(LevelStep) /\ Bronze \notin Range(LevelStep)
    /\ Weeks \in Nat /\ ActiveDays \in 1..Weeks * 7 /\ FirstWeekday \in 0..6
    /\ {"unknown", "signed out"} \cap Members = {}

-----------------------------------------------------------------------------
(* standing *)

\* ChapterStanding: open are the lessons that can be opened, left those of them not done.
Entry(place, k, c, done, passed) ==
    LET open == {l \in DOMAIN c.lessons : ~k.soon /\ ~c.lessons[l].draft}
        test == c.test # None /\ ~k.soon IN
    [place |-> place, chapter |-> c, course |-> k, open |-> open, left |-> {l \in open : c.lessons[l].id \notin done},
     test |-> test, passed |-> test /\ c.id \in passed,
     written |-> DOMAIN c.lessons # {} /\ \A l \in DOMAIN c.lessons : ~c.lessons[l].draft]

LessonId(e, l) == e.chapter.lessons[l].id

LessonsDone(e) == e.open # {} /\ e.left = {}

IsComplete(e) == LessonsDone(e) /\ (e.test => e.passed)

Standing(courses, done, passed) ==
    {Entry(p, courses[p[1]], ChapterAt(courses, p), done, passed) : p \in ChapterPlaces(courses)}

Of(entries, id) == CHOOSE e \in entries : e.chapter.id = id

FirstOf(some) == {e \in some : \A x \in some \ {e} : Earlier(e.place, x.place)}

\* Slip: only lessons are looked for, so no one is led to a checkpoint.
SlipNextUp(entries) == FirstOf({e \in entries : e.left # {}})

\* The first chapter with something in it that is not complete, if there is one.
NextUp(entries) == FirstOf({e \in entries : e.open # {} /\ ~IsComplete(e)})

\* The chapters that count for a level.
Counted(entries, n) == {e \in entries : LevelOf[e.course.id] = n /\ ~e.course.soon}

LevelsComplete(entries) ==
    {n \in DOMAIN LevelStep :
       /\ Counted(entries, n) # {}
       /\ \A e \in Counted(entries, n) : e.written /\ IsComplete(e)}

-----------------------------------------------------------------------------
(* What the pages show *)

ChapterStatus(e) ==
    IF e.open = {} THEN "coming soon"
    ELSE IF IsComplete(e) THEN "complete"
    ELSE IF LessonsDone(e) /\ e.test THEN "checkpoint ready"
    ELSE IF e.left # e.open THEN "in progress"
    ELSE "not started"

\* The lessons to go before a checkpoint opens.
Remaining(e) == Cardinality(e.left)

\* The row of a chapter's page that is marked as the one to go on with.
Current(e, l) == l \in e.left /\ l = Min(e.left)

\* loadAcademy: the steps stored, and those earned and not yet stored.
StepsShown(finished, stored) ==
    stored \cup {LevelStep[n] : n \in finished} \cup
      (IF DOMAIN LevelStep \subseteq finished THEN {Bronze} ELSE {})

\* RankCard: of a level's chapters so many are complete.
ChaptersDone(entries, n) == Cardinality({e \in Counted(entries, n) : IsComplete(e)})

\* RanksView: the line of a level, and the sentence about the rank.
LevelLine(entries, steps, n) ==
    IF LevelStep[n] \in steps THEN <<"complete">>
    ELSE IF \A e \in entries : LevelOf[e.course.id] # n THEN <<"to be written">>
    ELSE <<"chapters", ChaptersDone(entries, n), Cardinality(Counted(entries, n))>>

RankSaid(steps, linked) ==
    IF Bronze \notin steps THEN "to earn" ELSE IF linked THEN "held" ELSE "to claim"

\* activityByDay, from the first day loadActivity asks for.
Activity(m) ==
    [d \in (day - Weeks * 7)..day |-> Cardinality({c \in DoneBy(m) : c.day = d})]

Weekday(d) == (FirstWeekday + d) % 7

\* Slip: the weeks are counted back from today, not from its Monday.
SlipHeatmapStart == day - Weeks * 7 - Weekday(day)

HeatmapStart == day - (Weekday(day) + (Weeks - 1) * 7)

DayAt(week, weekday) == HeatmapStart + week * 7 + weekday

\* Columns of weeks, Monday at the top; a day that has not come has no cell.
Heatmap ==
    [cell \in {c \in (0..(Weeks - 1)) \X (0..6) : DayAt(c[1], c[2]) <= day} |-> DayAt(cell[1], cell[2])]

-----------------------------------------------------------------------------
(* Where the pages lead *)

Dashboard == <<"dashboard">>
Settings == <<"settings">>
Onboarding == <<"onboarding">>
Home == <<"academy">>
Progress == <<"progress">>
RanksPage == <<"ranks">>
ChapterPage(e) == <<"chapter", e.chapter.id>>
LessonPage(e, l) == <<"lesson", e.chapter.id, LessonId(e, l)>>
CheckpointPage(e) == <<"checkpoint", e.chapter.id>>
SignInPage(next) == <<"sign-in", next>>

\* The page is there; otherwise it answers "not found".
Found(entries, page) ==
    /\ page[1] = "chapter" => \E e \in entries : page = ChapterPage(e)
    /\ page[1] = "checkpoint" => \E e \in entries : e.test /\ page = CheckpointPage(e)
    /\ page[1] = "lesson" => \E e \in entries : \E l \in e.open : page = LessonPage(e, l)

\* AppShell and AcademyTabs
Frame == {Dashboard, Settings, Home, Progress}

GoOn(e) == IF e.left # {} THEN LessonPage(e, Min(e.left)) ELSE CheckpointPage(e)

\* The page that "Continue" leads to, if there is one.
Continue(entries) == {GoOn(e) : e \in NextUp(entries)}

\* The cards and rows of the chapters that have something open.
ChapterCards(entries) == {ChapterPage(e) : e \in {x \in entries : x.open # {}}}

HomeLinks(entries) == Continue(entries) \cup ChapterCards(entries)

LessonRows(e) == {LessonPage(e, l) : l \in e.open}

CheckpointCard(e) == IF e.test /\ LessonsDone(e) THEN {CheckpointPage(e)} ELSE {}

ChapterLinks(e) == LessonRows(e) \cup CheckpointCard(e)

\* Down the side of a lesson: the chapter, its lessons, and its checkpoint once they are done.
Rail(e) == {ChapterPage(e)} \cup ChapterLinks(e)

\* The next lesson of the chapter; after the last the checkpoint, unless it is passed.
After(e, id) ==
    LET later == {l \in e.open : \E k \in e.open : k < l /\ LessonId(e, k) = id} IN
    IF later # {} THEN LessonPage(e, Min(later))
    ELSE IF e.test /\ ~e.passed THEN CheckpointPage(e) ELSE Home

LessonLinks(e, id) == {After(e, id)} \cup Rail(e)

Wanted(e) == {e.chapter.test.questions[i].reread : i \in DOMAIN e.chapter.test.questions}

\* Slip: a lesson to read again is linked to although it cannot be opened.
SlipRereads(entries, e) ==
    UNION {{LessonPage(x, l) : l \in {k \in DOMAIN x.chapter.lessons : LessonId(x, k) \in Wanted(e)}} : x \in entries}

\* The lessons a wrong answer leads back to, if they can be opened.
Rereads(entries, e) ==
    UNION {{LessonPage(x, l) : l \in {k \in x.open : LessonId(x, k) \in Wanted(e)}} : x \in entries}

CheckpointLinks(entries, e) ==
    {ChapterPage(e)} \cup (IF LessonsDone(e) THEN Rereads(entries, e) ELSE {})

RankCardLinks == {RanksPage, Settings}

Links(entries, page) ==
    Frame \cup
    (IF page = Home THEN HomeLinks(entries)
     ELSE IF page[1] = "chapter" THEN ChapterLinks(Of(entries, page[2]))
     ELSE IF page[1] = "lesson" THEN LessonLinks(Of(entries, page[2]), page[3])
     ELSE IF page[1] = "checkpoint" THEN CheckpointLinks(entries, Of(entries, page[2]))
     ELSE IF page = Progress THEN RankCardLinks ELSE {})

\* Where a page sends a visitor on to, or the page itself if it answers.
RequireMember(visitor, page) ==
    IF visitor = "unknown" THEN page
    ELSE IF visitor = "signed out" THEN SignInPage(page)
    ELSE IF accounts[visitor].username = None THEN Onboarding ELSE page

OnboardingPage(visitor) ==
    IF visitor = "unknown" THEN Onboarding
    ELSE IF visitor = "signed out" THEN SignInPage(Onboarding)
    ELSE IF accounts[visitor].username # None THEN Dashboard ELSE Onboarding

Sent(visitor, page) ==
    CASE page[1] = "sign-in" -> page
      [] page = Onboarding -> OnboardingPage(visitor)
      [] OTHER -> RequireMember(visitor, page)

-----------------------------------------------------------------------------
(* Properties *)

Checkpoints == {c.id : c \in {x \in ChaptersOf(served) : x.test # None}}
Done(m) == {c.lesson : c \in DoneBy(m)}
Stored == {s \in SUBSET (Range(LevelStep) \cup {Bronze}) : Bronze \in s => Range(LevelStep) \subseteq s}

\* "Continue" leads to what a member can do next, past nothing they could do before, and is
\* not there only when everything that can be opened is done.
ContinueLeads(m, entries) ==
    /\ Continue(entries) = {} =>
         \A e \in entries : e.open # {} =>
            {LessonId(e, l) : l \in e.open} \subseteq Done(m) /\ (e.test => e.passed)
    /\ \A page \in Continue(entries) :
         /\ Continue(entries) = {page} /\ Found(entries, page)
         /\ \A e \in entries :
              e.chapter.number < Of(entries, page[2]).chapter.number /\ e.open # {} => IsComplete(e)
         /\ page[1] = "lesson" => page[3] \notin Done(m) /\ Open(served, page[3])
         /\ page[1] = "checkpoint" =>
              LessonsDone(Of(entries, page[2])) /\ ~Of(entries, page[2]).passed

\* A level that is complete now has no lesson left to write or to do and no chapter that says
\* otherwise; one whose line counts every chapter has lessons still to be written; and to
\* whomever the rank is said to be held, or there to claim, every level is shown as complete.
LevelsShown(m, entries) ==
    LET complete == LevelsComplete(entries) IN
    /\ \A n \in complete : \A e \in Counted(entries, n) :
         /\ {LessonId(e, l) : l \in DOMAIN e.chapter.lessons} \subseteq Done(m)
         /\ ChapterStatus(e) = "complete"
    /\ \A stored \in Stored : \A n \in DOMAIN LevelStep :
         LET steps == StepsShown(complete, stored)
             line == LevelLine(entries, steps, n) IN
         /\ line[1] = "chapters" /\ line[2] = line[3] /\ line[3] > 0 =>
              \E e \in Counted(entries, n) : \E l \in DOMAIN e.chapter.lessons : e.chapter.lessons[l].draft
         /\ (\E linked \in BOOLEAN : RankSaid(steps, linked) # "to earn") => line = <<"complete">>

\* Every day on the heatmap was asked for, every lesson since its first day is on it, today
\* is in its last week, and the active days are all among those asked for.
ActivityShown(m) ==
    LET days == Range(Heatmap) IN
    /\ days = HeatmapStart..day /\ days \subseteq DOMAIN Activity(m)
    /\ <<Weeks - 1, Weekday(day)>> \in DOMAIN Heatmap /\ Heatmap[<<Weeks - 1, Weekday(day)>>] = day
    /\ (day - ActiveDays + 1)..day \subseteq DOMAIN Activity(m)
    /\ \A c \in DoneBy(m) : c.day >= HeatmapStart => c.day \in days

Followed(entries, pages) == pages \cup UNION {Links(entries, p) : p \in pages}

\* The pages that three links lead to from the Academy's home.
Reached(entries) == Followed(entries, Followed(entries, Followed(entries, {Home})))

\* A visitor who is sent on, from the page they asked for or from the one they were sent to,
\* comes to one that answers them, and a signed-out one to the sign-in that leads back.
NoOneIsSentInCircles(m) ==
    \A page \in Frame \cup {Onboarding} :
        /\ Sent("unknown", page) = page /\ Sent("signed out", page) = SignInPage(page)
        /\ LET lands == Sent(m, Sent(m, page)) IN Sent(m, lands) = lands

\* No page leads to one that is not there; by following the links of the pages every lesson
\* that can be opened and every checkpoint that can be taken is found, one that cannot says how
\* many lessons there are to go, and the row to go on with is a lesson not done.
LinksLead(m, entries) ==
    LET reached == Reached(entries) IN
    /\ \A page \in reached : Found(entries, page)
    /\ \A e \in entries :
         /\ \A l \in e.open : LessonPage(e, l) \in reached
         /\ e.test /\ LessonsDone(e) => CheckpointPage(e) \in reached
         /\ CheckpointPage(e) \in reached /\ ~LessonsDone(e) => Remaining(e) > 0
         /\ \A l \in DOMAIN e.chapter.lessons :
              Current(e, l) => LessonId(e, l) \notin Done(m) /\ ChapterStatus(e) # "complete"

\* Whatever the catalog has become since members did what they did, the pages show each of
\* them where they stand and lead them on (standing.ts:104-173 and the pages below /academy).
PagesLead ==
    \A m \in Present :
        /\ ActivityShown(m) /\ NoOneIsSentInCircles(m)
        /\ \A passed \in SUBSET Checkpoints :
             LET entries == Standing(served, Done(m), passed) IN
             /\ ContinueLeads(m, entries)
             /\ LevelsShown(m, entries)
             /\ LinksLead(m, entries)
=============================================================================
