------------------------------ MODULE BrainNotes ------------------------------
(***************************************************************************)
(* The notes of the owner's brain: buildBrain of src/lib/brain/notes.ts,   *)
(* from what readBrain of src/lib/brain/read.ts has read and, for the      *)
(* Academy's brain, from the lessons in the owner's own copy of the        *)
(* repository (Content), which may be older or newer than the ones the     *)
(* site served when members completed them.                                *)
(*                                                                         *)
(* A note is its path, the links and pictures in it, and the numbers and   *)
(* places it states.  The site's part is external: members come, choose a  *)
(* name and a picture, complete open lessons, earn the rank, and go.       *)
(***************************************************************************)
EXTENDS Content

CONSTANTS
    Members,        \* accounts
    Names,          \* file names, before the ending
    Usernames,      \* names a member may take: USERNAME_SHAPE has no hyphen
    Devices,        \* WINDOWS_RESERVED
    MemberName,     \* number -> "member-<number>"
    Hyphenated,     \* name -> the name with a hyphen at its end
    Versions,       \* versions of pictures
    Bronze,         \* BRONZE_KEY
    NoRank,         \* the name of the note of members without a rank
    PaceDays,       \* PACE_DAYS
    LastDay,        \* bound: the last day
    MaxNumber,      \* bound: accounts ever made
    MaxChanges,     \* bound: changes of the site
    MaxEdits,       \* bound: edits of the owner's files
    FirstTree,      \* the owner's files at the beginning
    Trees           \* what an edit may make of the owner's files

Hub == <<"", "ZeroCorps Brain">>
Leaderboard == <<"", "Leaderboard">>

\* BrainMember
AccountRows == [number : 1..MaxNumber, username : Usernames \cup {None}, picture : Versions \cup {None}]

ASSUME BrainNotesAssumption ==
    /\ Usernames \subseteq Names /\ Devices \subseteq Names
    /\ LessonIds \cup ChapterIds \cup CourseIds \cup {Bronze, NoRank} \subseteq Names
    /\ MemberName \in [1..MaxNumber -> Names] /\ IsInjective(MemberName)
    /\ Hyphenated \in [Devices -> Names] /\ IsInjective(Hyphenated)
    /\ Range(MemberName) \cap Range(Hyphenated) = {}
    \* No username has a hyphen, and no id ends with one.
    /\ (Range(MemberName) \cup Range(Hyphenated)) \cap Usernames = {}
    /\ Range(Hyphenated) \cap (LessonIds \cup ChapterIds \cup CourseIds \cup Devices) = {}
    /\ {Hub[2], Leaderboard[2]} \cap Devices = {}
    /\ Bronze # NoRank /\ Bronze # None /\ {Bronze, NoRank} \cap Range(Hyphenated) = {}
    /\ None \notin Usernames \cup Versions \cup AccountRows
    /\ IsFiniteSet(Members) /\ Members # {}
    /\ MaxNumber \in Nat \ {0}
    /\ PaceDays \in Nat \ {0} /\ LastDay \in Nat /\ {MaxChanges, MaxEdits} \subseteq Nat
    /\ Loads(FirstTree) /\ \A t \in Trees \cup {FirstTree} : FilesShaped(t)

VARIABLES
    accounts,   \* member -> the row, or None
    completed,  \* rows of lesson_progress: member, lesson, day
    ranks,      \* rows of rank_history for Bronze: member, day
    numbered,   \* how many member numbers were given out
    day,        \* today
    tree,       \* the owner's files
    served,     \* the courses the site serves
    changes, edits   \* bounds

site == <<accounts, completed, ranks, numbered, day, served>>
notesVars == <<site, tree, changes, edits>>

Present == {m \in Members : accounts[m] # None}

NotesInit ==
    /\ \E picture \in Versions \cup {None} :
         accounts = [m \in Members |->
           IF m = CHOOSE x \in Members : TRUE
           THEN [number |-> 1, username |-> None, picture |-> picture] ELSE None]
    /\ completed = {} /\ ranks = {}
    /\ numbered = 1
    /\ day = 0
    /\ tree = FirstTree
    /\ served = Courses(FirstTree)
    /\ changes = 0 /\ edits = 0

-----------------------------------------------------------------------------
(* Paths *)

\* Slip: a name Windows reserves is used as it is.
SlipFileBase(name) == name

FileBase(name) == IF name \in Devices THEN Hyphenated[name] ELSE name

\* Slip: members without a username are named alike.
SlipLabel(m) == IF accounts[m].username = None THEN MemberName[1] ELSE accounts[m].username

Label(m) == IF accounts[m].username = None THEN MemberName[accounts[m].number] ELSE accounts[m].username

MemberPath(m) == <<"Members", FileBase(Label(m))>>
LessonPath(id) == <<"Lessons", FileBase(id)>>
ChapterPath(id) == <<"Chapters", FileBase(id)>>
CoursePath(id) == <<"Courses", FileBase(id)>>
RankPath(key) == <<"Ranks", FileBase(IF key = None THEN NoRank ELSE key)>>

-----------------------------------------------------------------------------
(* Who did what *)

DoneBy(m) == {c \in completed : c.member = m}

RankOf(m) == IF \E r \in ranks : r.member = m THEN Bronze ELSE None

RankKeys == {Bronze} \cup ({RankOf(m) : m \in Present} \ {None})

\* The lessons completed in the last PaceDays days, today included.
Pace(m) == Cardinality({c \in DoneBy(m) : c.day > day - PaceDays /\ c.day <= day})

\* By lesson, the members who completed it.
CompletedBy(id) == Cardinality({c.member : c \in {d \in completed : d.lesson = id}})

Holders(key) == Cardinality({m \in Present : RankOf(m) = key})

\* Slip: every member's picture is read by one member.
SlipPictures ==
    LET shown == {accounts[m].picture : m \in Present} \ {None} IN
    [v \in shown |-> CHOOSE m \in Present : accounts[m].picture # None]

\* A picture is read by the first member who has it.
Pictures ==
    LET shown == {accounts[m].picture : m \in Present} \ {None} IN
    [v \in shown |-> CHOOSE m \in Present :
        /\ accounts[m].picture = v
        /\ \A n \in Present : accounts[n].picture = v => accounts[m].number <= accounts[n].number]

-----------------------------------------------------------------------------
(* The notes *)

\* What a note is about tells two notes apart that would share one file.
Note(about, path, links, embeds, states) ==
    [about |-> about, path |-> path, links |-> links, embeds |-> embeds, states |-> states]

Card(m) == {accounts[m].picture} \ {None}

\* The members and nothing else: the brain as it is by default.
MemberNotes == {Note(MemberName[accounts[m].number], MemberPath(m), {}, Card(m), 0) : m \in Present}

AcademyMemberNotes ==
    {Note(MemberName[accounts[m].number], MemberPath(m),
          {RankPath(RankOf(m))} \cup {LessonPath(c.lesson) : c \in DoneBy(m)}, Card(m),
          Cardinality(DoneBy(m))) : m \in Present}

CourseNotes(courses) ==
    {Note(c.id, CoursePath(c.id), {Hub} \cup {ChapterPath(id) : id \in Range(IdsOf(c.chapters))}, {},
          Len(c.chapters)) : c \in Range(courses)}

ChapterNotes(courses) ==
    UNION {{Note(c.id, ChapterPath(c.id),
                 {CoursePath(k.id)} \cup {LessonPath(id) : id \in Range(IdsOf(c.lessons))}, {},
                 Len(c.lessons)) : c \in Range(k.chapters)} : k \in Range(courses)}

LessonNotes(courses) ==
    UNION {{Note(id, LessonPath(id), {ChapterPath(c.id)}, {}, CompletedBy(id)) :
              id \in Range(IdsOf(c.lessons))} : c \in ChaptersOf(courses)}

\* Slip: lessons the files no longer have are left out.
SlipRemovedNotes(courses) == {}

\* Lessons someone completed that the owner's files do not have.
RemovedNotes(courses) ==
    {Note(id, LessonPath(id), {}, {}, CompletedBy(id)) :
       id \in {c.lesson : c \in completed} \ IdsIn(courses)}

RankNotes ==
    {Note(key, RankPath(key), {Hub}, {}, Holders(key)) : key \in RankKeys \cup {None}}

OnBoard == {m \in Present : Pace(m) > 0}

Ahead(m, n) ==
    \/ Pace(m) > Pace(n)
    \/ /\ Pace(m) = Pace(n)
       /\ \/ Cardinality(DoneBy(m)) > Cardinality(DoneBy(n))
          \/ /\ Cardinality(DoneBy(m)) = Cardinality(DoneBy(n))
             /\ accounts[m].number < accounts[n].number

\* A line of the board has as many above it as are ahead of its member.
Board == [i \in 1..Cardinality(OnBoard) |->
    CHOOSE m \in OnBoard : Cardinality({n \in OnBoard : Ahead(n, m)}) = i - 1]

\* Slip: every line has a place of its own.
SlipPlaces == [i \in DOMAIN Board |-> i]

\* A place is taken over from the line above while the pace is the same.
PlaceAt[i \in 0..Cardinality(OnBoard)] ==
    IF i = 0 THEN 0
    ELSE IF i = 1 \/ Pace(Board[i - 1]) # Pace(Board[i]) THEN i ELSE PlaceAt[i - 1]

BoardPlaces == [i \in DOMAIN Board |-> PlaceAt[i]]

LeaderboardNote ==
    Note("board", Leaderboard, {Hub} \cup {MemberPath(m) : m \in OnBoard}, {},
         Cardinality(Present) - Len(Board))

HubNote(courses) ==
    Note("hub", Hub, {RankPath(key) : key \in RankKeys \cup {None}} \cup {Leaderboard}
           \cup {CoursePath(id) : id \in Range(IdsOf(courses))} \cup {MemberPath(m) : m \in Present},
         {}, Cardinality(Present))

AcademyNotes(courses) ==
    AcademyMemberNotes \cup CourseNotes(courses) \cup ChapterNotes(courses)
      \cup LessonNotes(courses) \cup RemovedNotes(courses) \cup RankNotes
      \cup {LeaderboardNote, HubNote(courses)}

-----------------------------------------------------------------------------
(* The site, and the owner *)

Join(m) ==
    /\ accounts[m] = None /\ numbered < MaxNumber
    /\ numbered' = numbered + 1
    /\ accounts' = [accounts EXCEPT ![m] =
         [number |-> numbered + 1, username |-> None, picture |-> None]]
    /\ UNCHANGED <<completed, ranks, day, served, tree>>

\* A member goes, and with them every row that refers to them.
Leave(m) ==
    /\ accounts[m] # None
    /\ accounts' = [accounts EXCEPT ![m] = None]
    /\ completed' = {c \in completed : c.member # m}
    /\ ranks' = {r \in ranks : r.member # m}
    /\ UNCHANGED <<numbered, day, served, tree>>

ChooseUsername(m) ==
    /\ accounts[m] # None
    /\ \E name \in Usernames :
         /\ \A n \in Present : accounts[n].username # name
         /\ accounts' = [accounts EXCEPT ![m].username = name]
    /\ UNCHANGED <<completed, ranks, numbered, day, served, tree>>

ChoosePicture(m) ==
    /\ accounts[m] # None
    /\ \E v \in Versions \cup {None} :
         v # accounts[m].picture /\ accounts' = [accounts EXCEPT ![m].picture = v]
    /\ UNCHANGED <<completed, ranks, numbered, day, served, tree>>

Complete(m) ==
    /\ accounts[m] # None
    /\ \E id \in LessonIds :
         /\ Open(served, id)
         /\ \A c \in DoneBy(m) : c.lesson # id
         /\ completed' = completed \cup {[member |-> m, lesson |-> id, day |-> day]}
    /\ UNCHANGED <<accounts, ranks, numbered, day, served, tree>>

Earn(m) ==
    /\ accounts[m] # None /\ DoneBy(m) # {} /\ RankOf(m) = None
    /\ ranks' = ranks \cup {[member |-> m, day |-> day]}
    /\ UNCHANGED <<accounts, completed, numbered, day, served, tree>>

NextDay ==
    /\ day < LastDay
    /\ day' = day + 1
    /\ UNCHANGED <<accounts, completed, ranks, numbered, served, tree>>

SiteStep ==
    /\ changes < MaxChanges
    /\ changes' = changes + 1
    /\ \/ \E m \in Members :
            \/ Join(m) \/ Leave(m) \/ ChooseUsername(m) \/ ChoosePicture(m)
            \/ Complete(m) \/ Earn(m)
       \/ NextDay
    /\ UNCHANGED edits

Edit ==
    /\ edits < MaxEdits
    /\ edits' = edits + 1
    /\ tree' \in Trees
    /\ UNCHANGED <<site, changes>>

\* A release of files with a problem is stopped by the tests.
Release ==
    /\ Loads(tree) /\ served # Courses(tree)
    /\ served' = Courses(tree)
    /\ UNCHANGED <<accounts, completed, ranks, numbered, day, tree, changes, edits>>

NotesNext == SiteStep \/ Edit \/ Release

NotesSpec == NotesInit /\ [][NotesNext]_notesVars

-----------------------------------------------------------------------------
(* Properties *)

\* The files of lessons, whether they can be read or not.
FilePlaces(files) ==
    UNION {UNION {{<<i, j>>} \X DOMAIN files[i].chapters[j].files : j \in DOMAIN files[i].chapters} : i \in DOMAIN files}
FileAt(files, p) == files[p[1][1]].chapters[p[1][2]].files[p[2]]

\* Files that load are a catalog in which an id is one lesson, nothing the owner wrote is
\* missing, chapters are numbered through in their order, and every checkpoint can be passed and sends members to lessons that are there:
\* "a quiet mistake here would become lost progress" (content.ts:12).
CatalogIsSound ==
    Loads(tree) =>
        LET courses == Courses(tree)
            places == ChapterPlaces(courses)
            ids == IdsIn(courses) IN
        /\ \A id \in LessonIds :
             Cardinality({p \in FilePlaces(tree) : FileAt(tree, p).id = id}) = IF id \in ids THEN 1 ELSE 0
        /\ {c.number : c \in ChaptersOf(courses)} = 1..Cardinality(places)
        /\ \A p, q \in places :
             Earlier(p, q) => ChapterAt(courses, p).number < ChapterAt(courses, q).number
        /\ \A c \in ChaptersOf(courses) : c.test # None =>
             /\ PassMark(c.test) \in 1..Len(c.test.questions)
             /\ \A i \in DOMAIN c.test.questions : c.test.questions[i].reread \in ids \cup {None}

\* The notes the export may be asked for now: the members', and the Academy's if the files load.
Brains == {MemberNotes} \cup (IF Loads(tree) THEN {AcademyNotes(Courses(tree))} ELSE {})

\* No two notes would share one file, and none has a name Windows refuses.
OneFileEach(notes) ==
    /\ \A a, b \in notes : a.path = b.path => a = b
    /\ \A a \in notes : a.path[2] \notin Devices

\* No two notes share a file, every link leads to a note that is written, every picture shown
\* is that of a member who has it, and what a lesson's and a rank's note count is what their
\* backlinks show.
NotesAgree ==
    \A notes \in Brains :
        /\ OneFileEach(notes)
        /\ \A a \in notes : a.links \subseteq {b.path : b \in notes}
        /\ UNION {a.embeds : a \in notes} = DOMAIN Pictures
        /\ \A v \in DOMAIN Pictures : accounts[Pictures[v]].picture = v
        /\ \A a \in notes : a.path[1] \in {"Lessons", "Ranks"} =>
             a.states = Cardinality({b \in notes : b.path[1] = "Members" /\ a.path \in b.links})

\* A place on the leaderboard is one more than the number of members with a higher pace, and
\* whoever completed a lesson in the window is on it.
BoardIsFair ==
    /\ Range(Board) = {m \in Present : \E c \in DoneBy(m) : c.day \in (day - PaceDays + 1)..day}
    /\ \A i \in DOMAIN Board :
         BoardPlaces[i] = 1 + Cardinality({m \in Present : Pace(m) > Pace(Board[i])})
=============================================================================
