SPECIFICATION NotesSpec
CONSTANTS
    ann = ann
    bob = bob
    v1 = v1
    v2 = v2
    LessonIds = {"l1", "l2", "l3", "con"}
    ChapterIds = {"c1", "c2"}
    CourseIds = {"k1", "k2"}
    ReservedIds = {"progress"}
    BadId = BadId
    None = None
    Members <- MCMembers
    Names <- MCNames
    Usernames <- MCUsernames
    Devices = {"con"}
    MemberName <- MCMemberName
    Hyphenated <- MCHyphenated
    Versions <- MCVersions
    Bronze = "bronze"
    NoRank = "no-rank"
    PaceDays = 1
    LastDay = 2
    MaxNumber = 3
    MaxChanges = 4
    MaxEdits = 1
    FirstTree <- MCTree
    Trees <- MCTrees
    LevelOf <- MCLevelOf
    LevelStep <- MCLevelStep
    Weeks = 1
    ActiveDays = 7
    FirstWeekday = 5
INVARIANTS
    
    NotesAgree
    BoardIsFair
    PagesLead
CHECK_DEADLOCK FALSE
