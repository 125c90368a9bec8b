SPECIFICATION Spec
CONSTANTS
    q1 = q1
    q2 = q2
    Lessons = {"l1", "l3", "l4", "l5"}
    Chapters = {"c1", "c3"}
    Courses = {"k1", "k2"}
    ChapterOf <- MCChapterOf
    CourseOf <- MCCourseOf
    LevelOf <- MCLevelOf
    BronzeLevels = {1, 2}
    Bronze = Bronze
    Members = {"ann"}
    Requests = {q1, q2}
    None = None
    Catalogs <- Growing
    MayCrash = TRUE
SYMMETRY Symmetry
INVARIANTS
    StepsAreEarned
    PassNeedsLessons
    AnnouncedOnce
    NothingLost
