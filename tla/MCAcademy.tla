------------------------------ MODULE MCAcademy ------------------------------
(***************************************************************************)
(* An Academy of two levels: two courses of one chapter each, with a       *)
(* checkpoint.  A later deployment gives up a draft of the second level    *)
(* and adds a lesson to the first.                                         *)
(***************************************************************************)
EXTENDS Academy, TLC

CONSTANTS q1, q2

MCChapterOf == [l \in Lessons |-> IF l \in {"l1", "l4"} THEN "c1" ELSE "c3"]
MCCourseOf == [c \in Chapters |-> IF c = "c3" THEN "k2" ELSE "k1"]
MCLevelOf == [k \in Courses |-> IF k = "k1" THEN 1 ELSE 2]

\* A draft keeps the second level open until it is given up.
First ==
    [chapters |-> Chapters, written |-> Lessons \ {"l4", "l5"}, drafts |-> {"l5"},
     tests |-> Chapters, soon |-> {}]

Grown == [First EXCEPT !.written = @ \cup {"l4"}, !.drafts = {}]

Growing == <<First, Grown>>

Symmetry == Permutations(Requests)
=============================================================================
