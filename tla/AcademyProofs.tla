---------------------------- MODULE AcademyProofs ----------------------------
(***************************************************************************)
(* What the Academy guarantees for every catalog and every number of       *)
(* members, requests and deployments: no step is stored that was not       *)
(* earned, no checkpoint passed before its lessons, no step announced      *)
(* twice, and none that was earned is lost.                                *)
(*                                                                         *)
(* The argument: the tables only grow, so what a request has read, however *)
(* long ago, is part of what is there now; and standing only grows with    *)
(* what has been done, so what a stale read finds earned is earned.        *)
(***************************************************************************)
EXTENDS Academy, TLAPS

-----------------------------------------------------------------------------
(* Standing *)

\* Why: doing more never closes what was open nor undoes a chapter.
LEMMA CompleteIsMonotonic ==
    ASSUME NEW cat, NEW c, NEW done1, NEW done2, NEW pass1, NEW pass2,
           done1 \subseteq done2, pass1 \subseteq pass2,
           Complete(cat, c, done1, pass1)
    PROVE  Complete(cat, c, done2, pass2)
BY DEF Complete, LessonsDone

\* A level finished stays finished, by the same catalog, when more is done.
LEMMA FinishedIsMonotonic ==
    ASSUME NEW cat, NEW n, NEW done1, NEW done2, NEW pass1, NEW pass2,
           done1 \subseteq done2, pass1 \subseteq pass2,
           Finished(cat, n, done1, pass1)
    PROVE  Finished(cat, n, done2, pass2)
<1>1. ASSUME NEW c \in CountedFor(cat, n)
      PROVE  FullyWritten(cat, c) /\ Complete(cat, c, done2, pass2)
  BY CompleteIsMonotonic DEF Finished
<1>2. QED BY <1>1 DEF Finished

\* What standing computes is what the owner's rules say.
LEMMA FinishedIsDeserved ==
    ASSUME NEW cat, NEW n, NEW done, NEW pass
    PROVE  Finished(cat, n, done, pass) <=> Deserves(cat, n, done, pass)
<1> DEFINE counted == CountedFor(cat, n)
           lessons(c) == {l \in cat.written \cup cat.drafts : ChapterOf[l] = c}
<1>1. counted = {c \in cat.chapters : LevelOf[CourseOf[c]] = n /\ CourseOf[c] \notin cat.soon}
  BY DEF CountedFor, ComingSoon
<1>2. ASSUME NEW c \in counted
      PROVE  FullyWritten(cat, c) /\ LessonsDone(cat, c, done)
               <=> lessons(c) # {} /\ lessons(c) \subseteq done /\ lessons(c) \cap cat.drafts = {}
  <2>1. ~ComingSoon(cat, c)
    BY DEF CountedFor
  <2>2. OpenLessons(cat, c) = {l \in cat.written : ChapterOf[l] = c}
    BY <2>1 DEF OpenLessons
  <2>3. QED BY <2>2 DEF FullyWritten, LessonsDone
<1>3. ASSUME NEW c \in counted
      PROVE  (HasCheckpoint(cat, c) => c \in pass) <=> (c \in cat.tests => c \in pass)
  BY DEF HasCheckpoint, CountedFor
<1>4. Finished(cat, n, done, pass)
        <=> /\ counted # {}
            /\ \A c \in counted : FullyWritten(cat, c) /\ LessonsDone(cat, c, done)
            /\ \A c \in counted : c \in cat.tests => c \in pass
  BY <1>3 DEF Finished, Complete
<1>5. Deserves(cat, n, done, pass)
        <=> /\ counted # {}
            /\ \A c \in counted : lessons(c) # {} /\ lessons(c) \subseteq done
                                    /\ lessons(c) \cap cat.drafts = {}
            /\ counted \cap cat.tests \subseteq pass
  BY <1>1 DEF Deserves
<1>6. QED BY <1>2, <1>4, <1>5

\* The rules are monotonic too.
LEMMA DeservesIsMonotonic ==
    ASSUME NEW cat, NEW n, NEW done1, NEW done2, NEW pass1, NEW pass2,
           done1 \subseteq done2, pass1 \subseteq pass2,
           Deserves(cat, n, done1, pass1)
    PROVE  Deserves(cat, n, done2, pass2)
<1>1. Finished(cat, n, done1, pass1)
  BY FinishedIsDeserved
<1>2. Finished(cat, n, done2, pass2)
  BY <1>1, FinishedIsMonotonic
<1>3. QED BY <1>2, FinishedIsDeserved

-----------------------------------------------------------------------------
(* The invariant *)

\* What a request has read is part of what is there, and its catalog was served.
ReadSound(q) ==
    pc[q] # "idle" =>
        /\ req[q].member \in Members
        /\ req[q].version \in 1..version
        /\ req[q].completed \subseteq completed[req[q].member]
        /\ req[q].passed \subseteq passed[req[q].member]
        /\ req[q].steps \subseteq steps[req[q].member]

\* A request is at the statements of the lesson or of the checkpoint it is about.
Engaged(q) ==
    /\ pc[q] \in {"mark", "rereading"} => req[q].lesson \in Lessons
    /\ pc[q] \in {"reading", "pass"} => req[q].chapter \in Chapters
    /\ pc[q] = "pass" => LessonsDone(Cat(q), req[q].chapter, req[q].completed)

\* A stored step was announced, once.
AnnouncedWhenStored ==
    \A m \in Members : \A s \in Steps : announced[m][s] = IF s \in steps[m] THEN 1 ELSE 0

IInv ==
    /\ TypeOK
    /\ \A q \in Requests : ReadSound(q) /\ Engaged(q)
    /\ StepsAreEarned
    /\ PassNeedsLessons
    /\ AnnouncedWhenStored

LEMMA InitEstablishes == Init => IInv
<1> SUFFICES ASSUME Init PROVE IInv
  OBVIOUS
<1>1. Len(Catalogs) \in Nat /\ Len(Catalogs) >= 1
  BY AcademyAssumption
<1>2. Nothing \in RequestRecord
  BY <1>1 DEF Nothing, RequestRecord
<1>3. TypeOK
  BY <1>1, <1>2 DEF Init, TypeOK
<1>4. QED BY <1>3 DEF Init, IInv, ReadSound, Engaged, StepsAreEarned, PassNeedsLessons, AnnouncedWhenStored

-----------------------------------------------------------------------------
(* What growing tables leave alone *)

Grow ==
    /\ version \in Nat /\ version' \in Nat /\ version <= version'
    /\ \A m \in Members : /\ completed[m] \subseteq completed'[m]
                          /\ passed[m] \subseteq passed'[m]
                          /\ steps[m] \subseteq steps'[m]

OthersStay(q) == \A p \in Requests : p # q => pc'[p] = pc[p] /\ req'[p] = req[p]

LEMMA ReadsStay ==
    ASSUME IInv, Grow, NEW q, OthersStay(q),
           q \in Requests => ReadSound(q)' /\ Engaged(q)'
    PROVE  \A p \in Requests : ReadSound(p)' /\ Engaged(p)'
<1> SUFFICES ASSUME NEW p \in Requests, p # q PROVE ReadSound(p)' /\ Engaged(p)'
  OBVIOUS
<1>1. pc'[p] = pc[p] /\ req'[p] = req[p] /\ ReadSound(p) /\ Engaged(p)
  BY DEF OthersStay, IInv
<1>2. ReadSound(p)'
  BY <1>1 DEF ReadSound, Grow
<1>3. Engaged(p)'
  BY <1>1 DEF Engaged, Cat
<1>4. QED BY <1>2, <1>3

LEMMA ServedStay ==
    ASSUME Grow, NEW cat \in Served
    PROVE  cat \in Served'
BY DEF Grow, Served

LEMMA EarnedStays ==
    ASSUME StepsAreEarned, Grow, steps' = steps
    PROVE  StepsAreEarned'
<1> SUFFICES ASSUME NEW m \in Members, NEW n \in steps[m] \ {Bronze}
             PROVE  \E cat \in Served' : Deserves(cat, n, completed'[m], passed'[m])
  BY DEF StepsAreEarned
<1>1. PICK cat \in Served : Deserves(cat, n, completed[m], passed[m])
  BY DEF StepsAreEarned
<1>2. Deserves(cat, n, completed'[m], passed'[m])
  BY <1>1, DeservesIsMonotonic DEF Grow
<1>3. QED BY <1>2, ServedStay

LEMMA PassesStay ==
    ASSUME PassNeedsLessons, Grow, passed' = passed
    PROVE  PassNeedsLessons'
<1> SUFFICES ASSUME NEW m \in Members, NEW c \in passed[m]
             PROVE  \E cat \in Served' : LessonsDone(cat, c, completed'[m])
  BY DEF PassNeedsLessons
<1>1. PICK cat \in Served : LessonsDone(cat, c, completed[m])
  BY DEF PassNeedsLessons
<1>2. LessonsDone(cat, c, completed'[m])
  BY <1>1 DEF LessonsDone, Grow
<1>3. QED BY <1>2, ServedStay

\* A request that changes no table.
LEMMA LocalStep ==
    ASSUME IInv, NEW q \in Requests, UNCHANGED <<version, tables, announced>>, TypeOK',
           OthersStay(q), ReadSound(q)', Engaged(q)'
    PROVE  IInv'
<1>1. Grow
  BY DEF Grow, tables, IInv, TypeOK
<1>2. steps' = steps /\ passed' = passed /\ announced' = announced
  BY DEF tables
<1>3. StepsAreEarned' /\ PassNeedsLessons'
  BY <1>1, <1>2, EarnedStays, PassesStay DEF IInv
<1>4. AnnouncedWhenStored'
  BY <1>2 DEF IInv, AnnouncedWhenStored
<1>5. \A p \in Requests : ReadSound(p)' /\ Engaged(p)'
  BY <1>1, ReadsStay
<1>6. QED BY <1>3, <1>4, <1>5 DEF IInv

\* What Answer and the other changes of one request leave well typed.
LEMMA RequestTyped ==
    ASSUME TypeOK, NEW q \in Requests, NEW rec \in RequestRecord,
           NEW at \in {"idle", "mark", "reading", "rereading", "pass", "record", "report"},
           UNCHANGED <<version, tables, announced>>, pushed' \subseteq Members,
           owed' \in [Members -> SUBSET {"steps", "push"}],
           pc' = [pc EXCEPT ![q] = at], req' = [req EXCEPT ![q] = rec],
           at \in {"pass", "record", "report"} => rec.unread = {}
    PROVE  TypeOK' /\ OthersStay(q) /\ pc'[q] = at /\ req'[q] = rec
BY DEF TypeOK, tables, OthersStay

LEMMA AnswerPreserves ==
    ASSUME IInv, NEW q \in Requests, Answer(q), UNCHANGED <<version, tables, announced>>,
           pushed' \subseteq Members, owed' \in [Members -> SUBSET {"steps", "push"}]
    PROVE  IInv'
<1>1. Nothing \in RequestRecord
  BY AcademyAssumption DEF Nothing, RequestRecord
<1>2. TypeOK' /\ OthersStay(q) /\ pc'[q] = "idle"
  BY <1>1, RequestTyped DEF Answer, Step, IInv
<1>3. ReadSound(q)' /\ Engaged(q)'
  BY <1>2 DEF ReadSound, Engaged
<1>4. QED BY <1>2, <1>3, LocalStep

LEMMA CompleteLessonPreserves ==
    ASSUME IInv, NEW q \in Requests, NEW m \in Members, NEW l \in Lessons, CompleteLesson(q, m, l)
    PROVE  IInv'
<1> DEFINE rec == [Nothing EXCEPT !.member = m, !.lesson = l, !.version = version]
<1>1. rec \in RequestRecord /\ rec.member = m /\ rec.lesson = l /\ rec.version = version
      /\ rec.completed = {} /\ rec.passed = {} /\ rec.steps = {}
  BY DEF Nothing, RequestRecord, IInv, TypeOK
<1>2. TypeOK' /\ OthersStay(q) /\ pc'[q] = "mark" /\ req'[q] = rec
  BY <1>1, RequestTyped DEF CompleteLesson, Step, history, IInv, TypeOK
<1>3. version' = version /\ version \in 1..version
  BY DEF CompleteLesson, IInv, TypeOK
<1>4. ReadSound(q)' /\ Engaged(q)'
  BY <1>1, <1>2, <1>3 DEF ReadSound, Engaged
<1>5. QED BY <1>2, <1>4, LocalStep DEF CompleteLesson, history

LEMMA SubmitCheckpointPreserves ==
    ASSUME IInv, NEW q \in Requests, NEW m \in Members, NEW c \in Chapters,
           SubmitCheckpoint(q, m, c)
    PROVE  IInv'
<1> DEFINE rec == [Nothing EXCEPT !.member = m, !.chapter = c, !.version = version,
                                  !.unread = AllQueries]
<1>1. rec \in RequestRecord /\ rec.member = m /\ rec.chapter = c /\ rec.version = version
      /\ rec.completed = {} /\ rec.passed = {} /\ rec.steps = {}
  BY DEF Nothing, RequestRecord, AllQueries, IInv, TypeOK
<1>2. TypeOK' /\ OthersStay(q) /\ pc'[q] = "reading" /\ req'[q] = rec
  BY <1>1, RequestTyped DEF SubmitCheckpoint, Step, history, IInv, TypeOK
<1>3. version' = version /\ version \in 1..version
  BY DEF SubmitCheckpoint, IInv, TypeOK
<1>4. ReadSound(q)' /\ Engaged(q)'
  BY <1>1, <1>2, <1>3 DEF ReadSound, Engaged
<1>5. QED BY <1>2, <1>4, LocalStep DEF SubmitCheckpoint, history

LEMMA ReadPreserves == ASSUME IInv, NEW q \in Requests, Read(q) PROVE IInv'
<1>1. PICK t \in req[q].unread : req' = [req EXCEPT
           ![q].unread = @ \ {t},
           ![q].completed = IF t = "completed" THEN completed[req[q].member] ELSE @,
           ![q].passed = IF t = "passed" THEN passed[req[q].member] ELSE @,
           ![q].steps = IF t = "steps" THEN steps[req[q].member] ELSE @]
  BY DEF Read
<1>2. pc[q] \in {"reading", "rereading"} /\ UNCHANGED <<version, tables, pc, history>>
  BY DEF Read
<1>3. req[q] \in RequestRecord /\ ReadSound(q) /\ Engaged(q)
  BY DEF IInv, TypeOK
<1>4. req[q].member \in Members /\ completed[req[q].member] \subseteq Lessons
      /\ passed[req[q].member] \subseteq Chapters /\ steps[req[q].member] \subseteq Steps
  BY <1>2, <1>3 DEF ReadSound, IInv, TypeOK
<1> DEFINE rec == [req[q] EXCEPT
           !.unread = @ \ {t},
           !.completed = IF t = "completed" THEN completed[req[q].member] ELSE @,
           !.passed = IF t = "passed" THEN passed[req[q].member] ELSE @,
           !.steps = IF t = "steps" THEN steps[req[q].member] ELSE @]
<1>5. /\ rec \in RequestRecord
      /\ rec.member = req[q].member /\ rec.version = req[q].version
      /\ rec.lesson = req[q].lesson /\ rec.chapter = req[q].chapter
      /\ rec.completed \in {req[q].completed, completed[req[q].member]}
      /\ rec.passed \in {req[q].passed, passed[req[q].member]}
      /\ rec.steps \in {req[q].steps, steps[req[q].member]}
  <2> DEFINE C == IF t = "completed" THEN completed[req[q].member] ELSE req[q].completed
             P == IF t = "passed" THEN passed[req[q].member] ELSE req[q].passed
             S == IF t = "steps" THEN steps[req[q].member] ELSE req[q].steps
             k == req[q]
             x == [k EXCEPT !.unread = @ \ {t}, !.completed = C, !.passed = P, !.steps = S]
  <2>1. /\ C \in SUBSET Lessons /\ P \in SUBSET Chapters /\ S \in SUBSET Steps
        /\ C \in {req[q].completed, completed[req[q].member]}
        /\ P \in {req[q].passed, passed[req[q].member]}
        /\ S \in {req[q].steps, steps[req[q].member]}
    BY <1>3, <1>4 DEF RequestRecord
  <2>2. rec = x /\ k \in RequestRecord
    BY <1>3
  <2> HIDE DEF C, P, S, k
  <2>3. /\ x \in RequestRecord
        /\ x.member = k.member /\ x.version = k.version /\ x.lesson = k.lesson
        /\ x.chapter = k.chapter /\ x.completed = C /\ x.passed = P /\ x.steps = S
    BY <2>1, <2>2 DEF RequestRecord
  <2> HIDE DEF x, rec
  <2>4. QED BY <2>1, <2>2, <2>3 DEF k
<1>6. req' = [req EXCEPT ![q] = rec] /\ pc' = [pc EXCEPT ![q] = pc[q]]
  BY <1>1, <1>2 DEF IInv, TypeOK
<1>7. /\ TypeOK /\ UNCHANGED <<version, tables, announced>> /\ pushed' \subseteq Members
      /\ owed' \in [Members -> SUBSET {"steps", "push"}]
  BY <1>2 DEF history, IInv, TypeOK
<1> HIDE DEF rec
<1>8. TypeOK' /\ OthersStay(q) /\ pc'[q] = pc[q] /\ req'[q] = rec
  BY <1>2, <1>5, <1>6, <1>7, RequestTyped
<1>9. ReadSound(q)' /\ Engaged(q)'
  BY <1>2, <1>3, <1>5, <1>8 DEF ReadSound, Engaged, tables
<1>10. QED BY <1>7, <1>8, <1>9, LocalStep

LEMMA MarkReadPreserves == ASSUME IInv, NEW q \in Requests, MarkRead(q) PROVE IInv'
<1>1. /\ pc[q] = "rereading" /\ req[q].unread = {} /\ pc' = [pc EXCEPT ![q] = "record"]
      /\ req' = req /\ UNCHANGED <<version, tables, history>>
  BY DEF MarkRead, Step
<1>2. req[q] \in RequestRecord /\ req' = [req EXCEPT ![q] = req[q]] /\ ReadSound(q)
  BY <1>1 DEF IInv, TypeOK
<1>3. TypeOK' /\ OthersStay(q) /\ pc'[q] = "record" /\ req'[q] = req[q]
  BY <1>1, <1>2, RequestTyped DEF history, IInv, TypeOK
<1>4. ReadSound(q)' /\ Engaged(q)'
  BY <1>1, <1>2, <1>3 DEF ReadSound, Engaged, tables
<1>5. QED BY <1>1, <1>3, <1>4, LocalStep DEF history

LEMMA GradePreserves == ASSUME IInv, NEW q \in Requests, Grade(q) PROVE IInv'
<1>1. pc[q] = "reading" /\ req[q].unread = {} /\ UNCHANGED <<version, tables, history>>
  BY DEF Grade
<1>2. CASE /\ LessonsDone(Cat(q), req[q].chapter, req[q].completed)
           /\ Step(q, "pass") /\ UNCHANGED req
  <2>1. req[q] \in RequestRecord /\ req' = [req EXCEPT ![q] = req[q]] /\ ReadSound(q) /\ Engaged(q)
    BY <1>2 DEF IInv, TypeOK
  <2>2. TypeOK' /\ OthersStay(q) /\ pc'[q] = "pass" /\ req'[q] = req[q]
    BY <1>1, <1>2, <2>1, RequestTyped DEF Step, history, IInv, TypeOK
  <2>3. ReadSound(q)'
    BY <1>1, <2>1, <2>2 DEF ReadSound, tables
  <2>4. Engaged(q)'
    BY <1>1, <1>2, <2>1, <2>2 DEF Engaged, Cat
  <2>5. QED BY <1>1, <2>2, <2>3, <2>4, LocalStep DEF history
<1>3. CASE Answer(q)
  BY <1>1, <1>3, AnswerPreserves DEF history, IInv, TypeOK
<1>4. QED BY <1>2, <1>3 DEF Grade

LEMMA ReportPreserves == ASSUME IInv, NEW q \in Requests, Report(q) PROVE IInv'
<1>1. req[q].member \in Members
  BY DEF Report, IInv, ReadSound
<1>2. pushed' \subseteq Members /\ owed' \in [Members -> SUBSET {"steps", "push"}]
  BY <1>1 DEF Report, IInv, TypeOK
<1>3. QED BY <1>2, AnswerPreserves DEF Report

LEMMA CrashPreserves == ASSUME IInv, NEW q \in Requests, Crash(q) PROVE IInv'
<1>1. req[q].member \in Members /\ Undone(q) \subseteq {"steps", "push"}
  BY DEF Crash, Undone, IInv, ReadSound
<1>2. owed' \in [Members -> SUBSET {"steps", "push"}]
  BY <1>1 DEF Crash, IInv, TypeOK
<1>3. pushed' \subseteq Members
  BY DEF Crash, IInv, TypeOK
<1>4. QED BY <1>2, <1>3, AnswerPreserves DEF Crash

-----------------------------------------------------------------------------
(* The steps that write a table *)

\* The lesson is marked, and nothing has been read yet.
LEMMA MarkPreserves == ASSUME IInv, NEW q \in Requests, Mark(q) PROVE IInv'
<1> DEFINE m == req[q].member
           rec == [req[q] EXCEPT !.unread = AllQueries]
<1>1. /\ pc[q] = "mark" /\ pc' = [pc EXCEPT ![q] = "rereading"]
      /\ completed' = [completed EXCEPT ![m] = @ \cup {req[q].lesson}]
      /\ req' = [req EXCEPT ![q] = rec]
      /\ UNCHANGED <<version, passed, steps, announced, pushed, owed>>
  BY DEF Mark, Step, history
<1>2. req[q] \in RequestRecord /\ ReadSound(q) /\ Engaged(q) /\ m \in Members /\ req[q].lesson \in Lessons
  BY <1>1 DEF IInv, TypeOK, ReadSound, Engaged
<1>3. /\ rec \in RequestRecord
      /\ rec.member = m /\ rec.version = req[q].version /\ rec.lesson = req[q].lesson
      /\ rec.completed = req[q].completed /\ rec.passed = req[q].passed /\ rec.steps = req[q].steps
  BY <1>2 DEF RequestRecord, AllQueries
<1>4. pc'[q] = "rereading" /\ req'[q] = rec /\ OthersStay(q)
  BY <1>1 DEF IInv, TypeOK, OthersStay
<1>5. Grow
  BY <1>1, <1>2 DEF Grow, IInv, TypeOK
<1>6. TypeOK'
  <2>1. completed' \in [Members -> SUBSET Lessons]
    BY <1>1, <1>2 DEF IInv, TypeOK
  <2>2. pc' \in [Requests -> {"idle", "mark", "reading", "rereading", "pass", "record", "report"}]
        /\ req' \in [Requests -> RequestRecord]
    BY <1>1, <1>3 DEF IInv, TypeOK
  <2>3. \A p \in Requests : pc'[p] \in {"pass", "record", "report"} => req'[p].unread = {}
    BY <1>4 DEF OthersStay, IInv, TypeOK
  <2>4. QED BY <1>1, <2>1, <2>2, <2>3 DEF IInv, TypeOK
<1>7. ReadSound(q)' /\ Engaged(q)'
  <2>1. completed[m] \subseteq completed'[m]
    BY <1>2, <1>5 DEF Grow
  <2>2. QED BY <1>1, <1>2, <1>3, <1>4, <2>1 DEF ReadSound, Engaged
<1>8. \A p \in Requests : ReadSound(p)' /\ Engaged(p)'
  BY <1>4, <1>5, <1>7, ReadsStay
<1>9. StepsAreEarned' /\ PassNeedsLessons' /\ AnnouncedWhenStored'
  BY <1>1, <1>5, EarnedStays, PassesStay DEF IInv, AnnouncedWhenStored
<1>10. QED BY <1>6, <1>8, <1>9 DEF IInv

\* The pass is stored: its lessons were done when the progress was read, so they are now.
LEMMA PassPreserves == ASSUME IInv, NEW q \in Requests, Pass(q) PROVE IInv'
<1> DEFINE m == req[q].member
           c == req[q].chapter
           rec == [req[q] EXCEPT !.passed = @ \cup {c}]
<1>1. /\ pc[q] = "pass" /\ pc' = [pc EXCEPT ![q] = "record"]
      /\ passed' = [passed EXCEPT ![m] = @ \cup {c}]
      /\ req' = [req EXCEPT ![q] = rec]
      /\ UNCHANGED <<version, completed, steps, announced, pushed, owed>>
  BY DEF Pass, Step, history
<1>2. /\ req[q] \in RequestRecord /\ ReadSound(q) /\ m \in Members /\ c \in Chapters
      /\ LessonsDone(Cat(q), c, req[q].completed) /\ req[q].unread = {}
  BY <1>1 DEF IInv, TypeOK, ReadSound, Engaged
<1>3. /\ rec \in RequestRecord
      /\ rec.member = m /\ rec.version = req[q].version /\ rec.unread = {}
      /\ rec.completed = req[q].completed /\ rec.passed = req[q].passed \cup {c}
      /\ rec.steps = req[q].steps
  BY <1>2 DEF RequestRecord
<1>4. pc'[q] = "record" /\ req'[q] = rec /\ OthersStay(q)
  BY <1>1 DEF IInv, TypeOK, OthersStay
<1>5. Grow
  BY <1>1, <1>2 DEF Grow, IInv, TypeOK
<1>6. TypeOK'
  <2>1. passed' \in [Members -> SUBSET Chapters]
    BY <1>1, <1>2 DEF IInv, TypeOK
  <2>2. pc' \in [Requests -> {"idle", "mark", "reading", "rereading", "pass", "record", "report"}]
        /\ req' \in [Requests -> RequestRecord]
    BY <1>1, <1>3 DEF IInv, TypeOK
  <2>3. \A p \in Requests : pc'[p] \in {"pass", "record", "report"} => req'[p].unread = {}
    BY <1>3, <1>4 DEF OthersStay, IInv, TypeOK
  <2>4. QED BY <1>1, <2>1, <2>2, <2>3 DEF IInv, TypeOK
<1>7. ReadSound(q)' /\ Engaged(q)'
  <2>1. passed'[m] = passed[m] \cup {c}
    BY <1>1, <1>2 DEF IInv, TypeOK
  <2>2. QED BY <1>1, <1>2, <1>3, <1>4, <2>1 DEF ReadSound, Engaged
<1>8. \A p \in Requests : ReadSound(p)' /\ Engaged(p)'
  BY <1>4, <1>5, <1>7, ReadsStay
<1>9. StepsAreEarned' /\ AnnouncedWhenStored'
  BY <1>1, <1>5, EarnedStays DEF IInv, AnnouncedWhenStored
<1>10. PassNeedsLessons'
  <2> SUFFICES ASSUME NEW n \in Members, NEW d \in passed'[n]
               PROVE  \E cat \in Served' : LessonsDone(cat, d, completed'[n])
    BY DEF PassNeedsLessons
  <2>1. CASE n = m /\ d = c
    <3>1. LessonsDone(Cat(q), c, completed'[m])
      BY <1>1, <1>2 DEF LessonsDone, ReadSound
    <3>2. Cat(q) \in Served'
      BY <1>1, <1>2 DEF Cat, Served, ReadSound
    <3>3. QED BY <2>1, <3>1, <3>2
  <2>2. CASE d \in passed[n]
    <3>1. PICK cat \in Served : LessonsDone(cat, d, completed[n])
      BY <2>2 DEF IInv, PassNeedsLessons
    <3>2. QED BY <1>1, <1>5, <3>1, ServedStay
  <2>3. QED BY <1>1, <1>2, <2>1, <2>2 DEF IInv, TypeOK
<1>11. QED BY <1>6, <1>8, <1>9, <1>10 DEF IInv

\* What a handler finds new is earned, by its catalog and by what is there now.
LEMMA FreshIsEarned ==
    ASSUME IInv, NEW q \in Requests, pc[q] = "record"
    PROVE  LET m == req[q].member IN
           /\ Fresh(q) \subseteq Steps
           /\ \A n \in Fresh(q) \ {Bronze} : Deserves(Cat(q), n, completed[m], passed[m])
           /\ Bronze \in Fresh(q) => BronzeLevels \subseteq steps[m] \cup Fresh(q)
<1> DEFINE m == req[q].member
           done == FinishedLevels(Cat(q), req[q].completed, req[q].passed)
<1>1. ReadSound(q) /\ m \in Members /\ req[q].steps \subseteq steps[m]
      /\ req[q].completed \subseteq completed[m] /\ req[q].passed \subseteq passed[m]
  BY DEF IInv, ReadSound
<1>2. Fresh(q) \subseteq done \cup {Bronze} /\ done \subseteq Levels
  BY DEF Fresh, StepsEarned, EarnedSteps, FinishedLevels
<1>3. done \subseteq Fresh(q) \cup req[q].steps
  BY DEF Fresh, StepsEarned, EarnedSteps
<1>4. Bronze \in Fresh(q) => BronzeLevels \subseteq done \cup req[q].steps
  <2>1. Bronze \notin Levels /\ Bronze \notin BronzeLevels
    BY StandingAssumption DEF Levels
  <2>2. QED BY <1>2, <2>1 DEF Fresh, StepsEarned, EarnedSteps
<1>5. ASSUME NEW n \in Fresh(q) \ {Bronze} PROVE Deserves(Cat(q), n, completed[m], passed[m])
  <2>1. Finished(Cat(q), n, req[q].completed, req[q].passed)
    BY <1>2 DEF FinishedLevels
  <2>2. Deserves(Cat(q), n, req[q].completed, req[q].passed)
    BY <2>1, FinishedIsDeserved
  <2>3. QED BY <1>1, <2>2, DeservesIsMonotonic
<1>6. QED BY <1>1, <1>2, <1>3, <1>4, <1>5 DEF Steps

LEMMA RecordPreserves == ASSUME IInv, NEW q \in Requests, Record(q) PROVE IInv'
<1> DEFINE m == req[q].member
           rec == [req[q] EXCEPT !.newSteps = Inserted(q)]
<1>1. /\ pc[q] = "record" /\ pc' = [pc EXCEPT ![q] = "report"]
      /\ steps' = [steps EXCEPT ![m] = @ \cup Fresh(q)]
      /\ req' = [req EXCEPT ![q] = rec]
      /\ announced' = [announced EXCEPT ![m] =
                         [s \in Steps |-> IF s \in Inserted(q) THEN @[s] + 1 ELSE @[s]]]
      /\ owed' = [owed EXCEPT ![m] = IF Undisturbed(q) THEN @ \ {"steps"} ELSE @ \cup {"steps"}]
      /\ UNCHANGED <<version, completed, passed, pushed>>
  BY DEF Record, Step
<1>2. req[q] \in RequestRecord /\ ReadSound(q) /\ m \in Members /\ req[q].unread = {}
  BY <1>1 DEF IInv, TypeOK, ReadSound
<1>3. /\ Fresh(q) \subseteq Steps
      /\ \A n \in Fresh(q) \ {Bronze} : Deserves(Cat(q), n, completed[m], passed[m])
      /\ Bronze \in Fresh(q) => BronzeLevels \subseteq steps[m] \cup Fresh(q)
  BY <1>1, FreshIsEarned
<1>4. /\ rec \in RequestRecord
      /\ rec.member = m /\ rec.version = req[q].version /\ rec.unread = {}
      /\ rec.completed = req[q].completed /\ rec.passed = req[q].passed
      /\ rec.steps = req[q].steps
  BY <1>2, <1>3 DEF RequestRecord, Inserted
<1>5. pc'[q] = "report" /\ req'[q] = rec /\ OthersStay(q)
  BY <1>1 DEF IInv, TypeOK, OthersStay
<1>6. /\ steps'[m] = steps[m] \cup Fresh(q)
      /\ \A n \in Members : n # m => steps'[n] = steps[n] /\ announced'[n] = announced[n]
      /\ announced'[m] = [s \in Steps |-> IF s \in Inserted(q) THEN announced[m][s] + 1
                                           ELSE announced[m][s]]
  BY <1>1, <1>2 DEF IInv, TypeOK
<1>7. Grow
  BY <1>1, <1>2, <1>6 DEF Grow, IInv, TypeOK
<1>8. AnnouncedWhenStored'
  <2> SUFFICES ASSUME NEW n \in Members, NEW s \in Steps
               PROVE  announced'[n][s] = IF s \in steps'[n] THEN 1 ELSE 0
    BY DEF AnnouncedWhenStored
  <2>1. announced[n][s] = IF s \in steps[n] THEN 1 ELSE 0
    BY DEF IInv, AnnouncedWhenStored
  <2>2. QED BY <1>6, <2>1 DEF Inserted
<1>9. TypeOK'
  <2>1. steps' \in [Members -> SUBSET Steps]
    BY <1>1, <1>2, <1>3 DEF IInv, TypeOK
  <2>2. pc' \in [Requests -> {"idle", "mark", "reading", "rereading", "pass", "record", "report"}]
        /\ req' \in [Requests -> RequestRecord]
    BY <1>1, <1>4 DEF IInv, TypeOK
  <2>3. \A p \in Requests : pc'[p] \in {"pass", "record", "report"} => req'[p].unread = {}
    BY <1>4, <1>5 DEF OthersStay, IInv, TypeOK
  <2>4. announced' \in [Members -> [Steps -> Nat]]
    <3>1. announced[m] \in [Steps -> Nat]
      BY <1>2 DEF IInv, TypeOK
    <3>2. announced'[m] \in [Steps -> Nat]
      BY <1>6, <3>1
    <3>3. QED BY <1>1, <1>6, <3>2 DEF IInv, TypeOK
  <2>5. owed' \in [Members -> SUBSET {"steps", "push"}]
    BY <1>1, <1>2 DEF IInv, TypeOK
  <2>6. QED BY <1>1, <2>1, <2>2, <2>3, <2>4, <2>5 DEF IInv, TypeOK
<1>10. ReadSound(q)' /\ Engaged(q)'
  BY <1>1, <1>2, <1>4, <1>5, <1>6 DEF ReadSound, Engaged
<1>11. \A p \in Requests : ReadSound(p)' /\ Engaged(p)'
  BY <1>5, <1>7, <1>10, ReadsStay
<1>12. PassNeedsLessons'
  BY <1>1, <1>7, PassesStay DEF IInv
<1>13. StepsAreEarned'
  <2>1. ASSUME NEW n \in Members, NEW s \in steps'[n] \ {Bronze}
        PROVE  \E cat \in Served' : Deserves(cat, s, completed'[n], passed'[n])
    <3>1. CASE n = m /\ s \in Fresh(q)
      <4>1. Deserves(Cat(q), s, completed'[n], passed'[n])
        BY <1>1, <1>3, <2>1, <3>1
      <4>2. Cat(q) \in Served'
        BY <1>1, <1>2 DEF Cat, Served, ReadSound
      <4>3. QED BY <4>1, <4>2
    <3>2. CASE s \in steps[n]
      <4>1. PICK cat \in Served : Deserves(cat, s, completed[n], passed[n])
        BY <2>1, <3>2 DEF IInv, StepsAreEarned
      <4>2. QED BY <1>1, <1>7, <4>1, ServedStay
    <3>3. QED BY <1>6, <2>1, <3>1, <3>2
  <2>2. ASSUME NEW n \in Members, Bronze \in steps'[n] PROVE BronzeLevels \subseteq steps'[n]
    BY <1>3, <1>6, <2>2 DEF IInv, StepsAreEarned
  <2>3. QED BY <2>1, <2>2 DEF StepsAreEarned
<1>14. QED BY <1>8, <1>9, <1>11, <1>12, <1>13 DEF IInv

LEMMA DeployPreserves == ASSUME IInv, Deploy PROVE IInv'
<1>1. /\ version' = version + 1 /\ version < Len(Catalogs)
      /\ UNCHANGED <<completed, passed, steps, pc, req, announced, pushed>>
  BY DEF Deploy, tables
<1>2. Grow
  BY <1>1 DEF Grow, IInv, TypeOK
<1>3. owed' \in [Members -> SUBSET {"steps", "push"}]
  BY DEF Deploy, IInv, TypeOK
<1>4. TypeOK'
  BY <1>1, <1>3, AcademyAssumption DEF IInv, TypeOK
<1>5. \A p \in Requests : ReadSound(p)' /\ Engaged(p)'
  BY <1>1, <1>2 DEF ReadSound, Engaged, Cat, IInv, TypeOK
<1>6. StepsAreEarned' /\ PassNeedsLessons' /\ AnnouncedWhenStored'
  BY <1>1, <1>2, EarnedStays, PassesStay DEF tables, IInv, AnnouncedWhenStored
<1>7. QED BY <1>4, <1>5, <1>6 DEF IInv

-----------------------------------------------------------------------------
(* The theorems *)

\* The invariant holds in every reachable state, for every catalog, any number of
\* concurrent requests, and crashes between any two statements.
THEOREM Invariance == Spec => []IInv
<1>1. Init => IInv
  BY InitEstablishes
<1>2. IInv /\ [Next]_vars => IInv'
  <2> SUFFICES ASSUME IInv, [Next]_vars PROVE IInv'
    OBVIOUS
  <2>1. ASSUME NEW q \in Requests, NEW m \in Members, NEW l \in Lessons, CompleteLesson(q, m, l)
        PROVE  IInv'
    BY <2>1, CompleteLessonPreserves
  <2>2. ASSUME NEW q \in Requests, NEW m \in Members, NEW c \in Chapters, SubmitCheckpoint(q, m, c)
        PROVE  IInv'
    BY <2>2, SubmitCheckpointPreserves
  <2>3. ASSUME NEW q \in Requests,
               Read(q) \/ Mark(q) \/ MarkRead(q) \/ Grade(q) \/ Pass(q)
        PROVE  IInv'
    BY <2>3, ReadPreserves, MarkPreserves, MarkReadPreserves, GradePreserves, PassPreserves
  <2>4. ASSUME NEW q \in Requests, Record(q) \/ Report(q) \/ Crash(q)
        PROVE  IInv'
    BY <2>4, RecordPreserves, ReportPreserves, CrashPreserves
  <2>5. CASE Deploy
    BY <2>5, DeployPreserves
  <2>6. CASE UNCHANGED vars
    BY <2>6 DEF vars, tables, history, IInv, TypeOK, ReadSound, Engaged, Cat, StepsAreEarned,
                PassNeedsLessons, AnnouncedWhenStored, Served
  <2>7. QED BY <2>1, <2>2, <2>3, <2>4, <2>5, <2>6 DEF Next
<1>3. QED BY <1>1, <1>2, PTL DEF Spec

\* Types, and no step is recorded before the progress it rests on was read.
THEOREM TypeCorrect == Spec => []TypeOK
<1>1. IInv => TypeOK
  BY DEF IInv
<1>2. QED BY <1>1, Invariance, PTL

\* No level and no rank is ever stored that the member has not earned, however stale the
\* reads of concurrent requests and whatever was deployed meanwhile.
THEOREM OnlyEarnedSteps == Spec => []StepsAreEarned
<1>1. IInv => StepsAreEarned
  BY DEF IInv
<1>2. QED BY <1>1, Invariance, PTL

\* No checkpoint is stored as passed whose lessons were not done, by a catalog served.
THEOREM LessonsBeforeCheckpoint == Spec => []PassNeedsLessons
<1>1. IInv => PassNeedsLessons
  BY DEF IInv
<1>2. QED BY <1>1, Invariance, PTL

\* Of several requests that earn a step together, one reports it.
THEOREM CelebratedOnce == Spec => []AnnouncedOnce
<1>1. IInv => AnnouncedOnce
  BY DEF IInv, AnnouncedWhenStored, AnnouncedOnce
<1>2. QED BY <1>1, Invariance, PTL

-----------------------------------------------------------------------------
(* What was earned is stored, and its rank pushed *)

Stored(m) ==
    /\ FinishedLevels(Catalogs[version], completed[m], passed[m]) \subseteq steps[m]
    /\ BronzeLevels \subseteq steps[m] => Bronze \in steps[m]

\* A request that has still to store what its member has earned, and one that has to push.
Recording(q, m) == pc[q] \in {"rereading", "record"} /\ req[q].member = m

Pushing(q, m) == pc[q] = "report" /\ req[q].member = m /\ Bronze \in req[q].newSteps

\* What a request has stored of its own is in what it will be judged by.
OwnRead(q) ==
    /\ pc[q] = "mark" => req[q].chapter = None
    /\ pc[q] \in {"reading", "pass"} => req[q].lesson = None
    /\ pc[q] = "rereading" =>
         /\ req[q].chapter = None
         /\ req[q].lesson \in completed[req[q].member]
         /\ "completed" \notin req[q].unread => req[q].lesson \in req[q].completed
    /\ pc[q] = "record" =>
         \/ req[q].chapter = None /\ req[q].lesson \in req[q].completed
         \/ req[q].lesson = None /\ req[q].chapter \in req[q].passed

StoredOrOwed ==
    \A m \in Members :
        "steps" \in owed[m] \/ Stored(m) \/ \E q \in Requests : Recording(q, m)

PushedOrOwed ==
    \A m \in Members : Bronze \in steps[m] =>
        m \in pushed \/ "push" \in owed[m] \/ \E q \in Requests : Pushing(q, m)

NothingMissed == (\A q \in Requests : OwnRead(q)) /\ StoredOrOwed /\ PushedOrOwed

LEMMA OwnReadsStay ==
    ASSUME IInv, \A q \in Requests : OwnRead(q), NEW q, OthersStay(q),
           \A m \in Members : completed[m] \subseteq completed'[m],
           q \in Requests => OwnRead(q)'
    PROVE  \A p \in Requests : OwnRead(p)'
<1> SUFFICES ASSUME NEW p \in Requests, p # q PROVE OwnRead(p)'
  OBVIOUS
<1>1. pc'[p] = pc[p] /\ req'[p] = req[p] /\ OwnRead(p)
  BY DEF OthersStay
<1>2. pc[p] = "rereading" => req[p].member \in Members
  BY DEF IInv, ReadSound
<1>3. QED BY <1>1, <1>2 DEF OwnRead

\* A step that stores no step of a member keeps the promise, if it leaves the member's
\* progress as it was, or somebody who will store what comes of it.
LEMMA PromisesStay ==
    ASSUME NothingMissed, NEW q \in Requests, OthersStay(q), version' = version, steps' = steps,
           \A m \in Members : owed[m] \subseteq owed'[m], pushed \subseteq pushed',
           \A m \in Members :
             \/ Recording(q, m)' \/ "steps" \in owed'[m]
             \/ /\ ~Recording(q, m)
                /\ completed'[m] = completed[m] /\ passed'[m] = passed[m],
           \A m \in Members :
             Pushing(q, m) => Pushing(q, m)' \/ m \in pushed' \/ "push" \in owed'[m]
    PROVE  StoredOrOwed' /\ PushedOrOwed'
<1>1. ASSUME NEW p \in Requests, p # q, NEW m \in Members
      PROVE  (Recording(p, m) => Recording(p, m)') /\ (Pushing(p, m) => Pushing(p, m)')
  BY <1>1 DEF OthersStay, Recording, Pushing
<1>2. ASSUME NEW m \in Members
      PROVE  "steps" \in owed'[m] \/ Stored(m)' \/ \E p \in Requests : Recording(p, m)'
  <2>1. CASE Recording(q, m)' \/ "steps" \in owed'[m]
    BY <2>1
  <2>2. CASE ~Recording(q, m) /\ completed'[m] = completed[m] /\ passed'[m] = passed[m]
    <3>1. Stored(m) => Stored(m)'
      BY <2>2 DEF Stored
    <3>2. "steps" \in owed[m] \/ Stored(m) \/ \E p \in Requests : Recording(p, m)
      BY DEF NothingMissed, StoredOrOwed
    <3>3. QED BY <1>1, <2>2, <3>1, <3>2
  <2>3. QED BY <2>1, <2>2
<1>3. ASSUME NEW m \in Members, Bronze \in steps'[m]
      PROVE  m \in pushed' \/ "push" \in owed'[m] \/ \E p \in Requests : Pushing(p, m)'
  <2>1. m \in pushed \/ "push" \in owed[m] \/ \E p \in Requests : Pushing(p, m)
    BY <1>3 DEF NothingMissed, PushedOrOwed
  <2>2. QED BY <1>1, <2>1
<1>4. QED BY <1>2, <1>3 DEF StoredOrOwed, PushedOrOwed

\* A request that goes from one place to another without storing anything or giving up.
LEMMA QuietStep ==
    ASSUME IInv, NothingMissed, NEW q \in Requests, OthersStay(q), OwnRead(q)',
           UNCHANGED <<version, tables, history>>,
           \A m \in Members : Recording(q, m) => Recording(q, m)', pc[q] # "report"
    PROVE  NothingMissed'
<1>1. /\ completed' = completed /\ passed' = passed /\ steps' = steps /\ version' = version
      /\ owed' = owed /\ pushed' = pushed
  BY DEF tables, history
<1>2. \A p \in Requests : OwnRead(p)'
  BY <1>1, OwnReadsStay DEF NothingMissed
<1>3. \A m \in Members : ~Pushing(q, m)
  BY DEF Pushing
<1>4. StoredOrOwed' /\ PushedOrOwed'
  BY <1>1, <1>3, PromisesStay
<1>5. QED BY <1>2, <1>4 DEF NothingMissed

LEMMA ArrivalsMissNothing ==
    ASSUME IInv, NothingMissed, NEW q \in Requests, NEW m \in Members,
           \/ \E l \in Lessons : CompleteLesson(q, m, l)
           \/ \E c \in Chapters : SubmitCheckpoint(q, m, c)
    PROVE  NothingMissed'
<1>1. /\ pc[q] = "idle" /\ UNCHANGED <<version, tables, history>> /\ OthersStay(q)
  BY DEF CompleteLesson, SubmitCheckpoint, Step, OthersStay, IInv, TypeOK
<1>2. \/ pc'[q] = "mark" /\ req'[q].chapter = None
      \/ pc'[q] = "reading" /\ req'[q].lesson = None
  <2>1. Nothing.chapter = None /\ Nothing.lesson = None
    BY DEF Nothing
  <2>2. ASSUME NEW l \in Lessons, CompleteLesson(q, m, l)
        PROVE  pc'[q] = "mark" /\ req'[q].chapter = None
    <3>1. /\ pc'[q] = "mark"
          /\ req'[q] = [Nothing EXCEPT !.member = m, !.lesson = l, !.version = version]
      BY <2>2 DEF CompleteLesson, Step, IInv, TypeOK
    <3>2. QED BY <2>1, <3>1 DEF Nothing
  <2>3. ASSUME NEW c \in Chapters, SubmitCheckpoint(q, m, c)
        PROVE  pc'[q] = "reading" /\ req'[q].lesson = None
    <3>1. /\ pc'[q] = "reading"
          /\ req'[q] = [Nothing EXCEPT !.member = m, !.chapter = c, !.version = version,
                                       !.unread = AllQueries]
      BY <2>3 DEF SubmitCheckpoint, Step, IInv, TypeOK
    <3>2. QED BY <2>1, <3>1 DEF Nothing
  <2>4. QED BY <2>2, <2>3
<1>3. OwnRead(q)'
  BY <1>2 DEF OwnRead
<1>4. \A k \in Members : ~Recording(q, k)
  BY <1>1 DEF Recording
<1>5. QED BY <1>1, <1>3, <1>4, QuietStep

LEMMA ReadMissesNothing ==
    ASSUME IInv, NothingMissed, NEW q \in Requests, Read(q) PROVE NothingMissed'
<1>1. PICK t \in req[q].unread : req' = [req EXCEPT
           ![q].unread = @ \ {t},
           ![q].completed = IF t = "completed" THEN completed[req[q].member] ELSE @,
           ![q].passed = IF t = "passed" THEN passed[req[q].member] ELSE @,
           ![q].steps = IF t = "steps" THEN steps[req[q].member] ELSE @]
  BY DEF Read
<1>2. pc[q] \in {"reading", "rereading"} /\ UNCHANGED <<version, tables, pc, history>>
  BY DEF Read
<1>3. req[q] \in RequestRecord /\ OwnRead(q) /\ OthersStay(q)
  BY <1>1, <1>2 DEF IInv, TypeOK, NothingMissed, OthersStay
<1>4. /\ req'[q].member = req[q].member /\ req'[q].lesson = req[q].lesson
      /\ req'[q].chapter = req[q].chapter /\ req'[q].unread = req[q].unread \ {t}
      /\ req'[q].completed = IF t = "completed" THEN completed[req[q].member] ELSE req[q].completed
  BY <1>1, <1>3 DEF IInv, TypeOK, RequestRecord
<1>5. OwnRead(q)'
  BY <1>2, <1>3, <1>4 DEF OwnRead, tables
<1>6. \A m \in Members : Recording(q, m) => Recording(q, m)'
  BY <1>2, <1>4 DEF Recording
<1>7. QED BY <1>2, <1>3, <1>5, <1>6, QuietStep

LEMMA MarkReadMissesNothing ==
    ASSUME IInv, NothingMissed, NEW q \in Requests, MarkRead(q) PROVE NothingMissed'
<1>1. /\ pc[q] = "rereading" /\ req[q].unread = {} /\ pc'[q] = "record" /\ req' = req
      /\ UNCHANGED <<version, tables, history>> /\ OthersStay(q) /\ OwnRead(q)
  BY DEF MarkRead, Step, IInv, TypeOK, OthersStay, NothingMissed
<1>2. OwnRead(q)'
  BY <1>1 DEF OwnRead
<1>3. \A m \in Members : Recording(q, m) => Recording(q, m)'
  BY <1>1 DEF Recording
<1>4. QED BY <1>1, <1>2, <1>3, QuietStep

LEMMA GradeMissesNothing ==
    ASSUME IInv, NothingMissed, NEW q \in Requests, Grade(q) PROVE NothingMissed'
<1>1. /\ pc[q] = "reading" /\ OwnRead(q) /\ UNCHANGED <<version, tables, history>> /\ OthersStay(q)
      /\ \/ pc'[q] = "pass" /\ req' = req
         \/ pc'[q] = "idle"
  BY DEF Grade, Answer, Step, IInv, TypeOK, OthersStay, NothingMissed
<1>2. OwnRead(q)'
  BY <1>1 DEF OwnRead
<1>3. \A m \in Members : ~Recording(q, m)
  BY <1>1 DEF Recording
<1>4. QED BY <1>1, <1>2, <1>3, QuietStep

\* Whoever marks a lesson or passes a checkpoint goes on to store what comes of it.
LEMMA WritesMissNothing ==
    ASSUME IInv, NothingMissed, NEW q \in Requests, Mark(q) \/ Pass(q) PROVE NothingMissed'
<1>0. PICK m \in Members : m = req[q].member
  BY DEF Mark, Pass, IInv, ReadSound
<1>1. m \in Members /\ req[q] \in RequestRecord /\ OwnRead(q) /\ Engaged(q)
      /\ pc[q] \in {"mark", "pass"}
  BY DEF Mark, Pass, IInv, TypeOK, NothingMissed
<1>2. /\ version' = version /\ steps' = steps /\ owed' = owed /\ pushed' = pushed /\ OthersStay(q)
      /\ \A k \in Members : k # m => completed'[k] = completed[k] /\ passed'[k] = passed[k]
      /\ \A k \in Members : completed[k] \subseteq completed'[k]
  <2>1. ASSUME NEW f \in [Members -> SUBSET Lessons], NEW x
        PROVE  \A k \in Members : /\ k # m => [f EXCEPT ![m] = @ \cup {x}][k] = f[k]
                                  /\ f[k] \subseteq [f EXCEPT ![m] = @ \cup {x}][k]
    OBVIOUS
  <2>2. ASSUME NEW f \in [Members -> SUBSET Chapters], NEW x
        PROVE  \A k \in Members : k # m => [f EXCEPT ![m] = @ \cup {x}][k] = f[k]
    OBVIOUS
  <2>3. completed \in [Members -> SUBSET Lessons] /\ passed \in [Members -> SUBSET Chapters]
    BY DEF IInv, TypeOK
  <2>4. OthersStay(q)
    BY DEF Mark, Pass, Step, OthersStay, IInv, TypeOK
  <2>5. CASE Mark(q)
    <3>1. /\ completed' = [completed EXCEPT ![m] = @ \cup {req[q].lesson}]
          /\ UNCHANGED <<version, passed, steps, pushed, owed>>
      BY <1>0, <2>5 DEF Mark, history
    <3>2. QED BY <2>1, <2>3, <2>4, <3>1
  <2>6. CASE Pass(q)
    <3>1. /\ passed' = [passed EXCEPT ![m] = @ \cup {req[q].chapter}]
          /\ UNCHANGED <<version, completed, steps, pushed, owed>>
      BY <1>0, <2>6 DEF Pass, history
    <3>2. QED BY <2>2, <2>3, <2>4, <3>1
  <2>7. QED BY <2>5, <2>6
<1>3. req'[q].member = m /\ pc'[q] \in {"rereading", "record"}
  BY <1>0, <1>1 DEF Mark, Pass, Step, IInv, TypeOK, RequestRecord
<1>4. OwnRead(q)'
  <2>1. CASE Mark(q)
    <3>1. /\ pc'[q] = "rereading" /\ req'[q].chapter = None /\ req'[q].unread = AllQueries
          /\ req'[q].lesson = req[q].lesson /\ req[q].lesson \in completed'[m]
      BY <1>0, <1>1, <2>1 DEF Mark, Step, OwnRead, IInv, TypeOK, RequestRecord
    <3>2. QED BY <1>3, <3>1 DEF OwnRead, AllQueries
  <2>2. CASE Pass(q)
    <3>1. /\ pc'[q] = "record" /\ req'[q].lesson = None /\ req'[q].chapter = req[q].chapter
          /\ req[q].chapter \in req'[q].passed
      BY <1>1, <2>2 DEF Pass, Step, OwnRead, IInv, TypeOK, RequestRecord
    <3>2. QED BY <3>1 DEF OwnRead
  <2>3. QED BY <2>1, <2>2
<1>5. \A p \in Requests : OwnRead(p)'
  BY <1>2, <1>4, OwnReadsStay DEF NothingMissed
<1>6. Recording(q, m)'
  BY <1>3 DEF Recording
<1>7. \A k \in Members : ~Recording(q, k) /\ ~Pushing(q, k)
  BY <1>1 DEF Recording, Pushing
<1>8. StoredOrOwed' /\ PushedOrOwed'
  BY <1>2, <1>6, <1>7, PromisesStay
<1>9. QED BY <1>5, <1>8 DEF NothingMissed

\* A request that nothing has disturbed stores all there is to store.
LEMMA UndisturbedStoresAll ==
    ASSUME IInv, NothingMissed, NEW q \in Requests, Record(q), Undisturbed(q),
           NEW m \in Members, m = req[q].member
    PROVE  Stored(m)'
<1> DEFINE r == req[q]
           done == FinishedLevels(Cat(q), r.completed, r.passed)
           all == FinishedLevels(Catalogs[version], completed[m], passed[m])
<1>1. /\ pc[q] = "record" /\ m \in Members /\ OwnRead(q) /\ r \in RequestRecord
      /\ version' = version /\ completed' = completed /\ passed' = passed
      /\ steps'[m] = steps[m] \cup Fresh(q) /\ r.steps \subseteq steps[m]
  BY DEF Record, IInv, TypeOK, ReadSound, NothingMissed
<1>2. /\ Cat(q) = Catalogs[version] /\ steps[m] = r.steps
      /\ completed[m] \subseteq r.completed \cup {r.lesson} /\ completed[m] \subseteq Lessons
      /\ passed[m] \subseteq r.passed \cup {r.chapter} /\ passed[m] \subseteq Chapters
  BY <1>1 DEF Undisturbed, Cat, IInv, TypeOK
<1>3. completed[m] \subseteq r.completed /\ passed[m] \subseteq r.passed
  BY <1>1, <1>2, AcademyAssumption DEF OwnRead
<1>4. all \subseteq done
  BY <1>2, <1>3, FinishedIsMonotonic DEF FinishedLevels
<1>5. /\ done \subseteq Fresh(q) \cup r.steps
      /\ BronzeLevels \subseteq EarnedSteps(Cat(q), r.completed, r.passed) \cup r.steps
           => Bronze \in Fresh(q) \cup r.steps
      /\ Fresh(q) \subseteq EarnedSteps(Cat(q), r.completed, r.passed) \cup {Bronze}
  BY DEF Fresh, StepsEarned, EarnedSteps
<1>6. Bronze \notin BronzeLevels
  BY StandingAssumption
<1>7. BronzeLevels \subseteq steps'[m] => Bronze \in steps'[m]
  BY <1>1, <1>2, <1>5, <1>6
<1>8. all \subseteq steps'[m]
  BY <1>1, <1>4, <1>5
<1>9. all = FinishedLevels(Catalogs[version'], completed'[m], passed'[m])
  BY <1>1
<1>10. QED BY <1>7, <1>8, <1>9 DEF Stored

LEMMA RecordMissesNothing ==
    ASSUME IInv, NothingMissed, NEW q \in Requests, Record(q) PROVE NothingMissed'
<1>0. PICK m \in Members : m = req[q].member
  BY DEF Record, IInv, ReadSound
<1>1. /\ m \in Members /\ pc[q] = "record" /\ pc'[q] = "report" /\ OthersStay(q)
      /\ version' = version /\ completed' = completed /\ passed' = passed /\ pushed' = pushed
      /\ req'[q].member = m /\ req'[q].newSteps = Inserted(q)
      /\ steps'[m] = steps[m] \cup Fresh(q)
      /\ owed'[m] = IF Undisturbed(q) THEN owed[m] \ {"steps"} ELSE owed[m] \cup {"steps"}
      /\ \A k \in Members : k # m => steps'[k] = steps[k] /\ owed'[k] = owed[k]
  <2>1. /\ pc[q] = "record" /\ pc'[q] = "report" /\ OthersStay(q)
        /\ version' = version /\ completed' = completed /\ passed' = passed /\ pushed' = pushed
    BY DEF Record, Step, OthersStay, IInv, TypeOK
  <2>2. req'[q].member = m /\ req'[q].newSteps = Inserted(q)
    <3>1. req'[q] = [req[q] EXCEPT !.newSteps = Inserted(q)] /\ req[q] \in RequestRecord
      BY DEF Record, IInv, TypeOK
    <3>2. QED BY <1>0, <3>1 DEF RequestRecord
  <2>3. /\ steps'[m] = steps[m] \cup Fresh(q)
        /\ \A k \in Members : k # m => steps'[k] = steps[k]
    BY <1>0 DEF Record, IInv, TypeOK
  <2>4. /\ owed'[m] = IF Undisturbed(q) THEN owed[m] \ {"steps"} ELSE owed[m] \cup {"steps"}
        /\ \A k \in Members : k # m => owed'[k] = owed[k]
    BY <1>0 DEF Record, IInv, TypeOK
  <2>5. QED BY <2>1, <2>2, <2>3, <2>4
<1>2. OwnRead(q)'
  BY <1>1 DEF OwnRead
<1>3. \A p \in Requests : OwnRead(p)'
  BY <1>1, <1>2, OwnReadsStay DEF NothingMissed
<1>4. ASSUME NEW p \in Requests, p # q, NEW k \in Members
      PROVE  (Recording(p, k) => Recording(p, k)') /\ (Pushing(p, k) => Pushing(p, k)')
  BY <1>1, <1>4 DEF OthersStay, Recording, Pushing
<1>5. StoredOrOwed'
  <2> SUFFICES ASSUME NEW k \in Members
               PROVE  "steps" \in owed'[k] \/ Stored(k)' \/ \E p \in Requests : Recording(p, k)'
    BY DEF StoredOrOwed
  <2>1. CASE k = m
    <3>1. CASE Undisturbed(q)
      BY <1>0, <2>1, <3>1, UndisturbedStoresAll
    <3>2. CASE ~Undisturbed(q)
      BY <1>1, <2>1, <3>2
    <3>3. QED BY <3>1, <3>2
  <2>2. CASE k # m
    <3>1. "steps" \in owed[k] \/ Stored(k) \/ \E p \in Requests : Recording(p, k)
      BY DEF NothingMissed, StoredOrOwed
    <3>2. ~Recording(q, k)
      BY <1>0, <2>2 DEF Recording
    <3>3. Stored(k) => Stored(k)'
      BY <1>1, <2>2 DEF Stored
    <3>4. QED BY <1>1, <1>4, <2>2, <3>1, <3>2, <3>3
  <2>3. QED BY <2>1, <2>2
<1>6. PushedOrOwed'
  <2> SUFFICES ASSUME NEW k \in Members, Bronze \in steps'[k]
               PROVE  k \in pushed' \/ "push" \in owed'[k] \/ \E p \in Requests : Pushing(p, k)'
    BY DEF PushedOrOwed
  <2>1. CASE Bronze \in steps[k]
    <3>1. k \in pushed \/ "push" \in owed[k] \/ \E p \in Requests : Pushing(p, k)
      BY <2>1 DEF NothingMissed, PushedOrOwed
    <3>2. ~Pushing(q, k)
      BY <1>1 DEF Pushing
    <3>3. "push" \in owed[k] => "push" \in owed'[k]
      BY <1>1
    <3>4. QED BY <1>1, <1>4, <3>1, <3>2, <3>3
  <2>2. CASE Bronze \notin steps[k]
    <3>1. k = m /\ Bronze \in Inserted(q)
      BY <1>0, <1>1, <2>2 DEF Inserted
    <3>2. Pushing(q, k)'
      BY <1>1, <3>1 DEF Pushing
    <3>3. QED BY <3>2
  <2>3. QED BY <2>1, <2>2
<1>7. QED BY <1>3, <1>5, <1>6 DEF NothingMissed

\* A report pushes a new rank, and a server that dies owes what it had still to do.
LEMMA EndsMissNothing ==
    ASSUME IInv, NothingMissed, NEW q \in Requests, Report(q) \/ Crash(q) PROVE NothingMissed'
<1> DEFINE m == req[q].member
<1>1. /\ m \in Members /\ pc'[q] = "idle" /\ OthersStay(q)
      /\ version' = version /\ completed' = completed /\ passed' = passed /\ steps' = steps
      /\ pushed \subseteq pushed' /\ \A k \in Members : owed[k] \subseteq owed'[k]
  BY DEF Report, Crash, Answer, Step, tables, OthersStay, IInv, TypeOK, ReadSound
<1>2. OwnRead(q)'
  BY <1>1 DEF OwnRead
<1>3. \A p \in Requests : OwnRead(p)'
  BY <1>1, <1>2, OwnReadsStay DEF NothingMissed
<1>4. ASSUME NEW k \in Members
      PROVE  /\ Recording(q, k) => "steps" \in owed'[k]
             /\ Pushing(q, k) => k \in pushed' \/ "push" \in owed'[k]
  <2>1. CASE Report(q)
    BY <2>1 DEF Report, GainsRank, Recording, Pushing
  <2>2. CASE Crash(q)
    <3>1. owed'[m] = owed[m] \cup Undone(q)
      BY <1>1, <2>2 DEF Crash, IInv, TypeOK
    <3>2. QED BY <3>1 DEF Undone, GainsRank, Recording, Pushing
  <2>3. QED BY <2>1, <2>2
<1>5. StoredOrOwed' /\ PushedOrOwed'
  BY <1>1, <1>4, PromisesStay
<1>6. QED BY <1>3, <1>5 DEF NothingMissed

LEMMA DeployMissesNothing == ASSUME IInv, NothingMissed, Deploy PROVE NothingMissed'
<1>1. UNCHANGED <<completed, passed, steps, pc, req, pushed>> /\ version' = version + 1
  BY DEF Deploy, tables
<1>2. \A q \in Requests : OwnRead(q)'
  BY <1>1 DEF NothingMissed, OwnRead
<1>3. ASSUME NEW m \in Members
      PROVE  /\ owed[m] \subseteq owed'[m]
             /\ "steps" \notin owed'[m] =>
                  FinishedLevels(Catalogs[version'], completed[m], passed[m])
                    \subseteq FinishedLevels(Catalogs[version], completed[m], passed[m])
  BY <1>1 DEF Deploy
<1>4. StoredOrOwed'
  BY <1>1, <1>3 DEF NothingMissed, StoredOrOwed, Stored, Recording
<1>5. PushedOrOwed'
  BY <1>1, <1>3 DEF NothingMissed, PushedOrOwed, Pushing
<1>6. QED BY <1>2, <1>4, <1>5 DEF NothingMissed

\* Between requests no finished level, no earned rank and no push of one is missing, unless
\* a request died or was disturbed, or a deployment finished the level (progress.ts,
\* academy-plugin.ts).
THEOREM NothingIsLost == Spec => []NothingLost
<1>1. Init => NothingMissed
  <2> SUFFICES ASSUME Init PROVE NothingMissed
    OBVIOUS
  <2>1. \A q \in Requests : OwnRead(q)
    BY DEF Init, OwnRead
  <2>2. ASSUME NEW m \in Members PROVE Stored(m) /\ Bronze \notin steps[m]
    BY StandingAssumption DEF Init, Stored, FinishedLevels, Finished, Complete, LessonsDone, CountedFor
  <2>3. QED BY <2>1, <2>2 DEF NothingMissed, StoredOrOwed, PushedOrOwed
<1>2. IInv /\ NothingMissed /\ [Next]_vars => NothingMissed'
  <2> SUFFICES ASSUME IInv, NothingMissed, [Next]_vars PROVE NothingMissed'
    OBVIOUS
  <2>1. CASE UNCHANGED vars
    BY <2>1 DEF vars, tables, history, NothingMissed, OwnRead, StoredOrOwed, PushedOrOwed, Stored,
                Recording, Pushing
  <2>2. QED
    BY <2>1, ArrivalsMissNothing, ReadMissesNothing, WritesMissNothing, MarkReadMissesNothing,
       GradeMissesNothing, RecordMissesNothing, EndsMissNothing, DeployMissesNothing DEF Next
<1>3. NothingMissed => NothingLost
  BY DEF NothingMissed, StoredOrOwed, PushedOrOwed, Stored, Recording, Pushing, NothingLost,
         EarnedIsStored, RankIsPushed, Quiet, HasRank
<1>4. QED BY <1>1, <1>2, <1>3, Invariance, PTL DEF Spec
=============================================================================
