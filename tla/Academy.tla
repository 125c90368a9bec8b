------------------------------- MODULE Academy -------------------------------
(***************************************************************************)
(* Progress in the Academy: completeLesson and submitCheckpoint of         *)
(* src/lib/academy/progress.ts behind the endpoints of academy-plugin.ts,  *)
(* the tables lesson_progress, checkpoint_passes and rank_history, and the *)
(* deployments that change the catalog while requests are served.          *)
(*                                                                         *)
(* A request is a process; a step is one SQL statement.  No transaction    *)
(* joins the statements of a request, and readProgress sends its three     *)
(* queries at once, so they see the tables at three different times.       *)
(***************************************************************************)
EXTENDS Standing, Sequences

CONSTANTS
    Members,    \* accounts
    Requests,   \* requests being handled
    None,       \* nothing
    Catalogs,   \* the catalogs, in the order of their deployment
    MayCrash    \* bound of the model: whether servers die in it

ASSUME AcademyAssumption ==
    /\ None \notin Members \cup Lessons \cup Chapters
    /\ Catalogs \in Seq(Catalog)
    /\ Catalogs # <<>>
    /\ MayCrash \in BOOLEAN

VARIABLES
    version,    \* the catalog now deployed
    completed,  \* lesson_progress, by member
    passed,     \* checkpoint_passes, by member
    steps,      \* rank_history, by member
    pc,         \* where each request stands
    req,        \* what it knows
    announced,  \* history: how often a new step was reported to a member
    pushed,     \* history: the members whose Discord roles were synced for a rank
    owed        \* history: what requests that died or were disturbed left undone for a member

tables == <<completed, passed, steps>>
history == <<announced, pushed, owed>>
vars == <<version, tables, pc, req, history>>

\* A request: its member, the lesson or the chapter it is about, the catalog it took when
\* it began, what its queries have returned and which have still to return, the grade,
\* and the steps its insertion returned.
RequestRecord ==
    [member : Members \cup {None}, lesson : Lessons \cup {None}, chapter : Chapters \cup {None},
     version : 1..Len(Catalogs), completed : SUBSET Lessons, passed : SUBSET Chapters,
     steps : SUBSET Steps, unread : SUBSET {"completed", "passed", "steps"},
     newSteps : SUBSET Steps]

Nothing ==
    [member |-> None, lesson |-> None, chapter |-> None, version |-> 1, completed |-> {},
     passed |-> {}, steps |-> {}, unread |-> {}, newSteps |-> {}]

Init ==
    /\ version = 1
    /\ completed = [m \in Members |-> {}]
    /\ passed = [m \in Members |-> {}]
    /\ steps = [m \in Members |-> {}]
    /\ pc = [q \in Requests |-> "idle"]
    /\ req = [q \in Requests |-> Nothing]
    /\ announced = [m \in Members |-> [s \in Steps |-> 0]]
    /\ pushed = {}
    /\ owed = [m \in Members |-> {}]

-----------------------------------------------------------------------------
(* Control *)

Cat(q) == Catalogs[req[q].version]

Step(q, at) == pc' = [pc EXCEPT ![q] = at]

Answer(q) ==
    /\ Step(q, "idle")
    /\ req' = [req EXCEPT ![q] = Nothing]

AllQueries == {"completed", "passed", "steps"}

-----------------------------------------------------------------------------
(* readProgress *)

\* One of the three queries returns; the last one lets the handler go on.
Read(q) ==
    /\ pc[q] \in {"reading", "rereading"}
    /\ \E t \in req[q].unread :
         req' = [req EXCEPT
           ![q].unread = @ \ {t},
           ![q].completed = IF t = "completed" THEN completed[req[q].member] ELSE @,
           ![q].passed = IF t = "passed" THEN passed[req[q].member] ELSE @,
           ![q].steps = IF t = "steps" THEN steps[req[q].member] ELSE @]
    /\ UNCHANGED <<version, tables, pc, history>>

-----------------------------------------------------------------------------
(* POST /academy/complete *)

\* A lesson of the catalog that is open; any other is answered "not available".
CompleteLesson(q, m, l) ==
    /\ pc[q] = "idle"
    /\ IsOpen(Catalogs[version], l)
    /\ req' = [req EXCEPT ![q] = [Nothing EXCEPT !.member = m, !.lesson = l, !.version = version]]
    /\ Step(q, "mark")
    /\ UNCHANGED <<version, tables, history>>

\* Slip: the progress is read before the lesson is marked.
SlipMark(q) ==
    /\ pc[q] = "mark"
    /\ completed' = [completed EXCEPT ![req[q].member] = @ \cup {req[q].lesson}]
    /\ req' = [req EXCEPT ![q].completed = completed[req[q].member],
                          ![q].unread = {"passed", "steps"}]
    /\ Step(q, "rereading")
    /\ UNCHANGED <<version, passed, steps, history>>

Mark(q) ==
    /\ pc[q] = "mark"
    /\ completed' = [completed EXCEPT ![req[q].member] = @ \cup {req[q].lesson}]
    /\ req' = [req EXCEPT ![q].unread = AllQueries]
    /\ Step(q, "rereading")
    /\ UNCHANGED <<version, passed, steps, history>>

MarkRead(q) ==
    /\ pc[q] = "rereading"
    /\ req[q].unread = {}
    /\ Step(q, "record")
    /\ UNCHANGED <<version, tables, req, history>>

-----------------------------------------------------------------------------
(* POST /academy/checkpoint *)

SubmitCheckpoint(q, m, c) ==
    /\ pc[q] = "idle"
    /\ c \in Catalogs[version].chapters
    /\ HasCheckpoint(Catalogs[version], c)
    /\ req' = [req EXCEPT ![q] = [Nothing EXCEPT !.member = m, !.chapter = c,
                                  !.version = version, !.unread = AllQueries]]
    /\ Step(q, "reading")
    /\ UNCHANGED <<version, tables, history>>

\* The lessons of the chapter are done and the answers are right, or the answer is no.
Grade(q) ==
    /\ pc[q] = "reading"
    /\ req[q].unread = {}
    /\ \/ LessonsDone(Cat(q), req[q].chapter, req[q].completed) /\ Step(q, "pass") /\ UNCHANGED req
       \/ Answer(q)
    /\ UNCHANGED <<version, tables, history>>

\* Slip: another chapter is stored along with the one that was passed.
SlipPass(q) ==
    /\ pc[q] = "pass"
    /\ passed' = [passed EXCEPT ![req[q].member] = @ \cup Catalogs[version].tests]
    /\ req' = [req EXCEPT ![q].passed = @ \cup {req[q].chapter}]
    /\ Step(q, "record")
    /\ UNCHANGED <<version, completed, steps, history>>

\* The pass is stored, and added to what had been read before.
Pass(q) ==
    /\ pc[q] = "pass"
    /\ passed' = [passed EXCEPT ![req[q].member] = @ \cup {req[q].chapter}]
    /\ req' = [req EXCEPT ![q].passed = @ \cup {req[q].chapter}]
    /\ Step(q, "record")
    /\ UNCHANGED <<version, completed, steps, history>>

-----------------------------------------------------------------------------
(* recordSteps, and what follows *)

\* The steps the handler believes to be new.
Fresh(q) ==
    StepsEarned(EarnedSteps(Cat(q), req[q].completed, req[q].passed), req[q].steps)
      \ req[q].steps

\* Slip: the steps are reported as new whether or not the insertion stored them.
SlipInserted(q) == Fresh(q)

\* Those the insertion stored: not the ones another request has stored meanwhile.
Inserted(q) == Fresh(q) \ steps[req[q].member]

\* Since q read what it is judged by, nobody else has changed it: the catalog is the one
\* that is served, and what the member has stored is q's reads and its own lesson or pass.
Undisturbed(q) ==
    LET r == req[q] IN
    /\ r.version = version
    /\ completed[r.member] \subseteq r.completed \cup {r.lesson}
    /\ passed[r.member] \subseteq r.passed \cup {r.chapter}
    /\ steps[r.member] \subseteq r.steps

Record(q) ==
    LET m == req[q].member IN
    /\ pc[q] = "record"
    /\ steps' = [steps EXCEPT ![m] = @ \cup Fresh(q)]
    /\ req' = [req EXCEPT ![q].newSteps = Inserted(q)]
    /\ announced' = [announced EXCEPT ![m] =
         [s \in Steps |-> IF s \in Inserted(q) THEN @[s] + 1 ELSE @[s]]]
    /\ owed' = [owed EXCEPT ![m] = IF Undisturbed(q) THEN @ \ {"steps"} ELSE @ \cup {"steps"}]
    /\ Step(q, "report")
    /\ UNCHANGED <<version, completed, passed, pushed>>

\* Slip: the rank is pushed to Discord only after a lesson.
SlipGainsRank(q) == Bronze \in req[q].newSteps /\ req[q].lesson # None

GainsRank(q) == Bronze \in req[q].newSteps

\* A new rank is pushed to Discord before the answer.
Report(q) ==
    /\ pc[q] = "report"
    /\ pushed' = IF GainsRank(q) THEN pushed \cup {req[q].member} ELSE pushed
    /\ Answer(q)
    /\ UNCHANGED <<version, tables, announced, owed>>

-----------------------------------------------------------------------------
(* The surroundings *)

\* A deployment: requests being served keep the catalog they took.  A level that is
\* finished because the catalog changed is not stored by this.
Deploy ==
    /\ version < Len(Catalogs)
    /\ version' = version + 1
    /\ owed' = [m \in Members |->
         IF FinishedLevels(Catalogs[version + 1], completed[m], passed[m])
              \subseteq FinishedLevels(Catalogs[version], completed[m], passed[m])
         THEN owed[m] ELSE owed[m] \cup {"steps"}]
    /\ UNCHANGED <<tables, pc, req, announced, pushed>>

\* What a request that ends here leaves undone.
Undone(q) ==
    IF pc[q] \in {"rereading", "record"} THEN {"steps"}
    ELSE IF pc[q] = "report" /\ GainsRank(q) THEN {"push"} ELSE {}

\* The server handling q dies; every statement it has sent stays.
Crash(q) ==
    /\ MayCrash
    /\ pc[q] # "idle"
    /\ owed' = [owed EXCEPT ![req[q].member] = @ \cup Undone(q)]
    /\ Answer(q)
    /\ UNCHANGED <<version, tables, announced, pushed>>

Next ==
    \/ \E q \in Requests :
         \/ \E m \in Members : \/ \E l \in Lessons : CompleteLesson(q, m, l)
                               \/ \E c \in Chapters : SubmitCheckpoint(q, m, c)
         \/ Read(q) \/ Mark(q) \/ MarkRead(q) \/ Grade(q) \/ Pass(q)
         \/ Record(q) \/ Report(q) \/ Crash(q)
    \/ Deploy

Spec == Init /\ [][Next]_vars

-----------------------------------------------------------------------------
(* Properties *)

\* Types, and no step is recorded before the progress it rests on was read.
TypeOK ==
    /\ version \in 1..Len(Catalogs)
    /\ completed \in [Members -> SUBSET Lessons]
    /\ passed \in [Members -> SUBSET Chapters]
    /\ steps \in [Members -> SUBSET Steps]
    /\ pc \in [Requests -> {"idle", "mark", "reading", "rereading", "pass", "record", "report"}]
    /\ req \in [Requests -> RequestRecord]
    /\ announced \in [Members -> [Steps -> Nat]]
    /\ pushed \subseteq Members
    /\ owed \in [Members -> SUBSET {"steps", "push"}]
    /\ \A q \in Requests : pc[q] \in {"pass", "record", "report"} => req[q].unread = {}

\* The catalogs served until now.
Served == {Catalogs[v] : v \in 1..version}

\* No level is stored for a member who has not finished it, by a catalog that was served,
\* however stale the reads behind it; and the rank comes with its levels.
StepsAreEarned ==
    \A m \in Members :
        /\ \A n \in steps[m] \ {Bronze} :
             \E cat \in Served : Deserves(cat, n, completed[m], passed[m])
        /\ Bronze \in steps[m] => BronzeLevels \subseteq steps[m]

\* "A checkpoint cannot be taken before its lessons are done", by a catalog that was served.
PassNeedsLessons ==
    \A m \in Members : \A c \in passed[m] :
        \E cat \in Served : LessonsDone(cat, c, completed[m])

\* A step is reported as new at most once, whichever requests earn it together: it is
\* celebrated once, and the rank is pushed once.
AnnouncedOnce == \A m \in Members : \A s \in Steps : announced[m][s] <= 1

Quiet == \A q \in Requests : pc[q] = "idle"

\* "Stores every step the member has now earned": between requests no finished level and
\* no earned rank is missing from rank_history, unless the last request that could have
\* stored it died before it did, or had another one or a deployment come between what it
\* read and what it stored, or a deployment finished the level; the next one that is left
\* alone stores it.
EarnedIsStored ==
    Quiet => \A m \in Members : "steps" \notin owed[m] =>
        /\ FinishedLevels(Catalogs[version], completed[m], passed[m]) \subseteq steps[m]
        /\ BronzeLevels \subseteq steps[m] => Bronze \in steps[m]

\* A rank that was earned was pushed to Discord, whatever request earned it, unless that
\* request died before the push.
RankIsPushed ==
    Quiet => \A m \in Members : HasRank(steps[m]) => m \in pushed \/ "push" \in owed[m]

\* What a member has earned is stored, and its rank pushed, however requests interleave.
NothingLost == EarnedIsStored /\ RankIsPushed
=============================================================================
