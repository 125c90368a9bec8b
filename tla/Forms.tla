-------------------------------- MODULE Forms --------------------------------
(***************************************************************************)
(* The site's forms in the browser: the React components of               *)
(* src/components/{auth,app,academy} and authFetch, by which they talk to  *)
(* the server.                                                             *)
(*                                                                         *)
(* A tab shows one form at a time.  A step is one event of the browser:    *)
(* something typed or clicked, a timer, or an answer that arrives; React's *)
(* effects belong to the event that causes them.  The server acts on a     *)
(* request at some moment of its own, answers may overtake one another,    *)
(* and a request or its answer may be lost.                                *)
(*                                                                         *)
(* What the server decides is the other modules' matter: here it answers   *)
(* anything it may answer, except where a form keeps what it says, which   *)
(* is so for names, graded answers and the secrets of two-factor.          *)
(***************************************************************************)
EXTENDS Integers, FiniteSets

CONSTANTS
    Tabs,       \* tabs of one member's browser
    Entries,    \* what is typed into the main field of a form: names, addresses, answers
    Blank,       \* nothing, or nothing well-formed
    Openings,   \* the forms the tabs may be opened with: functions from Tabs
    MaxEdits,   \* bound of the model: how often a tab's field is edited
    MaxCalls,   \* bound of the model: how many requests a tab sends
    MaxSetUps,  \* bound of the model: how many secrets and sets of backup codes are made
    MaxClaims   \* bound of the model: how often other members take a name or leave one

FormNames ==
    {"closed", "signin", "signup", "verify", "two-factor", "forgot", "reset", "password", "delete",
     "devices", "discord", "lesson", "email", "avatar", "onboarding", "settings", "checkpoint", "factor"}

ASSUME FormsAssumption ==
    /\ {MaxEdits, MaxCalls, MaxSetUps, MaxClaims} \subseteq Nat
    /\ Blank \notin Entries
    /\ Openings \subseteq [Tabs -> FormNames]

VARIABLES
    page,    \* what each tab shows, and what its components remember
    calls,   \* the requests on their way, and the answers on theirs
    sent,    \* how many requests each tab sent
    edits,   \* how often each tab's field was edited
    taken,   \* the names other members have
    claims,  \* how often they took or left one
    factor,  \* the member's two-factor: on or off, and which secret and codes are stored
    made,    \* how many secrets and sets of codes were made
    paired   \* history: the codes stored when a code of a secret turned two-factor on

server == <<taken, claims, factor, made, paired>>
formsVars == <<page, calls, sent, edits, server>>

Numbers == 0..MaxSetUps

\* What each form starts with.
FirstStep(form) ==
    IF form = "verify" THEN "loading"
    ELSE IF form = "two-factor" THEN "app"
    ELSE IF form = "factor" THEN "idle"
    ELSE IF form = "delete" THEN "shut"
    ELSE "fill"

Fresh(form) ==
    [form |-> form, step |-> FirstStep(form), left |-> FALSE, busy |-> FALSE,
     field |-> Blank, current |-> Blank, locked |-> FALSE,
     hint |-> "idle", asked |-> 0, timer |-> FALSE, about |-> Blank,
     secret |-> 0, codes |-> 0]

FormsInit ==
    /\ \E opening \in Openings : page = [t \in Tabs |-> Fresh(opening[t])]
    /\ calls = {}
    /\ sent = [t \in Tabs |-> 0]
    /\ edits = [t \in Tabs |-> 0]
    /\ taken \in SUBSET Entries
    /\ claims = 0
    /\ factor = [on |-> FALSE, secret |-> 0, codes |-> 0]
    /\ made = 0
    /\ paired = [s \in Numbers |-> 0]

-----------------------------------------------------------------------------
(* Requests and answers *)

Show(t, p) == page' = [page EXCEPT ![t] = p]

\* A form of this kind is on the tab, and waits for its reader.
At(t, form, step) == page[t].form = form /\ page[t].step = step /\ ~page[t].left

Idle(t) == ~page[t].busy

\* fetch: what is asked about, and what the form holds that the answer will be used with.
Send(t, path, of, held) ==
    /\ sent[t] < MaxCalls
    /\ sent' = [sent EXCEPT ![t] = @ + 1]
    /\ calls' = calls \cup {[tab |-> t, n |-> sent[t] + 1, path |-> path, of |-> of,
                             held |-> held, answer |-> "none", data |-> 0]}

\* setBusy(true), and the request.
Submit(t, path, of, held) ==
    /\ Idle(t)
    /\ Show(t, [page[t] EXCEPT !.busy = TRUE])
    /\ Send(t, path, of, held)
    /\ UNCHANGED <<edits, server>>

Waiting(c, path) == c.answer = "none" /\ c.path = path

Reply(c, answer, data) ==
    calls' = (calls \ {c}) \cup {[c EXCEPT !.answer = answer, !.data = data]}

\* The server acted, and its answer arrives or is lost: then authFetch says UNAVAILABLE.
Acted(c, data) == \E answer \in {"ok", "down"} : Reply(c, answer, data)

Refuse(c) == Reply(c, "no", 0)

\* The request never came, or the server failed before it had done anything.
Lose(c) ==
    /\ c.answer = "none"
    /\ Reply(c, "down", 0)
    /\ UNCHANGED <<page, sent, edits, server>>

\* An answer of this kind arrives, and the form of its tab becomes p.
Receive(c, path, answers, p) ==
    /\ c.path = path /\ c.answer \in answers
    /\ calls' = calls \ {c}
    /\ Show(c.tab, p)
    /\ UNCHANGED <<sent, edits, server>>

Failed == {"no", "dead", "down"}

Free(p) == [p EXCEPT !.busy = FALSE]

Left(p) == [p EXCEPT !.left = TRUE]

-----------------------------------------------------------------------------
(* The forms with one button: signing in and up, passwords, devices, Discord, lessons *)

\* Each asks one thing.  Once the server has said yes: the form and the step that are shown,
\* "left" when the browser is on its way to another page and the form is of no use any more.
SignInForm == <<"signin", "left">>
SignUpForm == <<"verify", "loading">>
ForgotPasswordForm == <<"forgot", "done">>
ResetPasswordForm == <<"reset", "done">>
PasswordForm == <<"password", "fill">>
DeleteForm == <<"delete", "left">>
DevicesList == <<"devices", "fill">>
DiscordConnection == <<"discord", "fill">>
LessonActions == <<"lesson", "done">>

Becomes ==
    [signin |-> SignInForm, signup |-> SignUpForm, forgot |-> ForgotPasswordForm,
     reset |-> ResetPasswordForm, password |-> PasswordForm, delete |-> DeleteForm,
     devices |-> DevicesList, discord |-> DiscordConnection, lesson |-> LessonActions]

OneButton == DOMAIN Becomes

Press(t) ==
    /\ page[t].form \in OneButton /\ page[t].step = "fill" /\ ~page[t].left
    /\ Submit(t, page[t].form, Blank, 0)

\* "Delete my account..." opens the form, and "Keep my account" closes it.
OpenOrKeep(t) ==
    /\ page[t].form = "delete" /\ Idle(t) /\ ~page[t].left
    /\ Show(t, [page[t] EXCEPT !.step = IF @ = "shut" THEN "fill" ELSE "shut"])
    /\ UNCHANGED <<calls, sent, edits, server>>

\* A password that is right brings the code screen when two-factor is on.
ActOnButton(c) ==
    /\ c.path \in OneButton /\ c.answer = "none"
    /\ \E answer \in {"ok", "no", "down"} \cup (IF c.path = "signin" THEN {"code"} ELSE {}) :
           Reply(c, answer, 0)
    /\ UNCHANGED <<page, sent, edits, server>>

\* Slip: a form that leaves only when all is well is not usable again when it is not.
SlipAfterRefusal(p) == IF p.form = "signup" THEN p ELSE Free(p)

AfterRefusal(p) == Free(p)

ButtonAnswered(c) ==
    LET p == page[c.tab]
        next == Becomes[c.path]
    IN  \/ /\ c.path \in OneButton /\ next[2] = "left"
           /\ Receive(c, c.path, {"ok"}, Left(p))
        \/ /\ c.path \in OneButton /\ next[2] # "left"
           /\ Receive(c, c.path, {"ok"}, [Fresh(next[1]) EXCEPT !.step = next[2]])
        \/ c.path \in OneButton /\ Receive(c, c.path, {"code"}, Fresh("two-factor"))
        \/ c.path \in OneButton /\ Receive(c, c.path, Failed, AfterRefusal(p))

-----------------------------------------------------------------------------
(* The code screens: of sign-up, and of signing in *)

\* The effect that asks for the sign-up's status when the screen appears.
AskStatus(t) ==
    /\ At(t, "verify", "loading")
    /\ Show(t, [page[t] EXCEPT !.step = "asking"])
    /\ Send(t, "status", Blank, 0)
    /\ UNCHANGED <<edits, server>>

SubmitCode(t) == At(t, "verify", "fill") /\ Submit(t, "verify", Blank, 0)

\* The buttons are off while a request runs; sends left and the wait only take the button away.
Resend(t) == At(t, "verify", "fill") /\ Submit(t, "resend", Blank, 0)

\* Signing in: a code of the app, or a backup code.  The mode may be switched at any time.
SubmitSecond(t) == \E mode \in {"app", "backup"} : At(t, "two-factor", mode) /\ Submit(t, "second", Blank, 0)

SwitchMode(t) ==
    /\ \E mode \in {"app", "backup"} :
           At(t, "two-factor", mode) /\ Show(t, [page[t] EXCEPT !.step = IF mode = "app" THEN "backup" ELSE "app"])
    /\ edits[t] < MaxEdits
    /\ edits' = [edits EXCEPT ![t] = @ + 1]
    /\ UNCHANGED <<calls, sent, server>>

\* An answer may say that this sign-up, or sign-in, cannot go on (DEAD).
CodePaths == {"status", "verify", "resend", "second"}

ActOnCode(c) ==
    /\ c.path \in CodePaths /\ c.answer = "none"
    /\ \E answer \in {"ok", "dead", "no", "down"} : Reply(c, answer, 0)
    /\ UNCHANGED <<page, sent, edits, server>>

CodeAnswered(c) ==
    LET p == page[c.tab]
        Dead == [Free(p) EXCEPT !.step = "dead"]
    IN  \/ Receive(c, "status", {"ok"}, [p EXCEPT !.step = "fill"])
        \/ Receive(c, "status", Failed, Dead)
        \/ c.path \in {"verify", "second"} /\ Receive(c, c.path, {"ok"}, Left(p))
        \/ Receive(c, "resend", {"ok"}, Free(p))
        \/ c.path \in {"verify", "resend", "second"} /\ Receive(c, c.path, {"dead"}, Dead)
        \/ c.path \in {"verify", "resend", "second"} /\ Receive(c, c.path, {"no", "down"}, AfterRefusal(p))

\* "Start again", "Back to sign in".
StartAgain(t) ==
    /\ \E form \in {"verify", "two-factor"} : At(t, form, "dead")
    /\ Show(t, Fresh(IF page[t].form = "verify" THEN "signup" ELSE "signin"))
    /\ UNCHANGED <<calls, sent, edits, server>>

-----------------------------------------------------------------------------
(* Changing the address, and the picture *)

StartChange(t) ==
    /\ At(t, "email", "fill") /\ page[t].field # Blank
    /\ Submit(t, "start", page[t].field, 0)

VerifyChange(t) == At(t, "email", "code") /\ Submit(t, "change", Blank, 0)

Back(t) ==
    /\ At(t, "email", "code") /\ Idle(t)
    /\ Show(t, [page[t] EXCEPT !.step = "fill"])
    /\ UNCHANGED <<calls, sent, edits, server>>

\* chosen: the picture is made smaller first, which may fail.
Choose(t) ==
    /\ At(t, "avatar", "fill") /\ Idle(t)
    /\ Show(t, [page[t] EXCEPT !.busy = TRUE, !.step = "shrink"])
    /\ UNCHANGED <<calls, sent, edits, server>>

\* Slip: the form is forgotten when the file turns out to be no picture.
SlipUnreadable(p) == [p EXCEPT !.step = "fill"]

Unreadable(p) == [Free(p) EXCEPT !.step = "fill"]

NotAPicture(t) ==
    /\ At(t, "avatar", "shrink")
    /\ Show(t, Unreadable(page[t]))
    /\ UNCHANGED <<calls, sent, edits, server>>

Upload(t) ==
    /\ At(t, "avatar", "shrink")
    /\ Show(t, [page[t] EXCEPT !.step = "fill"])
    /\ Send(t, "avatar", Blank, 0)
    /\ UNCHANGED <<edits, server>>

RemovePicture(t) == At(t, "avatar", "fill") /\ Submit(t, "avatar", Blank, 0)

SettingPaths == {"start", "change", "avatar"}

ActOnSetting(c) ==
    /\ c.path \in SettingPaths /\ c.answer = "none"
    /\ \E answer \in {"ok", "no", "down"} \cup (IF c.path = "change" THEN {"dead"} ELSE {}) :
           Reply(c, answer, 0)
    /\ UNCHANGED <<page, sent, edits, server>>

SettingAnswered(c) ==
    LET p == page[c.tab]
    IN  \/ Receive(c, "start", {"ok"}, [Free(p) EXCEPT !.step = "code"])
        \/ Receive(c, "change", {"ok"}, [Free(p) EXCEPT !.step = "fill", !.field = Blank])
        \/ Receive(c, "change", {"dead"}, [Free(p) EXCEPT !.step = "fill"])
        \/ Receive(c, "avatar", {"ok"}, Free(p))
        \/ c.path \in SettingPaths /\ Receive(c, c.path, {"no", "down"}, AfterRefusal(p))

-----------------------------------------------------------------------------
(* The username: ProfileFields *)

Profile == {"onboarding", "settings"}

OnProfile(t) == page[t].form \in Profile /\ ~page[t].left

\* The name worth asking about.
Candidate(p) == IF p.locked \/ p.field = p.current THEN Blank ELSE p.field

\* The effect on [candidate]: the old timer ends, and the next question has a new ticket.
Effect(p, q) ==
    IF Candidate(q) = Candidate(p) THEN q
    ELSE [q EXCEPT !.asked = @ + 1, !.timer = Candidate(q) # Blank]

\* The field can be typed in, and the form sent.
Editable(p) == ~p.locked

Savable(p) == p.field # Blank /\ p.hint # "taken"

\* onUsernameChange; the name it leaves may be the same when only blanks were typed.
TypeName(t, e) ==
    /\ OnProfile(t) /\ Editable(page[t])
    /\ Show(t, Effect(page[t], [page[t] EXCEPT !.field = e, !.hint = "idle", !.about = Blank]))

\* The timer of 450 ms is up.
Ask(t) ==
    /\ OnProfile(t) /\ page[t].timer
    /\ Show(t, [page[t] EXCEPT !.timer = FALSE, !.hint = "checking"])
    /\ Send(t, "available", Candidate(page[t]), page[t].asked)
    /\ UNCHANGED <<edits, server>>

Save(t) ==
    /\ OnProfile(t) /\ Savable(page[t])
    /\ Submit(t, "save", page[t].field, 0)

ActOnAvailable(c) ==
    /\ Waiting(c, "available")
    /\ (Reply(c, IF c.of \in taken THEN "taken" ELSE "free", 0) \/ Refuse(c))
    /\ UNCHANGED <<page, sent, edits, server>>

ActOnSave(c) ==
    /\ Waiting(c, "save")
    /\ IF c.of \in taken THEN Refuse(c) ELSE (Acted(c, 0) \/ Refuse(c))
    /\ UNCHANGED <<page, sent, edits, server>>

\* Slip: whichever answer comes last is shown.
SlipLatest(p, c) == TRUE

\* ticket === asked.current
Latest(p, c) == c.held = p.asked

Hinted(p, c) ==
    IF ~Latest(p, c) THEN p
    ELSE IF c.answer \in {"free", "taken"} THEN [p EXCEPT !.hint = c.answer, !.about = c.of]
    ELSE [p EXCEPT !.hint = "unknown", !.about = Blank]

\* Once a name is saved it may be the last for a while: the page then locks it.
Saved(p, c, locked) ==
    Effect(p, [Free(p) EXCEPT !.current = c.of, !.field = c.of, !.hint = "idle", !.about = Blank,
                              !.locked = locked])

ProfileAnswered(c) ==
    LET p == page[c.tab]
    IN  \/ Receive(c, "available", {"free", "taken"} \cup Failed, Hinted(p, c))
        \/ p.form = "settings" /\ \E locked \in BOOLEAN : Receive(c, "save", {"ok"}, Saved(p, c, locked))
        \/ p.form = "onboarding" /\ Receive(c, "save", {"ok"}, Left(p))
        \/ Receive(c, "save", Failed, Free(p))

\* Another member takes a name, or leaves one.
OthersRename ==
    /\ claims < MaxClaims
    /\ claims' = claims + 1
    /\ \E e \in Entries : taken' = IF e \in taken THEN taken \ {e} ELSE taken \cup {e}
    /\ UNCHANGED <<page, calls, sent, edits, factor, made, paired>>

-----------------------------------------------------------------------------
(* A chapter's checkpoint: CheckpointForm; an entry is a full set of answers *)

\* Slip: answers can be changed while they are graded.
SlipOpenToAnswers(p) == p.step = "fill"

\* The fieldset is disabled once the answers are sent.
OpenToAnswers(p) == p.step = "fill" /\ ~p.busy

Pick(t, e) ==
    /\ page[t].form = "checkpoint" /\ OpenToAnswers(page[t])
    /\ Show(t, [page[t] EXCEPT !.field = e])

SubmitAnswers(t) ==
    /\ At(t, "checkpoint", "fill") /\ page[t].field # Blank
    /\ Submit(t, "checkpoint", page[t].field, 0)

ActOnCheckpoint(c) ==
    /\ Waiting(c, "checkpoint")
    /\ \E answer \in {"passed", "failed", "no", "down"} : Reply(c, answer, 0)
    /\ UNCHANGED <<page, sent, edits, server>>

CheckpointAnswered(c) ==
    LET p == page[c.tab]
    IN  \/ Receive(c, "checkpoint", {"passed", "failed"}, [Free(p) EXCEPT !.step = c.answer, !.about = c.of])
        \/ Receive(c, "checkpoint", Failed, Free(p))

Retry(t) ==
    /\ At(t, "checkpoint", "failed")
    /\ Show(t, [page[t] EXCEPT !.step = "fill", !.field = Blank, !.about = Blank])
    /\ UNCHANGED <<calls, sent, edits, server>>

-----------------------------------------------------------------------------
(* Two-factor in the settings: TwoFactorSettings *)

Purposes == {"enable", "codes", "disable"}

\* go
Go(p, step, secret, codes) == [p EXCEPT !.step = step, !.secret = secret, !.codes = codes]

\* What is offered depends on what the page was told when it was last loaded, which another
\* tab may have changed.
Offer(t, purpose) ==
    /\ At(t, "factor", "idle")
    /\ Show(t, Go(page[t], purpose, 0, 0))
    /\ UNCHANGED <<calls, sent, edits, server>>

OnPassword(t) == \E purpose \in Purposes : At(t, "factor", purpose) /\ Submit(t, purpose, Blank, 0)

\* "Cancel" beside the password or the QR code.
Cancel(t) ==
    /\ \E step \in Purposes \cup {"scan"} : At(t, "factor", step)
    /\ Idle(t)
    /\ Show(t, Go(page[t], "idle", 0, 0))
    /\ UNCHANGED <<calls, sent, edits, server>>

\* onConfirm: the code is of one of the secrets in the member's app; the codes to show next
\* are those that came with the QR code.
OnConfirm(t, secret) ==
    /\ At(t, "factor", "scan")
    /\ Submit(t, "confirm", secret, page[t].codes)

\* "Done", once the box is ticked.
Done(t) ==
    /\ At(t, "factor", "showing")
    /\ Show(t, Go(page[t], "idle", 0, 0))
    /\ UNCHANGED <<calls, sent, edits, server>>

\* POST /two-factor/enable, with the password: a new secret with new backup codes.
ActOnEnable(c) ==
    /\ Waiting(c, "enable") /\ made < MaxSetUps
    /\ made' = made + 1
    /\ factor' = [factor EXCEPT !.secret = made + 1, !.codes = made + 1]
    /\ Acted(c, made + 1)
    /\ UNCHANGED <<page, sent, edits, taken, claims, paired>>

\* Slip: new codes can be had before two-factor is on.
SlipMayRenew == factor.secret # 0

MayRenew == factor.on

\* POST /two-factor/generate-backup-codes, with the password.
ActOnCodes(c) ==
    /\ Waiting(c, "codes") /\ MayRenew /\ made < MaxSetUps
    /\ made' = made + 1
    /\ factor' = [factor EXCEPT !.codes = made + 1]
    /\ Acted(c, made + 1)
    /\ UNCHANGED <<page, sent, edits, taken, claims, paired>>

\* POST /two-factor/disable, with the password.
ActOnDisable(c) ==
    /\ Waiting(c, "disable") /\ factor.on
    /\ factor' = [on |-> FALSE, secret |-> 0, codes |-> 0]
    /\ Acted(c, 0)
    /\ UNCHANGED <<page, sent, edits, taken, claims, made, paired>>

\* POST /two-factor/verify-totp of a member who is signed in.
ActOnConfirm(c) ==
    /\ Waiting(c, "confirm") /\ c.of = factor.secret
    /\ factor' = [factor EXCEPT !.on = TRUE]
    /\ paired' = IF factor.on THEN paired ELSE [paired EXCEPT ![c.of] = factor.codes]
    /\ Acted(c, 0)
    /\ UNCHANGED <<page, sent, edits, taken, claims, made>>

FactorPaths == Purposes \cup {"confirm"}

\* A wrong password, a wrong code, or two-factor is not in the state it would have to be in.
RefuseFactor(c) ==
    /\ c.path \in FactorPaths /\ c.answer = "none"
    /\ Refuse(c)
    /\ UNCHANGED <<page, sent, edits, server>>

FactorAnswered(c) ==
    LET p == page[c.tab]
    IN  \/ Receive(c, "enable", {"ok"}, Go(Free(p), "scan", c.data, c.data))
        \/ Receive(c, "codes", {"ok"}, Go(Free(p), "showing", 0, c.data))
        \/ Receive(c, "disable", {"ok"}, Go(Free(p), "idle", 0, 0))
        \/ Receive(c, "confirm", {"ok"}, Go(Free(p), "showing", p.secret, c.held))
        \/ c.path \in FactorPaths /\ Receive(c, c.path, Failed, Free(p))

-----------------------------------------------------------------------------

Type(t) ==
    /\ edits[t] < MaxEdits
    /\ edits' = [edits EXCEPT ![t] = @ + 1]
    /\ \E e \in Entries \cup {Blank} :
           \/ TypeName(t, e)
           \/ Pick(t, e) /\ e # Blank
           \/ At(t, "email", "fill") /\ Show(t, [page[t] EXCEPT !.field = e])
    /\ UNCHANGED <<calls, sent, server>>

CodeScreens(t) == AskStatus(t) \/ SubmitCode(t) \/ Resend(t) \/ SubmitSecond(t) \/ SwitchMode(t) \/ StartAgain(t)

Settings(t) ==
    \/ StartChange(t) \/ VerifyChange(t) \/ Back(t)
    \/ Choose(t) \/ NotAPicture(t) \/ Upload(t) \/ RemovePicture(t)
    \/ \E purpose \in Purposes : Offer(t, purpose)
    \/ OnPassword(t) \/ Cancel(t) \/ Done(t)
    \/ \E secret \in 1..made : OnConfirm(t, secret)

Reader(t) ==
    \/ Type(t) \/ Press(t) \/ OpenOrKeep(t) \/ CodeScreens(t) \/ Settings(t)
    \/ Ask(t) \/ Save(t) \/ SubmitAnswers(t) \/ Retry(t)

Act(c) ==
    \/ ActOnButton(c) \/ ActOnCode(c) \/ ActOnSetting(c)
    \/ ActOnAvailable(c) \/ ActOnSave(c) \/ ActOnCheckpoint(c)
    \/ ActOnEnable(c) \/ ActOnCodes(c) \/ ActOnDisable(c) \/ ActOnConfirm(c) \/ RefuseFactor(c)

Arrive(c) ==
    \/ ButtonAnswered(c) \/ CodeAnswered(c) \/ SettingAnswered(c)
    \/ ProfileAnswered(c) \/ CheckpointAnswered(c) \/ FactorAnswered(c)

FormsNext ==
    \/ OthersRename
    \/ \E t \in Tabs : Reader(t)
    \/ \E c \in calls : Act(c) \/ Lose(c) \/ Arrive(c)

FormsSpec == FormsInit /\ [][FormsNext]_formsVars

-----------------------------------------------------------------------------
(* Properties *)

StepNames ==
    {"loading", "asking", "fill", "app", "backup", "idle", "shut", "done", "dead", "code", "shrink",
     "passed", "failed", "enable", "codes", "disable", "scan", "showing"}

Paths == OneButton \cup CodePaths \cup SettingPaths \cup FactorPaths \cup {"available", "save", "checkpoint"}

PageRecord ==
    [form : FormNames, step : StepNames, left : BOOLEAN, busy : BOOLEAN,
     field : Entries \cup {Blank}, current : Entries \cup {Blank}, locked : BOOLEAN,
     hint : {"idle", "checking", "free", "taken", "unknown"}, asked : Nat, timer : BOOLEAN,
     about : Entries \cup {Blank}, secret : Numbers, codes : Numbers]

CallRecord ==
    [tab : Tabs, n : 1..MaxCalls, path : Paths, of : Entries \cup {Blank} \cup Numbers, held : Nat,
     answer : {"none", "ok", "no", "dead", "down", "code", "free", "taken", "passed", "failed"},
     data : Numbers]

\* Types.
FormsTypeOK ==
    /\ page \in [Tabs -> PageRecord]
    /\ calls \subseteq CallRecord
    /\ sent \in [Tabs -> 0..MaxCalls]
    /\ edits \in [Tabs -> 0..MaxEdits]
    /\ taken \subseteq Entries /\ claims \in 0..MaxClaims
    /\ factor \in [on : BOOLEAN, secret : Numbers, codes : Numbers]
    /\ made \in Numbers
    /\ paired \in [Numbers -> Numbers]

\* The requests of a tab, but for those that only ask for a hint.
Running(t) == {c \in calls : c.tab = t /\ c.path # "available"}

\* No form is stuck, and none sends twice: a form whose buttons are off waits for exactly one
\* answer, or for a picture to be made smaller, whatever was lost or refused, and one whose
\* buttons are on waits for none (setBusy around every authFetch in src/components).  And
\* "Checking..." under a name means that the question about it is on its way.
FormsAnswer ==
    \A t \in Tabs : ~page[t].left =>
        /\ Cardinality(Running(t)) =
               IF (page[t].busy /\ page[t].step # "shrink") \/ page[t].step = "asking" THEN 1 ELSE 0
        /\ page[t].hint = "checking" =>
               \E c \in calls : c.tab = t /\ c.path = "available" /\ c.held = page[t].asked

\* What a form says is about what is in it: "free" and "taken" about the name in the field,
\* however the answers came back (profile-form.tsx), and right and wrong about the answers
\* that can be seen (checkpoint-form.tsx).
ShownIsAbout ==
    \A t \in Tabs : page[t].about # Blank => page[t].about = page[t].field

\* The backup codes a member is given to save are the ones the site stored when a code of that
\* page's QR code turned two-factor on, also when another tab of theirs sets it up or turns it
\* off meanwhile, and answers are lost (two-factor-settings.tsx).
CodesAreStored ==
    \A t \in Tabs :
        LET p == page[t]
        IN  p.step = "showing" /\ p.secret # 0 /\ paired[p.secret] # 0 => p.codes = paired[p.secret]
=============================================================================
