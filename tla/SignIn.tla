-------------------------------- MODULE SignIn --------------------------------
(***************************************************************************)
(* Signing in to one account, and its second factor: the hooks and         *)
(* settings of src/lib/auth/create-auth.ts around Better Auth and its      *)
(* two-factor plugin, the known browsers of known-device.ts, the trusted   *)
(* browsers of two-factor.ts, signing devices out (account-plugin.ts) and  *)
(* the owner's command two-factor-reset.ts.                                *)
(*                                                                         *)
(* A browser is a process with one request at a time, and a step is a SQL  *)
(* statement of the site, or of Better Auth between two of the site's      *)
(* hooks.  Everybody knows the password; a wrong one, and a limit that is  *)
(* reached, change nothing here.  Better Auth is a library: its steps are  *)
(* modelled from the settings, hooks and tests in src/.                    *)
(***************************************************************************)
EXTENDS Integers, FiniteSets

CONSTANTS
    Browsers,   \* browsers of the member
    Codes,      \* the app's codes, by the time they are made for
    OnceWindow, \* totpCodeOncePerUser: how long a code counts, in the 30 seconds of one code
    MaxTime,    \* bound of the model: the clock, in 30 seconds
    MaxSecrets, \* bound of the model: how often two-factor is set up
    MaxResets,  \* bound of the model: how many password resets are asked for
    MayFail     \* bound of the model: whether servers die in it

\* LIMITS.totpCodeOncePerUser lasts two minutes, four periods, and a code is accepted in three.
ASSUME SignInAssumption ==
    /\ {OnceWindow, MaxTime, MaxSecrets, MaxResets} \subseteq Nat
    /\ OnceWindow >= 3
    /\ Codes \subseteq Nat
    /\ MayFail \in BOOLEAN

VARIABLES
    clock,     \* the time
    on,        \* users.two_factor_enabled
    secret,    \* two_factors: which of the secrets made so far it holds, or 0
    made,      \* how many secrets were made
    backup,    \* two_factors.backup_codes: the only one modelled is unused
    once,      \* abuse_counters: until when a code of the secret counts as used
    trusted,   \* verifications: the browsers with a row trust-device-...
    known,     \* known_devices
    sessions,  \* the browsers with a row in sessions, or one being made
    challenge, \* the browsers at the code screen: their row and their cookie two_factor
    links,     \* password resets asked for, and not used yet
    asked,     \* how many were asked for
    pc,        \* where the request of each browser stands
    req,       \* what it knows
    spent,     \* history: how often each code of the secret has signed somebody in
    old,       \* history: the browsers trusted before the last fresh start
    owed,      \* history: a fresh start after which trust was not forgotten yet
    told       \* history: the browsers the member was told of since the last reset

factor == <<on, secret, made, backup, once>>
rows == <<sessions, challenge>>
marks == <<trusted, known>>
mail == <<links, asked>>
history == <<spent, old, owed, told>>
vars == <<clock, factor, rows, marks, mail, pc, req, history>>

\* A request: a second factor is still owed, the secret and the time of the code it brought,
\* and whether "Trust this browser" is ticked.
Request == [owes : BOOLEAN, of : 0..MaxSecrets, code : Codes \cup {0}, trust : BOOLEAN]

Nothing == [owes |-> FALSE, of |-> 0, code |-> 0, trust |-> FALSE]

Unused == [p \in Codes |-> 0]

Init ==
    /\ clock = 0
    /\ on = FALSE /\ secret = 0 /\ made = 0 /\ backup = FALSE
    /\ once = Unused
    /\ trusted = {} /\ known = {}
    /\ sessions = {} /\ challenge = {}
    /\ links = 0 /\ asked = 0
    /\ pc = [b \in Browsers |-> "idle"]
    /\ req = [b \in Browsers |-> Nothing]
    /\ spent = Unused
    /\ old = {} /\ owed = FALSE /\ told = {}

-----------------------------------------------------------------------------
(* Control *)

Go(b, at, r) == pc' = [pc EXCEPT ![b] = at] /\ req' = [req EXCEPT ![b] = r]

Answer(b) == Go(b, "idle", Nothing)

Idle(b) == pc[b] = "idle"

SignedIn(b) == Idle(b) /\ b \in sessions

\* The cookie of a session travels with the answer of the request that made it.
MakingSession == {"gate", "rotate", "trust", "complete", "alert", "forget"}

-----------------------------------------------------------------------------
(* The password: POST /sign-in/email *)

\* The password is right, and the member's row says whether two-factor is on.
SignInEmail(b) ==
    /\ Idle(b) /\ b \notin sessions
    /\ Go(b, "session", [Nothing EXCEPT !.owes = on])
    /\ UNCHANGED <<clock, factor, rows, marks, mail, history>>

\* Slip: the sign-in completes before the two-factor plugin has looked at it.
SlipAfterSession(r) == "complete"

\* The two-factor plugin's hook comes before signInCompletion.
AfterSession(r) == IF r.owes THEN "gate" ELSE "complete"

CreateSession(b) ==
    /\ pc[b] = "session"
    /\ sessions' = sessions \cup {b}
    /\ Go(b, AfterSession(req[b]), req[b])
    /\ UNCHANGED <<clock, factor, challenge, marks, mail, history>>

\* The plugin finds the row of the browser's trust cookie; or it takes the session back, and
\* the browser is at the code screen.
TwoFactorGate(b) ==
    /\ pc[b] = "gate"
    /\ IF b \in trusted
       THEN Go(b, "rotate", [req[b] EXCEPT !.owes = FALSE]) /\ UNCHANGED rows
       ELSE /\ sessions' = sessions \ {b}
            /\ challenge' = challenge \cup {b}
            /\ Answer(b)
    /\ UNCHANGED <<clock, factor, marks, mail, history>>

\* The row found is replaced by a new one, whether it is still there or not.
RotateTrust(b) ==
    /\ pc[b] = "rotate"
    /\ trusted' = trusted \cup {b}
    /\ Go(b, "complete", req[b])
    /\ UNCHANGED <<clock, factor, rows, known, mail, history>>

-----------------------------------------------------------------------------
(* completeSignIn *)

\* Slip: a browser with any known browser beside it counts as known.
SlipIsNew(b) == known = {}

\* The upsert into known_devices says it is the first time.
IsNew(b) == b \notin known

CompleteSignIn(b) ==
    /\ pc[b] = "complete"
    /\ known' = known \cup {b}
    /\ IF IsNew(b) THEN Go(b, "alert", req[b]) ELSE Answer(b)
    /\ UNCHANGED <<clock, factor, rows, trusted, mail, history>>

\* The member is told of the new browser, and the sign-in is answered.
Alert(b) ==
    /\ pc[b] = "alert"
    /\ told' = told \cup {b}
    /\ Answer(b)
    /\ UNCHANGED <<clock, factor, rows, marks, mail, spent, old, owed>>

-----------------------------------------------------------------------------
(* The code screen *)

\* The challenge runs out, or five wrong codes end it.
ChallengeEnds(b) ==
    /\ Idle(b) /\ b \in challenge
    /\ challenge' = challenge \ {b}
    /\ UNCHANGED <<clock, factor, sessions, marks, mail, pc, req, history>>

\* Slip: a code may be used again after a minute.
SlipFirstUse(p) == once[p] <= clock + 2

\* limiter.hit("totpCodeOncePerUser"), one statement: the first use of a code in its window.
FirstUse(p) == once[p] <= clock

\* Slip: a code is looked up and not counted.
SlipUsedUntil == 0

\* What it stores: the window begins with the first use.
UsedUntil == clock + OnceWindow

\* hooks.before of /two-factor/verify-totp at sign-in: a code counts before it is checked.
\* A code that was used is refused; with no challenge there is nothing to count.  Nobody types
\* a code before the app shows it, but by luck, which is left out.
VerifyTotp(b, p, trust) ==
    /\ Idle(b) /\ b \in challenge /\ b \notin sessions
    /\ p <= clock + 1
    /\ FirstUse(p)
    /\ once' = [once EXCEPT ![p] = UsedUntil]
    /\ Go(b, "check", [owes |-> TRUE, of |-> secret, code |-> p, trust |-> trust])
    /\ UNCHANGED <<clock, on, secret, made, backup, rows, marks, mail, history>>

\* The codes the plugin accepts: this one, the one before and the one after.
InWindow(p) == p \in clock - 1..clock + 1

\* The challenge is over, and the session made.
Accept(b, r) ==
    /\ challenge' = challenge \ {b}
    /\ sessions' = sessions \cup {b}
    /\ Go(b, IF r.trust THEN "trust" ELSE "complete", [Nothing EXCEPT !.trust = r.trust])

\* The plugin checks the code of the app.
CheckTotp(b) ==
    LET r == req[b] IN
    /\ pc[b] = "check"
    /\ IF b \in challenge /\ secret # 0 /\ secret = r.of /\ InWindow(r.code)
       THEN Accept(b, r) /\ spent' = [spent EXCEPT ![r.code] = @ + 1]
       ELSE Answer(b) /\ UNCHANGED <<rows, spent>>
    /\ UNCHANGED <<clock, factor, marks, mail, old, owed, told>>

\* A backup code, only for a browser that is not signed in, and used up by it.
VerifyBackupCode(b, trust) ==
    /\ Idle(b) /\ b \in challenge /\ b \notin sessions
    /\ secret # 0 /\ backup
    /\ backup' = FALSE
    /\ Accept(b, [Nothing EXCEPT !.trust = trust])
    /\ UNCHANGED <<clock, on, secret, made, once, marks, mail, history>>

\* "Trust this browser for 30 days".
TrustBrowser(b) ==
    /\ pc[b] = "trust"
    /\ trusted' = trusted \cup {b}
    /\ old' = old \ {b}
    /\ Go(b, "complete", Nothing)
    /\ UNCHANGED <<clock, factor, rows, known, mail, spent, owed, told>>

-----------------------------------------------------------------------------
(* Two-factor switched on and off, by a member who is signed in *)

\* A moment before which no browser's trust is to count.
FreshStart == old' = trusted /\ owed' = TRUE

\* /two-factor/enable, with the password: a new secret and new backup codes, not on yet.
EnableTwoFactor(b) ==
    /\ SignedIn(b)
    /\ made < MaxSecrets
    /\ made' = made + 1
    /\ secret' = made + 1
    /\ backup' = TRUE
    /\ once' = Unused /\ spent' = Unused
    /\ UNCHANGED <<clock, on, rows, marks, mail, pc, req, old, owed, told>>

\* /two-factor/generate-backup-codes, with the password.
GenerateBackupCodes(b) ==
    /\ SignedIn(b) /\ on
    /\ backup' = TRUE
    /\ UNCHANGED <<clock, on, secret, made, once, rows, marks, mail, pc, req, history>>

\* The first code of the app, typed while signed in: it is right, and two-factor is not on.
ConfirmSetUp(b) ==
    /\ SignedIn(b)
    /\ secret # 0 /\ ~on
    /\ Go(b, "confirm", Nothing)
    /\ UNCHANGED <<clock, factor, rows, marks, mail, history>>

\* It switches two-factor on, with a new session for this browser; hooks.after goes on.
SwitchOn(b) ==
    /\ pc[b] = "confirm"
    /\ on' = TRUE
    /\ FreshStart
    /\ sessions' = sessions \cup {b}
    /\ Go(b, "forget", Nothing)
    /\ UNCHANGED <<clock, secret, made, backup, once, challenge, marks, mail, spent, told>>

\* /two-factor/disable, with the password.  The plugin forgets this browser only.
DisableTwoFactor(b) ==
    /\ SignedIn(b) /\ on
    /\ on' = FALSE /\ secret' = 0 /\ backup' = FALSE
    /\ trusted' = trusted \ {b}
    /\ FreshStart
    /\ Go(b, "forget", Nothing)
    /\ UNCHANGED <<clock, made, once, rows, known, mail, spent, told>>

\* Slip: only the browser the request came from is forgotten, as the plugin does by itself.
SlipForgotten(b) == trusted \ {b}

\* The rows forgetTrustedDevices leaves.
Forgotten(b) == {}

\* forgetTrustedDevices: one statement, for every browser.  A sign-in that had already found
\* its row puts a new one in its place.
ForgetTrustedDevices(b) ==
    /\ pc[b] \in {"forget", "reset forget"}
    /\ trusted' = Forgotten(b)
    /\ owed' = FALSE
    /\ old' = old \ {c \in Browsers : pc[c] = "rotate"}
    /\ IF pc[b] = "forget" THEN Answer(b) ELSE Go(b, "reset revoke", Nothing)
    /\ UNCHANGED <<clock, factor, rows, known, mail, spent, told>>

-----------------------------------------------------------------------------
(* The password changed, the password reset, devices signed out *)

\* /change-password, with the password and revokeOtherSessions; /revoke-other-sessions.
RevokeOtherSessions(b) ==
    /\ SignedIn(b)
    /\ sessions # {b}
    /\ sessions' = {b}
    /\ UNCHANGED <<clock, factor, challenge, marks, mail, pc, req, history>>

\* /request-password-reset: a link is emailed.
RequestPasswordReset ==
    /\ asked < MaxResets
    /\ asked' = asked + 1
    /\ links' = links + 1
    /\ UNCHANGED <<clock, factor, rows, marks, pc, req, history>>

\* /reset-password: the link is used up and the password changed.
ResetPassword(b) ==
    /\ Idle(b) /\ links > 0
    /\ links' = links - 1
    /\ FreshStart
    /\ Go(b, "reset known", Nothing)
    /\ UNCHANGED <<clock, factor, rows, marks, asked, spent, told>>

\* Slip: the browser that made the reset stays known.
SlipStillKnown(b) == known \cap {b}

\* The rows onPasswordReset leaves in known_devices.
StillKnown(b) == {}

\* onPasswordReset: the known browsers go first, then the trusted ones.
ForgetKnownDevices(b) ==
    /\ pc[b] = "reset known"
    /\ known' = StillKnown(b)
    /\ told' = {}
    /\ Go(b, "reset forget", Nothing)
    /\ UNCHANGED <<clock, factor, rows, trusted, mail, spent, old, owed>>

\* revokeSessionsOnPasswordReset.
RevokeSessions(b) ==
    /\ pc[b] = "reset revoke"
    /\ sessions' = {}
    /\ Answer(b)
    /\ UNCHANGED <<clock, factor, challenge, marks, mail, history>>

\* /account/sessions/revoke: a session of the member, not the one in use.
RevokeDevice(b, c) ==
    /\ SignedIn(b)
    /\ c \in sessions \ {b}
    /\ sessions' = sessions \ {c}
    /\ UNCHANGED <<clock, factor, challenge, marks, mail, pc, req, history>>

\* /sign-out.
SignOut(b) ==
    /\ SignedIn(b)
    /\ sessions' = sessions \ {b}
    /\ UNCHANGED <<clock, factor, challenge, marks, mail, pc, req, history>>

\* npm run 2fa:reset, one transaction, for a member whose two-factor is on.
OwnerReset ==
    /\ on
    /\ on' = FALSE /\ secret' = 0 /\ backup' = FALSE
    /\ trusted' = {}
    /\ sessions' = {}
    /\ old' = {b \in trusted : pc[b] # "rotate"}
    /\ owed' = FALSE
    /\ UNCHANGED <<clock, made, once, known, challenge, mail, pc, req, spent, told>>

-----------------------------------------------------------------------------
(* The surroundings *)

Tick ==
    /\ clock < MaxTime
    /\ clock' = clock + 1
    /\ UNCHANGED <<factor, rows, marks, mail, pc, req, history>>

\* The server handling the request dies: the cookie of a session it was making never arrives,
\* and whoever was not told of a browser then is not told.
Crash(b) ==
    /\ MayFail
    /\ ~Idle(b)
    /\ Answer(b)
    /\ sessions' = IF pc[b] \in MakingSession THEN sessions \ {b} ELSE sessions
    /\ told' = IF pc[b] = "alert" THEN told \cup {b} ELSE told
    /\ UNCHANGED <<clock, factor, challenge, marks, mail, spent, old, owed>>

SignInStep(b) ==
    \/ SignInEmail(b) \/ CreateSession(b) \/ TwoFactorGate(b) \/ RotateTrust(b)
    \/ CompleteSignIn(b) \/ Alert(b)
    \/ ChallengeEnds(b) \/ CheckTotp(b) \/ TrustBrowser(b)
    \/ \E p \in Codes, trust \in BOOLEAN : VerifyTotp(b, p, trust)
    \/ \E trust \in BOOLEAN : VerifyBackupCode(b, trust)

FactorStep(b) ==
    \/ EnableTwoFactor(b) \/ GenerateBackupCodes(b) \/ ConfirmSetUp(b) \/ SwitchOn(b)
    \/ DisableTwoFactor(b) \/ ForgetTrustedDevices(b)

AccountStep(b) ==
    \/ RevokeOtherSessions(b) \/ ResetPassword(b) \/ ForgetKnownDevices(b)
    \/ RevokeSessions(b) \/ SignOut(b) \/ Crash(b)
    \/ \E c \in Browsers : RevokeDevice(b, c)

Next ==
    \/ Tick \/ RequestPasswordReset \/ OwnerReset
    \/ \E b \in Browsers : SignInStep(b) \/ FactorStep(b) \/ AccountStep(b)

Spec == Init /\ [][Next]_vars

-----------------------------------------------------------------------------
(* Properties *)

\* Types; a code of the app that has signed somebody in was counted.
TypeOK ==
    /\ clock \in 0..MaxTime
    /\ on \in BOOLEAN /\ backup \in BOOLEAN /\ owed \in BOOLEAN
    /\ made \in 0..MaxSecrets /\ secret \in 0..made
    /\ once \in [Codes -> 0..MaxTime + OnceWindow]
    /\ spent \in [Codes -> Nat]
    /\ \A p \in Codes : spent[p] > 0 => once[p] > 0
    /\ trusted \subseteq Browsers /\ known \subseteq Browsers
    /\ sessions \subseteq Browsers /\ challenge \subseteq Browsers
    /\ old \subseteq Browsers /\ told \subseteq Browsers
    /\ asked \in 0..MaxResets /\ links \in 0..asked
    /\ pc \in [Browsers -> MakingSession \cup {"idle", "session", "check", "confirm",
                             "reset known", "reset forget", "reset revoke"}]
    /\ req \in [Browsers -> Request]

\* A sign-in that found two-factor on is completed, and its browser known, only after a code
\* or by a browser that is trusted: never by the password alone.
NotByPasswordAlone == \A b \in Browsers : pc[b] \in {"complete", "alert"} => ~req[b].owes

\* A code of the app signs in once at most, at however many code screens it is typed and
\* whenever, even though the app's codes are accepted early and late.
CodeOnce == \A p \in Codes : spent[p] <= 1

\* The second factor is one: the password alone never does, and a code does once.
SecondFactorHolds == TypeOK /\ NotByPasswordAlone /\ CodeOnce

\* Once trust has been forgotten after two-factor was switched on or off or the password was
\* reset, no browser trusted before skips the code; unless its sign-in was skipping it just then.
TrustForgotten == ~owed => trusted \cap old = {}

\* A browser that is known is one the member was told of since the known browsers were last
\* forgotten, or is being told of.
KnownAreTold == \A b \in known : b \in told \/ pc[b] = "alert"
=============================================================================
