--------------------------- MODULE SignInNotesProofs ---------------------------
(***************************************************************************)
(* Two parts of the site that share nothing but this module: signing in,   *)
(* and the notes of the owner's brain with the catalog they come from and  *)
(* the Academy's pages.                                                    *)
(*                                                                         *)
(* The second factor, the trusted and the known browsers, for any number   *)
(* of browsers and codes, with servers that die between any two            *)
(* statements.  A code cannot sign in twice because its counter outlasts   *)
(* it: it is counted before it is checked, and the window that begins with *)
(* its first use ends only when the plugin accepts it no longer            *)
(* (CodesCounted).  Trust cannot come back because a browser of before a   *)
(* fresh start is not among those whose trust cookie has been found        *)
(* (SkippersAreFresh).                                                     *)
(*                                                                         *)
(* The catalog and the notes, for any files, any members and any names.    *)
(* Everything is found by its place in the files (ChapterOf, FilePlacesAre *)
(* and IdsAt), so an id that is used once is one place; two notes share no *)
(* file because no two members share a number or a name (AccountsKept) and *)
(* no file's name is a name with a hyphen added (FilesDiffer); and the     *)
(* line of a member on the board is the number of those ahead of them,     *)
(* which counts any finite order through (CountedThrough).                 *)
(*                                                                         *)
(* The Academy's pages, for any catalog that loaded, any history and any   *)
(* set of passed checkpoints.  A standing has one entry for each chapter,  *)
(* in one order (Drawn), so there is a first one not complete exactly when *)
(* one is not (FirstIs); and a page is reached only by links from pages    *)
(* that are there, none of which leads to one that is not (LinksAreThere). *)
(***************************************************************************)
EXTENDS SignIn, AcademyPages, FiniteSetTheorems, WellFoundedInduction, TLAPS

\* A sign-in that is past the second factor owes none.
SecondFactorPaid ==
    \A b \in Browsers : pc[b] \in {"rotate", "trust", "complete", "alert"} => ~req[b].owes

\* The browsers whose code the plugin is about to check against the secret of now.
Checking(p) ==
    {b \in Browsers : pc[b] = "check" /\ req[b].code = p /\ req[b].of = secret /\ secret # 0}

\* A code that is being checked was made for a secret that exists or did.
SecretsMade == \A b \in Browsers : pc[b] = "check" => req[b].of <= made

\* How long a code counts at least, once it was typed: longer than it is accepted.
Counts(p) == once[p] >= p - 1 + OnceWindow

\* While a code can be accepted, one browser at most has it checked, and none when it has
\* signed somebody in.
CodesCounted ==
    \A p \in Codes :
        /\ Checking(p) # {} \/ spent[p] > 0 => Counts(p)
        /\ clock <= p + 1 =>
             /\ \A b, c \in Checking(p) : b = c
             /\ spent[p] > 0 => Checking(p) = {}

\* Nobody who was trusted before a fresh start that is over has just been found trusted.
SkippersAreFresh == ~owed => \A b \in old : pc[b] # "rotate"

IInv ==
    /\ TypeOK /\ SecondFactorPaid /\ SecretsMade /\ CodesCounted /\ CodeOnce
    /\ SkippersAreFresh /\ TrustForgotten /\ KnownAreTold

-----------------------------------------------------------------------------
(* What a step may do *)

BrowserStep(b) == SignInStep(b) \/ FactorStep(b) \/ AccountStep(b)

Places ==
    MakingSession \cup {"idle", "session", "check", "confirm", "reset known", "reset forget",
                        "reset revoke"}

LEMMA StepsAre ==
    ASSUME [Next]_vars
    PROVE  \/ \E b \in Browsers : BrowserStep(b)
           \/ Tick \/ RequestPasswordReset \/ OwnerReset \/ UNCHANGED vars
BY DEF Next, BrowserStep

LEMMA Numbers ==
    ASSUME TypeOK
    PROVE  /\ MaxSecrets \in Nat /\ MaxTime \in Nat /\ MaxResets \in Nat
           /\ OnceWindow \in Nat /\ OnceWindow >= 3 /\ Codes \subseteq Nat
           /\ clock \in Nat /\ made \in Nat /\ secret \in Nat /\ secret \in 0..MaxSecrets
           /\ once \in [Codes -> Int] /\ spent \in [Codes -> Nat]
           /\ Nothing \in Request
           /\ \A b \in Browsers : req[b] \in Request /\ req[b].of \in Nat
<1>1. /\ MaxSecrets \in Nat /\ MaxTime \in Nat /\ MaxResets \in Nat /\ Codes \subseteq Nat
      /\ OnceWindow \in Nat /\ OnceWindow >= 3
  BY SignInAssumption
<1>2. /\ clock \in 0..MaxTime /\ made \in 0..MaxSecrets /\ secret \in 0..made
      /\ once \in [Codes -> 0..MaxTime + OnceWindow] /\ spent \in [Codes -> Nat]
      /\ \A b \in Browsers : req[b] \in Request
  BY DEF TypeOK
<1>3. clock \in Nat /\ made \in Nat /\ secret \in Nat /\ secret \in 0..MaxSecrets
  BY <1>1, <1>2
<1>4. once \in [Codes -> Int]
  BY <1>1, <1>2
<1>5. \A r \in Request : r.of \in Nat
  BY <1>1 DEF Request
<1>6. 0 \in 0..MaxSecrets /\ 0 \in Codes \cup {0}
  BY <1>1
<1>7. Nothing \in Request
  BY <1>6 DEF Nothing, Request
<1>8. QED BY <1>1, <1>2, <1>3, <1>4, <1>5, <1>7

\* Where a browser's request goes and what it knows then, by the step.
LEMMA Goes ==
    ASSUME TypeOK, NEW b \in Browsers, BrowserStep(b)
    PROVE  \/ UNCHANGED <<pc, req>> /\ pc[b] = "idle"
           \/ \E at \in Places, r \in Request : Go(b, at, r)
<1>0. req[b] \in Request /\ Nothing \in Request
  BY Numbers DEF TypeOK
<1>1. CASE SignInEmail(b)
  <2>1. [Nothing EXCEPT !.owes = on] \in Request
    BY <1>0 DEF Nothing, Request, TypeOK
  <2>2. QED BY <1>1, <2>1 DEF SignInEmail, Places
<1>2. CASE CreateSession(b) \/ RotateTrust(b) \/ CompleteSignIn(b) \/ Alert(b)
  BY <1>0, <1>2
  DEF CreateSession, RotateTrust, CompleteSignIn, Alert, AfterSession, Answer, Places, MakingSession
<1>3. CASE TwoFactorGate(b)
  <2>1. [req[b] EXCEPT !.owes = FALSE] \in Request
    BY <1>0 DEF Request
  <2>2. QED BY <1>0, <1>3, <2>1 DEF TwoFactorGate, Answer, Places, MakingSession
<1>4. ASSUME NEW p \in Codes, NEW trust \in BOOLEAN, VerifyTotp(b, p, trust)
      PROVE  \E at \in Places, r \in Request : Go(b, at, r)
  <2>1. [owes |-> TRUE, of |-> secret, code |-> p, trust |-> trust] \in Request
    BY Numbers DEF Request
  <2>2. QED BY <1>4, <2>1 DEF VerifyTotp, Places
<1>5. ASSUME NEW r \in Request, Accept(b, r)
      PROVE  \E at \in Places, s \in Request : Go(b, at, s)
  <2>1. [Nothing EXCEPT !.trust = r.trust] \in Request
    BY <1>0 DEF Nothing, Request
  <2>2. QED BY <1>5, <2>1 DEF Accept, Places, MakingSession
<1>6. CASE CheckTotp(b)
  <2>1. Accept(b, req[b]) \/ Answer(b)
    BY <1>6 DEF CheckTotp
  <2>2. QED BY <1>0, <1>5, <2>1 DEF Answer, Places
<1>7. ASSUME NEW trust \in BOOLEAN, VerifyBackupCode(b, trust)
      PROVE  \E at \in Places, r \in Request : Go(b, at, r)
  <2>1. [Nothing EXCEPT !.trust = trust] \in Request
    BY <1>0 DEF Nothing, Request
  <2>2. QED BY <1>5, <1>7, <2>1 DEF VerifyBackupCode
<1>8. CASE TrustBrowser(b) \/ SwitchOn(b) \/ ConfirmSetUp(b) \/ DisableTwoFactor(b)
             \/ ForgetTrustedDevices(b)
  BY <1>0, <1>8
  DEF TrustBrowser, SwitchOn, ConfirmSetUp, DisableTwoFactor, ForgetTrustedDevices, Answer, Places,
      MakingSession
<1>9. CASE ResetPassword(b) \/ ForgetKnownDevices(b) \/ RevokeSessions(b) \/ Crash(b)
  BY <1>0, <1>9 DEF ResetPassword, ForgetKnownDevices, RevokeSessions, Crash, Answer, Places
<1>10. CASE ChallengeEnds(b) \/ EnableTwoFactor(b) \/ GenerateBackupCodes(b) \/ RevokeOtherSessions(b)
              \/ SignOut(b) \/ \E c \in Browsers : RevokeDevice(b, c)
  BY <1>10
  DEF ChallengeEnds, EnableTwoFactor, GenerateBackupCodes, RevokeOtherSessions, SignOut, RevokeDevice,
      SignedIn, Idle
<1>11. QED
  BY <1>1, <1>2, <1>3, <1>4, <1>6, <1>7, <1>8, <1>9, <1>10
  DEF BrowserStep, SignInStep, FactorStep, AccountStep

\* A browser's step is a step of that browser alone.
LEMMA OthersKept ==
    ASSUME TypeOK, NEW b \in Browsers, BrowserStep(b)
    PROVE  /\ \A c \in Browsers \ {b} : pc'[c] = pc[c] /\ req'[c] = req[c]
           /\ pc' \in [Browsers -> Places] /\ req' \in [Browsers -> Request]
<1>1. pc \in [Browsers -> Places] /\ req \in [Browsers -> Request]
  BY DEF TypeOK, Places
<1>2. QED BY <1>1, Goes DEF Go

\* What brings a browser where it stands after its own step.
LEMMA StandsAt ==
    ASSUME TypeOK, NEW b \in Browsers, BrowserStep(b)
    PROVE  /\ pc'[b] = "rotate" => TwoFactorGate(b)
           /\ pc'[b] = "trust" => \E r \in Request : Accept(b, r)
           /\ pc'[b] = "complete" => \/ CreateSession(b) \/ RotateTrust(b) \/ TrustBrowser(b)
                                     \/ \E r \in Request : Accept(b, r)
           /\ pc'[b] = "alert" => CompleteSignIn(b)
           /\ pc'[b] = "check" =>
                \E p \in Codes, trust \in BOOLEAN : VerifyTotp(b, p, trust)
<1>0. pc \in [Browsers -> Places] /\ req[b] \in Request /\ Nothing \in Request
  BY Numbers DEF TypeOK, Places
<1>1. CASE SignInEmail(b) \/ RotateTrust(b) \/ Alert(b)
  BY <1>0, <1>1 DEF SignInEmail, RotateTrust, Alert, Answer, Go
<1>2. CASE CreateSession(b)
  BY <1>0, <1>2 DEF CreateSession, AfterSession, Go
<1>3. CASE TwoFactorGate(b)
  BY <1>0, <1>3 DEF TwoFactorGate, Answer, Go
<1>4. CASE CompleteSignIn(b)
  BY <1>0, <1>4 DEF CompleteSignIn, Answer, Go
<1>5. ASSUME NEW p \in Codes, NEW trust \in BOOLEAN, VerifyTotp(b, p, trust)
      PROVE  pc'[b] = "check"
  BY <1>0, <1>5 DEF VerifyTotp, Go
<1>6. ASSUME NEW r \in Request, Accept(b, r)
      PROVE  pc'[b] \in {"trust", "complete"}
  BY <1>0, <1>6 DEF Accept, Go
<1>7. CASE CheckTotp(b)
  <2>1. Accept(b, req[b]) \/ Answer(b)
    BY <1>7 DEF CheckTotp
  <2>2. CASE Answer(b)
    BY <1>0, <2>2 DEF Answer, Go
  <2>3. CASE Accept(b, req[b])
    BY <1>0, <1>6, <2>3
  <2>4. QED BY <2>1, <2>2, <2>3
<1>8. ASSUME NEW trust \in BOOLEAN, VerifyBackupCode(b, trust)
      PROVE  \E r \in Request : Accept(b, r)
  <2>1. [Nothing EXCEPT !.trust = trust] \in Request
    BY <1>0 DEF Nothing, Request
  <2>2. QED BY <1>8, <2>1 DEF VerifyBackupCode
<1>9. CASE TrustBrowser(b) \/ SwitchOn(b) \/ ConfirmSetUp(b) \/ DisableTwoFactor(b)
             \/ ForgetTrustedDevices(b)
  BY <1>0, <1>9
  DEF TrustBrowser, SwitchOn, ConfirmSetUp, DisableTwoFactor, ForgetTrustedDevices, Answer, Go
<1>10. CASE ResetPassword(b) \/ ForgetKnownDevices(b) \/ RevokeSessions(b) \/ Crash(b)
  BY <1>0, <1>10 DEF ResetPassword, ForgetKnownDevices, RevokeSessions, Crash, Answer, Go
<1>11. CASE ChallengeEnds(b) \/ EnableTwoFactor(b) \/ GenerateBackupCodes(b) \/ RevokeOtherSessions(b)
              \/ SignOut(b) \/ \E c \in Browsers : RevokeDevice(b, c)
  BY <1>11
  DEF ChallengeEnds, EnableTwoFactor, GenerateBackupCodes, RevokeOtherSessions, SignOut, RevokeDevice,
      SignedIn, Idle
<1>12. CASE \E p \in Codes, trust \in BOOLEAN : VerifyTotp(b, p, trust)
  BY <1>5, <1>12
<1>13. CASE \E trust \in BOOLEAN : VerifyBackupCode(b, trust)
  BY <1>6, <1>8, <1>13
<1>14. QED
  BY <1>1, <1>2, <1>3, <1>4, <1>7, <1>9, <1>10, <1>11, <1>12, <1>13
  DEF BrowserStep, SignInStep, FactorStep, AccountStep

-----------------------------------------------------------------------------
(* Codes *)

\* What a step does to the secret, the codes that count, and those that signed in.
LEMMA FactorMoves ==
    ASSUME TypeOK, NEW b \in Browsers, BrowserStep(b)
    PROVE  /\ clock' = clock
           /\ \/ UNCHANGED <<secret, made, once, spent>>
              \/ EnableTwoFactor(b)
              \/ secret' = 0 /\ UNCHANGED <<made, once, spent>>
              \/ \E p \in Codes, trust \in BOOLEAN : VerifyTotp(b, p, trust)
              \/ CheckTotp(b) /\ Accept(b, req[b])
<1>1. CASE SignInEmail(b) \/ CreateSession(b) \/ TwoFactorGate(b) \/ RotateTrust(b)
             \/ CompleteSignIn(b) \/ Alert(b) \/ ChallengeEnds(b) \/ TrustBrowser(b)
             \/ \E trust \in BOOLEAN : VerifyBackupCode(b, trust)
  BY <1>1
  DEF SignInEmail, CreateSession, TwoFactorGate, RotateTrust, CompleteSignIn, Alert, ChallengeEnds,
      TrustBrowser, VerifyBackupCode, factor, history
<1>2. CASE CheckTotp(b)
  BY <1>2 DEF CheckTotp, factor
<1>3. CASE \E p \in Codes, trust \in BOOLEAN : VerifyTotp(b, p, trust)
  BY <1>3 DEF VerifyTotp
<1>4. CASE EnableTwoFactor(b)
  BY <1>4 DEF EnableTwoFactor
<1>5. CASE GenerateBackupCodes(b) \/ ConfirmSetUp(b) \/ SwitchOn(b) \/ DisableTwoFactor(b)
             \/ ForgetTrustedDevices(b)
  BY <1>5
  DEF GenerateBackupCodes, ConfirmSetUp, SwitchOn, DisableTwoFactor, ForgetTrustedDevices, factor,
      history
<1>6. CASE AccountStep(b)
  BY <1>6
  DEF AccountStep, RevokeOtherSessions, ResetPassword, ForgetKnownDevices, RevokeSessions, SignOut,
      Crash, RevokeDevice, factor, history
<1>7. QED BY <1>1, <1>2, <1>3, <1>4, <1>5, <1>6 DEF BrowserStep, SignInStep, FactorStep

LEMMA SecretsMadeKept ==
    ASSUME TypeOK, SecretsMade, NEW b \in Browsers, BrowserStep(b)
    PROVE  SecretsMade'
<1>1. made \in Nat /\ made' \in {made, made + 1} /\ secret \in 0..made
  <2>1. made \in Nat
    BY Numbers
  <2>2. made' \in {made, made + 1}
    BY FactorMoves DEF EnableTwoFactor, VerifyTotp, CheckTotp, factor
  <2>3. QED BY <2>1, <2>2 DEF TypeOK
<1>2. ASSUME NEW c \in Browsers, pc'[c] = "check" PROVE req'[c].of <= made'
  <2>1. CASE c # b
    <3>1. pc[c] = "check" /\ req'[c] = req[c] /\ req[c].of \in Int
      BY <1>2, <2>1, OthersKept, Numbers
    <3>2. req[c].of <= made
      BY <3>1 DEF SecretsMade
    <3>3. QED BY <1>1, <3>1, <3>2
  <2>2. CASE c = b
    <3>1. PICK p \in Codes, trust \in BOOLEAN : VerifyTotp(b, p, trust)
      BY <1>2, <2>2, StandsAt
    <3>2. req'[b] = [owes |-> TRUE, of |-> secret, code |-> p, trust |-> trust] /\ made' = made
      BY <3>1 DEF VerifyTotp, Go, TypeOK
    <3>3. req'[b].of = secret
      BY <3>2
    <3>4. QED BY <1>1, <2>2, <3>2, <3>3
  <2>3. QED BY <2>1, <2>2
<1>3. QED BY <1>2 DEF SecretsMade

\* What is being checked after a step of b that types no code: no more than before.
LEMMA CheckingShrinks ==
    ASSUME TypeOK, SecretsMade, NEW b \in Browsers, BrowserStep(b), NEW p \in Codes,
           \A o \in Codes, trust \in BOOLEAN : ~VerifyTotp(b, o, trust)
    PROVE  /\ Checking(p)' \subseteq Checking(p) \ {b}
           /\ EnableTwoFactor(b) => Checking(p)' = {}
<1>1. pc'[b] # "check"
  BY StandsAt
<1>2. secret' = secret \/ secret' = 0 \/ EnableTwoFactor(b)
  BY FactorMoves DEF CheckTotp, factor
<1>3. ASSUME EnableTwoFactor(b), NEW c \in Browsers, pc[c] = "check" PROVE req[c].of # secret'
  <2>1. secret' = made + 1 /\ made \in Nat
    BY <1>3, Numbers DEF EnableTwoFactor
  <2>2. req[c].of <= made /\ req[c].of \in Int
    BY <1>3, Numbers DEF SecretsMade
  <2>3. QED BY <2>1, <2>2
<1>4. \A c \in Browsers : pc'[c] = "check" => c # b /\ pc[c] = "check" /\ req'[c] = req[c]
  BY <1>1, OthersKept
<1>5. QED BY <1>2, <1>3, <1>4 DEF Checking

LEMMA CodesCountedKept ==
    ASSUME TypeOK, SecretsMade, CodesCounted, CodeOnce, NEW b \in Browsers, BrowserStep(b)
    PROVE  CodesCounted' /\ CodeOnce' /\ \A p \in Codes : spent'[p] > 0 => once'[p] > 0
<1>0. /\ clock' = clock /\ clock \in Nat /\ OnceWindow \in Nat /\ OnceWindow >= 3
      /\ once \in [Codes -> Int] /\ spent \in [Codes -> Nat] /\ Codes \subseteq Nat
  BY FactorMoves, Numbers
<1>1. SUFFICES ASSUME NEW p \in Codes
               PROVE  /\ /\ Checking(p)' # {} \/ spent'[p] > 0 => Counts(p)'
                         /\ clock <= p + 1 =>
                              /\ \A c, d \in Checking(p)' : c = d
                              /\ spent'[p] > 0 => Checking(p)' = {}
                      /\ spent'[p] <= 1
                      /\ spent'[p] > 0 => once'[p] > 0
  BY <1>0 DEF CodesCounted, CodeOnce
<1>2. /\ Checking(p) # {} \/ spent[p] > 0 => Counts(p)
      /\ clock <= p + 1 =>
           /\ \A c, d \in Checking(p) : c = d
           /\ spent[p] > 0 => Checking(p) = {}
      /\ spent[p] <= 1
      /\ spent[p] > 0 => once[p] > 0
      /\ p \in Nat /\ once[p] \in Int /\ spent[p] \in Nat
  BY <1>0 DEF CodesCounted, CodeOnce, TypeOK
<1>3. CASE \E o \in Codes, trust \in BOOLEAN : VerifyTotp(b, o, trust)
  <2>1. PICK o \in Codes, trust \in BOOLEAN : VerifyTotp(b, o, trust)
    BY <1>3
  <2>2. /\ once[o] <= clock /\ o <= clock + 1 /\ once' = [once EXCEPT ![o] = clock + OnceWindow]
        /\ UNCHANGED <<spent, secret>> /\ pc[b] = "idle"
    BY <2>1 DEF VerifyTotp, FirstUse, UsedUntil, Idle, history
  <2>3. req'[b].code = o
    <3>1. req'[b] = [owes |-> TRUE, of |-> secret, code |-> o, trust |-> trust]
      BY <2>1 DEF VerifyTotp, Go, TypeOK
    <3>2. QED BY <3>1
  <2>4. CASE p # o
    <3>1. Checking(p)' = Checking(p)
      BY <2>2, <2>3, <2>4, OthersKept DEF Checking
    <3>2. once'[p] = once[p]
      BY <1>0, <2>2, <2>4
    <3>3. QED BY <1>2, <2>2, <3>1, <3>2 DEF Counts
  <2>5. CASE p = o
    <3>1. Checking(p)' \subseteq Checking(p) \cup {b}
      BY <2>2, OthersKept DEF Checking
    <3>2. once'[p] = clock + OnceWindow /\ p <= clock + 1
      BY <1>0, <2>2, <2>5
    <3>3. Counts(p)' /\ once'[p] > 0
      BY <1>0, <1>2, <3>2 DEF Counts
    <3>4. clock <= p + 1 => Checking(p) = {} /\ spent[p] = 0
      BY <1>0, <1>2, <2>2, <2>5 DEF Counts
    <3>5. QED BY <1>2, <2>2, <3>1, <3>3, <3>4
  <2>6. QED BY <2>4, <2>5
<1>4. CASE \A o \in Codes, trust \in BOOLEAN : ~VerifyTotp(b, o, trust)
  <2>0. Checking(p)' \subseteq Checking(p) \ {b} /\ (EnableTwoFactor(b) => Checking(p)' = {})
    BY <1>4, CheckingShrinks
  <2>1. CASE UNCHANGED <<once, spent>>
    BY <1>2, <2>0, <2>1 DEF Counts
  <2>2. CASE EnableTwoFactor(b)
    <3>1. spent'[p] = 0
      BY <2>2 DEF EnableTwoFactor, Unused
    <3>2. QED BY <2>0, <2>2, <3>1
  <2>3. CASE CheckTotp(b) /\ ~UNCHANGED <<once, spent>>
    <3>1. /\ once' = once /\ spent' = [spent EXCEPT ![req[b].code] = @ + 1]
          /\ pc[b] = "check" /\ secret # 0 /\ secret = req[b].of
          /\ req[b].code \in clock - 1..clock + 1
      BY <2>3 DEF CheckTotp, factor, InWindow
    <3>2. CASE req[b].code # p
      <4>1. spent'[p] = spent[p]
        BY <1>0, <3>1, <3>2
      <4>2. QED BY <1>2, <2>0, <3>1, <4>1 DEF Counts
    <3>3. CASE req[b].code = p
      <4>1. b \in Checking(p) /\ clock <= p + 1
        BY <1>0, <1>2, <3>1, <3>3 DEF Checking
      <4>2. spent[p] = 0 /\ spent'[p] = 1 /\ Checking(p)' = {} /\ Counts(p)
        BY <1>0, <1>2, <2>0, <3>1, <3>3, <4>1
      <4>3. once[p] > 0
        BY <1>0, <1>2, <4>2 DEF Counts
      <4>4. QED BY <3>1, <4>2, <4>3 DEF Counts
    <3>4. QED BY <3>2, <3>3
  <2>4. QED BY <1>4, <2>1, <2>2, <2>3, FactorMoves
<1>5. QED BY <1>3, <1>4

-----------------------------------------------------------------------------
(* Types *)

LEMMA SettingsTyped ==
    ASSUME TypeOK, NEW b \in Browsers, BrowserStep(b)
    PROVE  /\ on' \in BOOLEAN /\ backup' \in BOOLEAN /\ owed' \in BOOLEAN
           /\ made' \in 0..MaxSecrets /\ secret' \in 0..made'
           /\ once' \in [Codes -> 0..MaxTime + OnceWindow] /\ spent' \in [Codes -> Nat]
           /\ clock' \in 0..MaxTime /\ asked' \in 0..MaxResets /\ links' \in 0..asked'
<1>0. /\ on \in BOOLEAN /\ backup \in BOOLEAN /\ owed \in BOOLEAN
      /\ made \in 0..MaxSecrets /\ secret \in 0..made /\ clock \in 0..MaxTime
      /\ once \in [Codes -> 0..MaxTime + OnceWindow] /\ spent \in [Codes -> Nat]
      /\ asked \in 0..MaxResets /\ links \in 0..asked
  BY DEF TypeOK
<1>1. clock' = clock
  BY FactorMoves
<1>2. made' \in 0..MaxSecrets /\ secret' \in 0..made'
  <2>1. CASE EnableTwoFactor(b)
    <3>1. made < MaxSecrets /\ made' = made + 1 /\ secret' = made + 1
      BY <2>1 DEF EnableTwoFactor
    <3>2. QED BY <1>0, <3>1, Numbers
  <2>2. CASE made' = made /\ secret' \in {secret, 0}
    BY <1>0, <2>2, Numbers
  <2>3. QED BY <2>1, <2>2, FactorMoves DEF VerifyTotp, CheckTotp, factor
<1>3. once' \in [Codes -> 0..MaxTime + OnceWindow] /\ spent' \in [Codes -> Nat]
  <2>1. CASE EnableTwoFactor(b)
    <3>1. 0 \in 0..MaxTime + OnceWindow
      BY Numbers
    <3>2. QED BY <2>1, <3>1 DEF EnableTwoFactor, Unused
  <2>2. ASSUME NEW p \in Codes, NEW trust \in BOOLEAN, VerifyTotp(b, p, trust)
        PROVE  /\ once' \in [Codes -> 0..MaxTime + OnceWindow] /\ spent' \in [Codes -> Nat]
    <3>1. clock + OnceWindow \in 0..MaxTime + OnceWindow
      BY <1>0, Numbers
    <3>2. QED BY <1>0, <2>2, <3>1 DEF VerifyTotp, UsedUntil, history
  <2>3. CASE CheckTotp(b)
    BY <1>0, <2>3 DEF CheckTotp, factor
  <2>4. QED BY <1>0, <2>1, <2>2, <2>3, FactorMoves
<1>4. asked' \in 0..MaxResets /\ links' \in 0..asked'
  <2>1. CASE ResetPassword(b)
    <3>1. links > 0 /\ links' = links - 1 /\ asked' = asked
      BY <2>1 DEF ResetPassword
    <3>2. QED BY <1>0, <3>1, Numbers
  <2>2. CASE UNCHANGED mail
    BY <1>0, <2>2 DEF mail
  <2>3. QED BY <2>1, <2>2
    DEF BrowserStep, SignInStep, FactorStep, AccountStep, SignInEmail, CreateSession, TwoFactorGate,
        RotateTrust, CompleteSignIn, Alert, ChallengeEnds, CheckTotp, TrustBrowser, VerifyTotp,
        VerifyBackupCode, EnableTwoFactor, GenerateBackupCodes, ConfirmSetUp, SwitchOn,
        DisableTwoFactor, ForgetTrustedDevices, RevokeOtherSessions, ForgetKnownDevices,
        RevokeSessions, SignOut, Crash, RevokeDevice
<1>5. on' \in BOOLEAN /\ backup' \in BOOLEAN /\ owed' \in BOOLEAN
  <2>1. CASE SignInStep(b)
    BY <1>0, <2>1
    DEF SignInStep, SignInEmail, CreateSession, TwoFactorGate, RotateTrust, CompleteSignIn, Alert,
        ChallengeEnds, CheckTotp, TrustBrowser, VerifyTotp, VerifyBackupCode, factor, history
  <2>2. CASE FactorStep(b)
    BY <1>0, <2>2
    DEF FactorStep, EnableTwoFactor, GenerateBackupCodes, ConfirmSetUp, SwitchOn, DisableTwoFactor,
        ForgetTrustedDevices, FreshStart, factor, history
  <2>3. CASE AccountStep(b)
    BY <1>0, <2>3
    DEF AccountStep, RevokeOtherSessions, ResetPassword, ForgetKnownDevices, RevokeSessions, SignOut,
        Crash, RevokeDevice, FreshStart, factor, history
  <2>4. QED BY <2>1, <2>2, <2>3 DEF BrowserStep
<1>6. QED BY <1>0, <1>1, <1>2, <1>3, <1>4, <1>5

LEMMA BrowsersTyped ==
    ASSUME TypeOK, NEW b \in Browsers, BrowserStep(b)
    PROVE  /\ trusted' \subseteq Browsers /\ known' \subseteq Browsers
           /\ sessions' \subseteq Browsers /\ challenge' \subseteq Browsers
           /\ old' \subseteq Browsers /\ told' \subseteq Browsers
<1>0. /\ trusted \subseteq Browsers /\ known \subseteq Browsers
      /\ sessions \subseteq Browsers /\ challenge \subseteq Browsers
      /\ old \subseteq Browsers /\ told \subseteq Browsers
  BY DEF TypeOK
<1>1. CASE SignInEmail(b) \/ CreateSession(b) \/ TwoFactorGate(b) \/ RotateTrust(b)
             \/ CompleteSignIn(b) \/ Alert(b) \/ ChallengeEnds(b) \/ TrustBrowser(b)
  BY <1>0, <1>1
  DEF SignInEmail, CreateSession, TwoFactorGate, RotateTrust, CompleteSignIn, Alert, ChallengeEnds,
      TrustBrowser, rows, marks, history
<1>2. CASE CheckTotp(b) \/ (\E p \in Codes, trust \in BOOLEAN : VerifyTotp(b, p, trust))
             \/ \E trust \in BOOLEAN : VerifyBackupCode(b, trust)
  BY <1>0, <1>2 DEF CheckTotp, VerifyTotp, VerifyBackupCode, Accept, rows, marks, history
<1>3. CASE FactorStep(b)
  BY <1>0, <1>3
  DEF FactorStep, EnableTwoFactor, GenerateBackupCodes, ConfirmSetUp, SwitchOn, DisableTwoFactor,
      ForgetTrustedDevices, Forgotten, FreshStart, rows, marks, history
<1>4. CASE AccountStep(b)
  BY <1>0, <1>4
  DEF AccountStep, RevokeOtherSessions, ResetPassword, ForgetKnownDevices, StillKnown, RevokeSessions,
      SignOut, Crash, RevokeDevice, FreshStart, rows, marks, history
<1>5. QED BY <1>1, <1>2, <1>3, <1>4 DEF BrowserStep, SignInStep

-----------------------------------------------------------------------------
(* Trust, known browsers, and the second factor *)

LEMMA SecondFactorPaidKept ==
    ASSUME TypeOK, SecondFactorPaid, NEW b \in Browsers, BrowserStep(b)
    PROVE  SecondFactorPaid'
<1> DEFINE paid == {"rotate", "trust", "complete", "alert"}
<1>0. pc \in [Browsers -> Places] /\ req \in [Browsers -> Request] /\ req[b] \in Request
  BY DEF TypeOK, Places
<1>1. ASSUME pc'[b] \in paid PROVE ~req'[b].owes
  <2>1. CASE TwoFactorGate(b)
    <3>1. pc'[b] = "rotate" => req'[b] = [req[b] EXCEPT !.owes = FALSE]
      BY <1>0, <2>1 DEF TwoFactorGate, Answer, Go
    <3>2. pc'[b] \in {"rotate", "idle"}
      BY <1>0, <2>1 DEF TwoFactorGate, Answer, Go
    <3>3. QED BY <1>0, <1>1, <3>1, <3>2 DEF Request
  <2>2. ASSUME NEW r \in Request, Accept(b, r) PROVE ~req'[b].owes
    <3>1. req'[b] = [Nothing EXCEPT !.trust = r.trust]
      BY <1>0, <2>2 DEF Accept, Go
    <3>2. QED BY <3>1 DEF Nothing
  <2>3. CASE CreateSession(b)
    BY <1>0, <1>1, <2>3 DEF CreateSession, AfterSession, Go
  <2>4. CASE RotateTrust(b) \/ CompleteSignIn(b)
    <3>1. pc[b] \in paid /\ (req'[b] = req[b] \/ pc'[b] = "idle")
      BY <1>0, <2>4 DEF RotateTrust, CompleteSignIn, Answer, Go
    <3>2. QED BY <1>1, <3>1 DEF SecondFactorPaid
  <2>5. CASE TrustBrowser(b)
    <3>1. req'[b] = Nothing
      BY <1>0, <2>5 DEF TrustBrowser, Go
    <3>2. QED BY <3>1 DEF Nothing
  <2>6. QED BY <1>1, <2>1, <2>2, <2>3, <2>4, <2>5, StandsAt
<1>2. QED BY <1>1, OthersKept DEF SecondFactorPaid

\* A browser that skips the code was trusted since the last fresh start, or that start is
\* not over.
LEMMA TrustKept ==
    ASSUME TypeOK, SkippersAreFresh, TrustForgotten, NEW b \in Browsers, BrowserStep(b)
    PROVE  SkippersAreFresh' /\ TrustForgotten'
<1>0. pc \in [Browsers -> Places]
  BY DEF TypeOK, Places
<1>1. CASE RotateTrust(b)
  <2>1. /\ trusted' = trusted \cup {b} /\ pc[b] = "rotate" /\ pc'[b] = "complete"
        /\ UNCHANGED <<old, owed>>
    BY <1>0, <1>1 DEF RotateTrust, Go, history
  <2>2. QED BY <2>1, OthersKept DEF SkippersAreFresh, TrustForgotten, TypeOK
<1>2. CASE TrustBrowser(b)
  <2>1. trusted' = trusted \cup {b} /\ old' = old \ {b} /\ owed' = owed /\ pc'[b] # "rotate"
    BY <1>0, <1>2 DEF TrustBrowser, Go
  <2>2. QED BY <2>1, OthersKept DEF SkippersAreFresh, TrustForgotten, TypeOK
<1>3. CASE TwoFactorGate(b)
  <2>1. pc'[b] = "rotate" => b \in trusted
    BY <1>0, <1>3 DEF TwoFactorGate, Answer, Go
  <2>2. UNCHANGED <<trusted, old, owed>>
    BY <1>3 DEF TwoFactorGate, marks, history
  <2>3. QED BY <2>1, <2>2, OthersKept DEF SkippersAreFresh, TrustForgotten, TypeOK
<1>4. CASE ForgetTrustedDevices(b)
  <2>1. trusted' = {} /\ old' = old \ {c \in Browsers : pc[c] = "rotate"} /\ pc'[b] # "rotate"
    BY <1>0, <1>4 DEF ForgetTrustedDevices, Forgotten, Answer, Go
  <2>2. QED BY <2>1, OthersKept DEF SkippersAreFresh, TrustForgotten, TypeOK
<1>5. CASE SwitchOn(b) \/ DisableTwoFactor(b) \/ ResetPassword(b)
  BY <1>5 DEF SwitchOn, DisableTwoFactor, ResetPassword, FreshStart, SkippersAreFresh, TrustForgotten
<1>6. CASE ~TwoFactorGate(b) /\ UNCHANGED <<trusted, old, owed>>
  BY <1>6, StandsAt, OthersKept DEF SkippersAreFresh, TrustForgotten, TypeOK
<1>7. CASE SignInEmail(b) \/ CreateSession(b) \/ CompleteSignIn(b) \/ Alert(b) \/ ChallengeEnds(b)
             \/ CheckTotp(b) \/ (\E p \in Codes, trust \in BOOLEAN : VerifyTotp(b, p, trust))
             \/ \E trust \in BOOLEAN : VerifyBackupCode(b, trust)
  <2>1. UNCHANGED <<trusted, old, owed>>
    BY <1>7
    DEF SignInEmail, CreateSession, CompleteSignIn, Alert, ChallengeEnds, CheckTotp, VerifyTotp,
        VerifyBackupCode, marks, history
  <2>2. QED BY <1>3, <1>6, <2>1
<1>8. CASE EnableTwoFactor(b) \/ GenerateBackupCodes(b) \/ ConfirmSetUp(b)
             \/ RevokeOtherSessions(b) \/ ForgetKnownDevices(b) \/ RevokeSessions(b) \/ SignOut(b)
             \/ Crash(b) \/ \E c \in Browsers : RevokeDevice(b, c)
  <2>1. UNCHANGED <<trusted, old, owed>>
    BY <1>8
    DEF EnableTwoFactor, GenerateBackupCodes, ConfirmSetUp, RevokeOtherSessions, ForgetKnownDevices,
        RevokeSessions, SignOut, Crash, RevokeDevice, marks, history
  <2>2. QED BY <1>3, <1>6, <2>1
<1>9. QED BY <1>1, <1>2, <1>3, <1>4, <1>5, <1>7, <1>8
  DEF BrowserStep, SignInStep, FactorStep, AccountStep

LEMMA KnownAreToldKept ==
    ASSUME TypeOK, KnownAreTold, NEW b \in Browsers, BrowserStep(b)
    PROVE  KnownAreTold'
<1>0. pc \in [Browsers -> Places] /\ known \subseteq Browsers
  BY DEF TypeOK, Places
<1>1. CASE CompleteSignIn(b)
  <2>1. /\ known' = known \cup {b} /\ told' = told /\ pc[b] = "complete"
        /\ b \notin known => pc'[b] = "alert"
    BY <1>0, <1>1 DEF CompleteSignIn, IsNew, Go, history
  <2>2. QED BY <1>0, <2>1, OthersKept DEF KnownAreTold
<1>2. CASE Alert(b)
  <2>1. known' = known /\ told' = told \cup {b}
    BY <1>2 DEF Alert, marks
  <2>2. QED BY <1>0, <2>1, OthersKept DEF KnownAreTold
<1>3. CASE ForgetKnownDevices(b)
  BY <1>3 DEF ForgetKnownDevices, StillKnown, KnownAreTold
<1>4. CASE Crash(b)
  <2>1. known' = known /\ told' = IF pc[b] = "alert" THEN told \cup {b} ELSE told
    BY <1>4 DEF Crash, marks
  <2>2. QED BY <1>0, <2>1, OthersKept DEF KnownAreTold
<1>5. CASE pc[b] # "alert" /\ UNCHANGED <<known, told>>
  BY <1>0, <1>5, OthersKept DEF KnownAreTold
<1>6. CASE SignInEmail(b) \/ CreateSession(b) \/ TwoFactorGate(b) \/ RotateTrust(b)
             \/ ChallengeEnds(b) \/ TrustBrowser(b)
             \/ CheckTotp(b) \/ (\E p \in Codes, trust \in BOOLEAN : VerifyTotp(b, p, trust))
             \/ \E trust \in BOOLEAN : VerifyBackupCode(b, trust)
  <2>1. pc[b] # "alert" /\ UNCHANGED <<known, told>>
    BY <1>6
    DEF SignInEmail, CreateSession, TwoFactorGate, RotateTrust, ChallengeEnds, CheckTotp, VerifyTotp,
        VerifyBackupCode, TrustBrowser, Idle, marks, history
  <2>2. QED BY <1>5, <2>1
<1>7. CASE FactorStep(b)
  <2>1. pc[b] # "alert" /\ UNCHANGED <<known, told>>
    BY <1>7
    DEF FactorStep, EnableTwoFactor, GenerateBackupCodes, ConfirmSetUp, SwitchOn, DisableTwoFactor,
        ForgetTrustedDevices, SignedIn, Idle, marks, history
  <2>2. QED BY <1>5, <2>1
<1>8. CASE RevokeOtherSessions(b) \/ ResetPassword(b) \/ RevokeSessions(b) \/ SignOut(b)
             \/ \E c \in Browsers : RevokeDevice(b, c)
  <2>1. pc[b] # "alert" /\ UNCHANGED <<known, told>>
    BY <1>8
    DEF RevokeOtherSessions, ResetPassword, RevokeSessions, SignOut, RevokeDevice, SignedIn, Idle,
        marks, history
  <2>2. QED BY <1>5, <2>1
<1>9. QED BY <1>1, <1>2, <1>3, <1>4, <1>6, <1>7, <1>8 DEF BrowserStep, SignInStep, AccountStep

-----------------------------------------------------------------------------
(* The invariant *)

LEMMA SurroundingsKeep ==
    ASSUME IInv, Tick \/ RequestPasswordReset \/ OwnerReset \/ UNCHANGED vars
    PROVE  IInv'
<1>0. /\ TypeOK /\ SecondFactorPaid /\ SecretsMade /\ CodesCounted /\ CodeOnce
      /\ SkippersAreFresh /\ TrustForgotten /\ KnownAreTold
  BY DEF IInv
<1>1. CASE Tick
  <2>1. clock' = clock + 1 /\ clock < MaxTime /\ UNCHANGED <<factor, rows, marks, mail, pc, req, history>>
    BY <1>1 DEF Tick
  <2>2. clock' \in 0..MaxTime /\ clock' \in Nat
    BY <1>0, <2>1, Numbers
  <2>3. TypeOK'
    BY <1>0, <2>1, <2>2 DEF TypeOK, factor, rows, marks, mail, history
  <2>4. SecondFactorPaid' /\ SecretsMade' /\ CodeOnce' /\ SkippersAreFresh' /\ TrustForgotten' /\ KnownAreTold'
    BY <1>0, <2>1
    DEF SecondFactorPaid, SecretsMade, CodeOnce, SkippersAreFresh, TrustForgotten, KnownAreTold, factor,
        marks, history
  <2>5. CodesCounted'
    <3>1. \A p \in Codes : Checking(p)' = Checking(p) /\ (Counts(p)' <=> Counts(p)) /\ spent' = spent
      BY <2>1 DEF Checking, Counts, factor, history
    <3>2. \A p \in Codes : p \in Nat /\ (clock' <= p + 1 => clock <= p + 1)
      BY <1>0, <2>1, Numbers
    <3>3. QED BY <1>0, <3>1, <3>2 DEF CodesCounted
  <2>6. QED BY <2>3, <2>4, <2>5 DEF IInv
<1>2. CASE RequestPasswordReset
  <2>1. /\ asked < MaxResets /\ asked' = asked + 1 /\ links' = links + 1
        /\ UNCHANGED <<clock, factor, rows, marks, pc, req, history>>
    BY <1>2 DEF RequestPasswordReset
  <2>2. asked' \in 0..MaxResets /\ links' \in 0..asked'
    <3>1. asked \in 0..MaxResets /\ links \in 0..asked
      BY <1>0 DEF TypeOK
    <3>2. QED BY <1>0, <2>1, <3>1, Numbers
  <2>3. TypeOK'
    BY <1>0, <2>1, <2>2 DEF TypeOK, factor, rows, marks, history
  <2>4. SecondFactorPaid' /\ SecretsMade' /\ CodeOnce' /\ SkippersAreFresh' /\ TrustForgotten' /\ KnownAreTold'
    BY <1>0, <2>1
    DEF SecondFactorPaid, SecretsMade, CodeOnce, SkippersAreFresh, TrustForgotten, KnownAreTold, factor,
        marks, history
  <2>5. CodesCounted'
    BY <1>0, <2>1 DEF CodesCounted, Checking, Counts, factor, history
  <2>6. QED BY <2>3, <2>4, <2>5 DEF IInv
<1>3. CASE OwnerReset
  <2>1. /\ on' = FALSE /\ secret' = 0 /\ backup' = FALSE /\ trusted' = {} /\ sessions' = {}
        /\ old' = {b \in trusted : pc[b] # "rotate"} /\ owed' = FALSE
        /\ UNCHANGED <<clock, made, once, known, challenge, mail, pc, req, spent, told>>
    BY <1>3 DEF OwnerReset
  <2>2. TypeOK'
    <3>1. secret' \in 0..made'
      BY <1>0, <2>1, Numbers
    <3>2. QED BY <1>0, <2>1, <3>1 DEF TypeOK, mail
  <2>3. SecondFactorPaid' /\ SecretsMade' /\ CodeOnce' /\ KnownAreTold'
    BY <1>0, <2>1 DEF SecondFactorPaid, SecretsMade, CodeOnce, KnownAreTold
  <2>4. SkippersAreFresh' /\ TrustForgotten'
    BY <2>1 DEF SkippersAreFresh, TrustForgotten
  <2>5. CodesCounted'
    <3>1. \A p \in Codes : Checking(p)' = {}
      BY <2>1 DEF Checking
    <3>2. QED BY <1>0, <2>1, <3>1 DEF CodesCounted, Counts
  <2>6. QED BY <2>2, <2>3, <2>4, <2>5 DEF IInv
<1>4. CASE UNCHANGED vars
  <2>1. TypeOK'
    BY <1>0, <1>4 DEF TypeOK, vars, factor, rows, marks, mail, history
  <2>2. SecondFactorPaid' /\ SecretsMade' /\ CodeOnce' /\ SkippersAreFresh' /\ TrustForgotten' /\ KnownAreTold'
    BY <1>0, <1>4
    DEF SecondFactorPaid, SecretsMade, CodeOnce, SkippersAreFresh, TrustForgotten, KnownAreTold, vars,
        factor, marks, history
  <2>3. CodesCounted'
    BY <1>0, <1>4 DEF CodesCounted, Checking, Counts, vars, factor, history
  <2>4. QED BY <2>1, <2>2, <2>3 DEF IInv
<1>5. QED BY <1>1, <1>2, <1>3, <1>4

LEMMA InitialInvariant == Init => IInv
<1> SUFFICES ASSUME Init PROVE IInv
  OBVIOUS
<1>1. /\ MaxSecrets \in Nat /\ MaxTime \in Nat /\ MaxResets \in Nat /\ OnceWindow \in Nat
      /\ Codes \subseteq Nat
  BY SignInAssumption
<1>2. Nothing \in Request
  <2>1. 0 \in 0..MaxSecrets /\ 0 \in Codes \cup {0}
    BY <1>1
  <2>2. QED BY <2>1 DEF Nothing, Request
<1>3. TypeOK
  <2>1. 0 \in 0..MaxTime /\ 0 \in 0..MaxSecrets /\ 0 \in 0..MaxResets /\ 0 \in 0..0
        /\ Unused \in [Codes -> 0..MaxTime + OnceWindow] /\ Unused \in [Codes -> Nat]
        /\ \A p \in Codes : ~(Unused[p] > 0)
    BY <1>1 DEF Unused
  <2>2. QED BY <1>2, <2>1 DEF Init, TypeOK
<1>4. SecondFactorPaid /\ SecretsMade /\ SkippersAreFresh /\ TrustForgotten /\ KnownAreTold
  BY DEF Init, SecondFactorPaid, SecretsMade, SkippersAreFresh, TrustForgotten, KnownAreTold
<1>5. CodesCounted /\ CodeOnce
  <2>1. \A p \in Codes : spent[p] = 0 /\ Checking(p) = {}
    BY DEF Init, Unused, Checking
  <2>2. QED BY <2>1 DEF CodesCounted, CodeOnce
<1>6. QED BY <1>3, <1>4, <1>5 DEF IInv

LEMMA InvariantKept == IInv /\ [Next]_vars => IInv'
<1> SUFFICES ASSUME IInv, [Next]_vars PROVE IInv'
  OBVIOUS
<1>1. CASE Tick \/ RequestPasswordReset \/ OwnerReset \/ UNCHANGED vars
  BY <1>1, SurroundingsKeep
<1>2. ASSUME NEW b \in Browsers, BrowserStep(b) PROVE IInv'
  <2>0. /\ TypeOK /\ SecondFactorPaid /\ SecretsMade /\ CodesCounted /\ CodeOnce
        /\ SkippersAreFresh /\ TrustForgotten /\ KnownAreTold
    BY DEF IInv
  <2>1. SecretsMade' /\ CodesCounted' /\ CodeOnce' /\ \A p \in Codes : spent'[p] > 0 => once'[p] > 0
    BY <1>2, <2>0, SecretsMadeKept, CodesCountedKept
  <2>2. TypeOK'
    BY <1>2, <2>0, <2>1, OthersKept, SettingsTyped, BrowsersTyped DEF TypeOK, Places
  <2>3. SecondFactorPaid' /\ SkippersAreFresh' /\ TrustForgotten' /\ KnownAreTold'
    BY <1>2, <2>0, SecondFactorPaidKept, TrustKept, KnownAreToldKept
  <2>4. QED BY <2>1, <2>2, <2>3 DEF IInv
<1>3. QED BY <1>1, <1>2, StepsAre

\* The invariant of sign-in: codes are counted for as long as they are accepted, a sign-in
\* past the second factor owes none, and trust that was found is not older than a fresh start.
THEOREM Invariance == Spec => []IInv
<1>1. Init => IInv
  BY InitialInvariant
<1>2. IInv /\ [Next]_vars => IInv'
  BY InvariantKept
<1>3. QED BY <1>1, <1>2, PTL DEF Spec

\* The second factor is one: where two-factor is on, no sign-in is completed by the password
\* alone, and a code of the app signs in once, at however many code screens it is typed and
\* however long the plugin takes to check it (signInCompletion and hooks.before of
\* create-auth.ts, totpCodeOncePerUser of limits.ts).
THEOREM SecondFactor == Spec => []SecondFactorHolds
<1>1. IInv => SecondFactorHolds
  <2>1. SecondFactorPaid => NotByPasswordAlone
    BY DEF SecondFactorPaid, NotByPasswordAlone
  <2>2. QED BY <2>1 DEF IInv, SecondFactorHolds
<1>2. QED BY <1>1, Invariance, PTL

\* When the trusted browsers have been forgotten (forgetTrustedDevices), none that was trusted
\* before skips the code, but for the sign-in that was skipping it at that moment.
THEOREM TrustEnds == Spec => []TrustForgotten
<1>1. IInv => TrustForgotten
  BY DEF IInv
<1>2. QED BY <1>1, Invariance, PTL

\* Nobody signs in from a new browser without the member being told of it (the upsert of
\* known-device.ts says who is first, and only that sign-in sends the mail).
THEOREM NewBrowsersAreTold == Spec => []KnownAreTold
<1>1. IInv => KnownAreTold
  BY DEF IInv
<1>2. QED BY <1>1, Invariance, PTL

-----------------------------------------------------------------------------
(* The notes: counting *)

LEMMA ImageCounted ==
    ASSUME NEW S, NEW T, NEW f \in [S -> T], IsFiniteSet(S),
           \A x, y \in S : f[x] = f[y] => x = y
    PROVE  IsFiniteSet({f[x] : x \in S}) /\ Cardinality({f[x] : x \in S}) = Cardinality(S)
<1>. DEFINE U == {f[x] : x \in S}
<1>1. f \in Bijection(S, U)
  BY DEF Bijection, Surjection, Injection, IsInjective
<1>2. ExistsBijection(S, U)
  BY <1>1 DEF ExistsBijection
<1>. QED  BY <1>2, FS_Bijection

\* What comes before x in the order R.
BeforeIn(S, R, x) == {y \in S : <<y, x>> \in R}

Orders(R, S) ==
    /\ \A x \in S : <<x, x>> \notin R
    /\ \A x, y, z \in S : <<x, y>> \in R /\ <<y, z>> \in R => <<x, z>> \in R
    /\ \A x, y \in S : x = y \/ <<x, y>> \in R \/ <<y, x>> \in R

\* In a finite ordered set, what comes before an element counts it through.
LEMMA CountedThrough ==
    ASSUME NEW S, IsFiniteSet(S), NEW R, Orders(R, S),
           NEW f, f = [x \in S |-> Cardinality(BeforeIn(S, R, x))]
    PROVE  /\ f \in Bijection(S, 0..Cardinality(S) - 1)
           /\ \A x, y \in S : <<x, y>> \in R => f[x] < f[y]
<1>. DEFINE N == Cardinality(S)
            B(x) == BeforeIn(S, R, x)
<1>n. N \in Nat
  BY FS_CardinalityType
<1>1. ASSUME NEW x \in S
      PROVE  IsFiniteSet(B(x)) /\ Cardinality(B(x)) \in 0..N - 1
  <2>1. B(x) \in SUBSET (S \ {x})
    BY DEF BeforeIn, Orders
  <2>2. IsFiniteSet(S \ {x}) /\ Cardinality(S \ {x}) = N - 1
    BY FS_RemoveElement
  <2>3. IsFiniteSet(B(x)) /\ Cardinality(B(x)) <= N - 1
    <3>. HIDE DEF B
    <3>. QED  BY <2>1, <2>2, FS_Subset
  <2>4. Cardinality(B(x)) \in Nat
    BY <2>3, FS_CardinalityType
  <2>. HIDE DEF B, N
  <2>. QED  BY <2>3, <2>4, <1>n
<1>2. ASSUME NEW x \in S, NEW y \in S, <<x, y>> \in R
      PROVE  Cardinality(B(x)) < Cardinality(B(y))
  <2>1. x \notin B(x) /\ B(x) \cup {x} \in SUBSET B(y)
    BY <1>2 DEF BeforeIn, Orders
  <2>2. /\ IsFiniteSet(B(x)) /\ IsFiniteSet(B(y))
        /\ Cardinality(B(x)) \in Int /\ Cardinality(B(y)) \in Int
    BY <1>1
  <2>. HIDE DEF B
  <2>3. Cardinality(B(x) \cup {x}) = Cardinality(B(x)) + 1
    BY <2>1, <2>2, FS_AddElement
  <2>4. Cardinality(B(x) \cup {x}) <= Cardinality(B(y))
    BY <2>1, <2>2, FS_Subset
  <2>. QED  BY <2>2, <2>3, <2>4
<1>. HIDE DEF B
<1>3. \A x, y \in S : <<x, y>> \in R => f[x] < f[y]
  BY <1>2 DEF B
<1>4. f \in [S -> 0..N - 1]
  BY <1>1 DEF B
<1>5. ASSUME NEW x \in S, NEW y \in S, f[x] = f[y]
      PROVE  x = y
  <2>1. f[x] \in Int /\ ~(f[x] < f[y]) /\ ~(f[y] < f[x])
    BY <1>4, <1>5
  <2>. QED  BY <2>1, <1>3 DEF Orders
<1>6. f \in Injection(S, 0..N - 1)
  BY <1>4, <1>5 DEF Injection, IsInjective
<1>7. IsFiniteSet(0..N - 1) /\ Cardinality(0..N - 1) = N
  BY <1>n, FS_Interval
<1>8. f \in Surjection(S, 0..N - 1)
  BY <1>6, <1>7, FS_Injection
<1>. QED  BY <1>3, <1>6, <1>8 DEF Bijection

-----------------------------------------------------------------------------
(* The catalog of files that load *)

\* In files that are in order every entry is read.
LEMMA AllRead ==
    ASSUME NEW t, EntriesFine(t)
    PROVE  /\ Read(t) = DOMAIN t
           /\ \A i \in DOMAIN t :
                /\ Read(t[i].chapters) = DOMAIN t[i].chapters
                /\ GoodId(t[i].id)
                /\ \A j \in DOMAIN t[i].chapters :
                     LET e == t[i].chapters[j] IN
                     /\ Read(e.files) = DOMAIN e.files
                     /\ GoodId(e.id) /\ TestFine(e.test)
                     /\ \A k \in DOMAIN e.files : GoodId(e.files[k].id)
<1>1. \A s : Read(s) \subseteq DOMAIN s
  BY DEF Read
<1>2. Read(t) = DOMAIN t
  BY <1>1 DEF EntriesFine
<1>3. ASSUME NEW i \in DOMAIN t
      PROVE  /\ Read(t[i].chapters) = DOMAIN t[i].chapters
             /\ GoodId(t[i].id)
  BY <1>1 DEF EntriesFine
<1>4. ASSUME NEW i \in DOMAIN t, NEW j \in DOMAIN t[i].chapters
      PROVE  LET e == t[i].chapters[j] IN
             /\ Read(e.files) = DOMAIN e.files
             /\ GoodId(e.id) /\ TestFine(e.test)
             /\ \A k \in DOMAIN e.files : GoodId(e.files[k].id)
  BY <1>1 DEF EntriesFine, LessonFine
<1>. QED  BY <1>2, <1>3, <1>4

\* The catalog has the courses, the chapters and the lessons of the files, each at its place.
LEMMA CatalogOf ==
    ASSUME NEW t, EntriesFine(t)
    PROVE  /\ DOMAIN Courses(t) = DOMAIN t
           /\ \A i \in DOMAIN t :
                /\ Courses(t)[i] = Course(t, i) /\ Courses(t)[i].id = t[i].id
                /\ DOMAIN Courses(t)[i].chapters = DOMAIN t[i].chapters
                /\ \A j \in DOMAIN t[i].chapters :
                     Courses(t)[i].chapters[j] = Chapter(t[i].chapters[j], Number(t, <<i, j>>))
<1>1. DOMAIN Courses(t) = DOMAIN t /\ \A i \in DOMAIN t : Courses(t)[i] = Course(t, i)
  BY AllRead DEF Courses
<1>2. ASSUME NEW i \in DOMAIN t
      PROVE  /\ Courses(t)[i].id = t[i].id
             /\ DOMAIN Courses(t)[i].chapters = DOMAIN t[i].chapters
             /\ \A j \in DOMAIN t[i].chapters :
                  Courses(t)[i].chapters[j] = Chapter(t[i].chapters[j], Number(t, <<i, j>>))
  <2>. DEFINE C == [j \in DOMAIN t[i].chapters |-> Chapter(t[i].chapters[j], Number(t, <<i, j>>))]
  <2>1. Course(t, i) = [id |-> t[i].id, soon |-> t[i].soon, chapters |-> C]
    BY AllRead DEF Course
  <2>2. Courses(t)[i].id = t[i].id /\ Courses(t)[i].chapters = C
    <3>. HIDE DEF C
    <3>. QED  BY <1>1, <2>1
  <2>. QED  BY <2>2
<1>. QED  BY <1>1, <1>2

\* A chapter of the catalog is what its folder says.
IsChapterOf(c, e, number) ==
    /\ c.id = e.id /\ c.number = number /\ c.test = Parsed(e.test)
    /\ DOMAIN c.lessons = DOMAIN e.files
    /\ \A k \in DOMAIN e.files : c.lessons[k].id = e.files[k].id

LEMMA ChapterIs ==
    ASSUME NEW e, NEW number, Read(e.files) = DOMAIN e.files
    PROVE  IsChapterOf(Chapter(e, number), e, number)
<1>. DEFINE c == Chapter(e, number)
            L == [k \in DOMAIN e.files |-> Lesson(e.files[k])]
<1>1. c = [id |-> e.id, number |-> number, lessons |-> L, test |-> Parsed(e.test)]
  BY DEF Chapter
<1>. HIDE DEF c
<1>2. c.id = e.id /\ c.number = number /\ c.lessons = L /\ c.test = Parsed(e.test)
  <2>. HIDE DEF L
  <2>. QED  BY <1>1
<1>3. IsChapterOf(c, e, number)
  BY <1>2 DEF Lesson, IsChapterOf
<1>. QED  BY <1>3 DEF c

LEMMA ChapterOf ==
    ASSUME NEW t, EntriesFine(t), NEW i \in DOMAIN t, NEW j \in DOMAIN t[i].chapters
    PROVE  IsChapterOf(Courses(t)[i].chapters[j], t[i].chapters[j], Number(t, <<i, j>>))
<1>1. Courses(t)[i].chapters[j] = Chapter(t[i].chapters[j], Number(t, <<i, j>>))
  BY CatalogOf
<1>2. Read(t[i].chapters[j].files) = DOMAIN t[i].chapters[j].files
  BY AllRead
<1>. QED  BY <1>1, <1>2, ChapterIs

\* The places of chapters and of lessons.
LEMMA PlacesAre ==
    ASSUME NEW courses
    PROVE  /\ \A p : p \in ChapterPlaces(courses) <=>
                \E i \in DOMAIN courses : \E j \in DOMAIN courses[i].chapters : p = <<i, j>>
           /\ \A p : p \in LessonPlaces(courses) <=>
                \E i \in DOMAIN courses : \E j \in DOMAIN courses[i].chapters :
                  \E k \in DOMAIN courses[i].chapters[j].lessons : p = <<<<i, j>>, k>>
<1>1. \A p : p \in ChapterPlaces(courses) <=>
        \E i \in DOMAIN courses : \E j \in DOMAIN courses[i].chapters : p = <<i, j>>
  BY DEF ChapterPlaces
<1>2. \A p : p \in LessonPlaces(courses) <=>
        \E c \in ChapterPlaces(courses) : \E k \in DOMAIN ChapterAt(courses, c).lessons : p = <<c, k>>
  BY DEF LessonPlaces
<1>. QED  BY <1>1, <1>2 DEF ChapterAt

LEMMA FilePlacesAre ==
    ASSUME NEW t, EntriesFine(t)
    PROVE  /\ ChapterFiles(t) = ChapterPlaces(Courses(t))
           /\ FilePlaces(t) = LessonPlaces(Courses(t))
           /\ \A p \in ChapterFiles(t) : ChapterAt(Courses(t), p).number = Number(t, p)
           /\ \A p \in FilePlaces(t) :
                LessonAt(Courses(t), p).id = FileAt(t, p).id /\ GoodId(FileAt(t, p).id)
<1>1. \A p : p \in ChapterFiles(t) <=>
        \E i \in DOMAIN t : \E j \in DOMAIN t[i].chapters : p = <<i, j>>
  BY AllRead DEF ChapterFiles
<1>2. \A p : p \in FilePlaces(t) <=>
        \E i \in DOMAIN t : \E j \in DOMAIN t[i].chapters :
          \E k \in DOMAIN t[i].chapters[j].files : p = <<<<i, j>>, k>>
  BY DEF FilePlaces
<1>d. DOMAIN Courses(t) = DOMAIN t /\ \A i \in DOMAIN t : DOMAIN Courses(t)[i].chapters = DOMAIN t[i].chapters
  BY CatalogOf
<1>e. ASSUME NEW i \in DOMAIN t, NEW j \in DOMAIN t[i].chapters
      PROVE  /\ Courses(t)[i].chapters[j].number = Number(t, <<i, j>>)
             /\ DOMAIN Courses(t)[i].chapters[j].lessons = DOMAIN t[i].chapters[j].files
             /\ \A k \in DOMAIN t[i].chapters[j].files :
                  Courses(t)[i].chapters[j].lessons[k].id = t[i].chapters[j].files[k].id
  BY ChapterOf DEF IsChapterOf
<1>c. /\ DOMAIN Courses(t) = DOMAIN t
      /\ \A i \in DOMAIN t : DOMAIN Courses(t)[i].chapters = DOMAIN t[i].chapters
      /\ \A i \in DOMAIN t : \A j \in DOMAIN t[i].chapters :
           DOMAIN Courses(t)[i].chapters[j].lessons = DOMAIN t[i].chapters[j].files
  BY <1>d, <1>e
<1>3. ChapterFiles(t) = ChapterPlaces(Courses(t))
  <2>1. \A p : p \in ChapterPlaces(Courses(t)) <=>
          \E i \in DOMAIN t : \E j \in DOMAIN t[i].chapters : p = <<i, j>>
    BY <1>c, PlacesAre
  <2>. QED  BY <2>1, <1>1
<1>4. FilePlaces(t) = LessonPlaces(Courses(t))
  <2>1. \A p : p \in LessonPlaces(Courses(t)) <=>
          \E i \in DOMAIN t : \E j \in DOMAIN t[i].chapters :
            \E k \in DOMAIN t[i].chapters[j].files : p = <<<<i, j>>, k>>
    BY <1>c, PlacesAre
  <2>. QED  BY <2>1, <1>2
<1>5. ASSUME NEW p \in ChapterFiles(t)
      PROVE  ChapterAt(Courses(t), p).number = Number(t, p)
  BY <1>1, <1>e DEF ChapterAt
<1>6. ASSUME NEW p \in FilePlaces(t)
      PROVE  LessonAt(Courses(t), p).id = FileAt(t, p).id /\ GoodId(FileAt(t, p).id)
  <2>1. PICK i \in DOMAIN t : \E j \in DOMAIN t[i].chapters :
          \E k \in DOMAIN t[i].chapters[j].files : p = <<<<i, j>>, k>>
    BY <1>2
  <2>2. PICK j \in DOMAIN t[i].chapters : \E k \in DOMAIN t[i].chapters[j].files : p = <<<<i, j>>, k>>
    BY <2>1
  <2>3. PICK k \in DOMAIN t[i].chapters[j].files : p = <<<<i, j>>, k>>
    BY <2>2
  <2>4. /\ LessonAt(Courses(t), p) = Courses(t)[i].chapters[j].lessons[k]
        /\ FileAt(t, p) = t[i].chapters[j].files[k]
    BY <2>3 DEF LessonAt, ChapterAt, FileAt
  <2>5. Courses(t)[i].chapters[j].lessons[k].id = t[i].chapters[j].files[k].id
    BY <1>e
  <2>6. GoodId(t[i].chapters[j].files[k].id)
    BY AllRead
  <2>. QED  BY <2>4, <2>5, <2>6
<1>. QED  BY <1>3, <1>4, <1>5, <1>6

LEMMA ChapterFilesFinite ==
    ASSUME NEW t, FilesShaped(t), EntriesFine(t)
    PROVE  /\ IsFiniteSet(ChapterFiles(t))
           /\ \A p \in ChapterFiles(t) : p \in Nat \X Nat
<1>. DEFINE f == [i \in DOMAIN t |-> {i} \X Read(t[i].chapters)]
            T == {f[i] : i \in DOMAIN t}
<1>1. ASSUME NEW s, Listing(s)
      PROVE  IsFiniteSet(DOMAIN s) /\ DOMAIN s \subseteq Nat
  BY <1>1, FS_Interval DEF Listing
<1>2. IsFiniteSet(DOMAIN t) /\ DOMAIN t \subseteq Nat
  BY <1>1 DEF FilesShaped
<1>3. ASSUME NEW i \in DOMAIN t
      PROVE  IsFiniteSet(f[i]) /\ f[i] \subseteq Nat \X Nat
  <2>1. IsFiniteSet(DOMAIN t[i].chapters) /\ DOMAIN t[i].chapters \subseteq Nat
    BY <1>1 DEF FilesShaped
  <2>2. f[i] = {i} \X DOMAIN t[i].chapters
    BY AllRead
  <2>3. IsFiniteSet({i} \X DOMAIN t[i].chapters)
    BY <2>1, FS_Product, FS_Singleton
  <2>. QED  BY <2>1, <2>2, <2>3, <1>2
<1>4. ChapterFiles(t) = UNION T
  BY AllRead DEF ChapterFiles
<1>5. f \in Surjection(DOMAIN t, T)
  BY DEF Surjection
<1>6. IsFiniteSet(T)
  <2>. HIDE DEF f, T
  <2>. QED  BY <1>2, <1>5, FS_Surjection
<1>. HIDE DEF f
<1>7. \A U \in T : IsFiniteSet(U) /\ U \subseteq Nat \X Nat
  BY <1>3
<1>. HIDE DEF T
<1>8. IsFiniteSet(UNION T)
  BY <1>6, <1>7, FS_UNION
<1>. QED  BY <1>4, <1>7, <1>8

\* Chapters are numbered through, in their order.
LEMMA NumberedThrough ==
    ASSUME NEW t, FilesShaped(t), EntriesFine(t)
    PROVE  /\ {Number(t, p) : p \in ChapterFiles(t)} = 1..Cardinality(ChapterFiles(t))
           /\ \A p, q \in ChapterFiles(t) : Earlier(p, q) => Number(t, p) < Number(t, q)
<1>. DEFINE S == ChapterFiles(t)
            N == Cardinality(S)
            R == {p \in S \X S : Earlier(p[1], p[2])}
            f == [p \in S |-> Cardinality(BeforeIn(S, R, p))]
<1>1. IsFiniteSet(S) /\ N \in Nat
  BY ChapterFilesFinite, FS_CardinalityType
<1>2. Orders(R, S)
  <2>1. \A p \in S : p \in Nat \X Nat
    BY ChapterFilesFinite
  <2>2. \A p, q \in S : <<p, q>> \in R <=> Earlier(p, q)
    OBVIOUS
  <2>. HIDE DEF R, S
  <2>. QED  BY <2>1, <2>2 DEF Orders, Earlier
<1>3. ASSUME NEW p \in S
      PROVE  Number(t, p) = 1 + f[p]
  <2>1. BeforeIn(S, R, p) = {q \in S : Earlier(q, p)}
    BY DEF BeforeIn
  <2>. QED  BY <2>1 DEF Number
<1>4. \A p, q \in S : Earlier(p, q) => <<p, q>> \in R
  OBVIOUS
<1>. HIDE DEF R, S, N
<1>5. /\ f \in Bijection(S, 0..N - 1)
      /\ \A p, q \in S : <<p, q>> \in R => f[p] < f[q]
  BY <1>1, <1>2, CountedThrough DEF N
<1>. HIDE DEF f
<1>6. f \in [S -> 0..N - 1] /\ \A n \in 0..N - 1 : \E p \in S : f[p] = n
  BY <1>5 DEF Bijection, Injection, Surjection
<1>7. {Number(t, p) : p \in S} = 1..N
  <2>1. \A p \in S : Number(t, p) \in 1..N
    BY <1>1, <1>3, <1>6
  <2>2. ASSUME NEW n \in 1..N
        PROVE  \E p \in S : Number(t, p) = n
    <3>1. n - 1 \in 0..N - 1
      BY <1>1
    <3>2. PICK p \in S : f[p] = n - 1
      BY <3>1, <1>6
    <3>. QED  BY <3>2, <1>3
  <2>. QED  BY <2>1, <2>2
<1>8. ASSUME NEW p \in S, NEW q \in S, Earlier(p, q)
      PROVE  Number(t, p) < Number(t, q)
  <2>1. f[p] < f[q]
    BY <1>4, <1>5, <1>8
  <2>2. f[p] \in 0..N - 1 /\ f[q] \in 0..N - 1
    BY <1>6
  <2>. QED  BY <2>1, <2>2, <1>1, <1>3
<1>. QED  BY <1>7, <1>8 DEF S, N

\* The ids of the lessons of a catalog, each at one place.
LEMMA IdsAt ==
    ASSUME NEW courses, IdsDiffer(courses)
    PROVE  /\ \A p, q \in DOMAIN courses : courses[p].id = courses[q].id => p = q
           /\ \A p, q \in ChapterPlaces(courses) :
                ChapterAt(courses, p).id = ChapterAt(courses, q).id => p = q
           /\ \A p, q \in LessonPlaces(courses) :
                LessonAt(courses, p).id = LessonAt(courses, q).id => p = q
BY DEF IdsDiffer, IdsOf, IsInjective

LEMMA LessonsOnce ==
    ASSUME NEW t, Loads(t), NEW id
    PROVE  Cardinality({p \in FilePlaces(t) : FileAt(t, p).id = id}) = IF id \in IdsIn(Courses(t)) THEN 1 ELSE 0
<1>. DEFINE courses == Courses(t)
            F == {p \in FilePlaces(t) : FileAt(t, p).id = id}
<1>1. /\ FilePlaces(t) = LessonPlaces(courses)
      /\ \A p \in FilePlaces(t) : FileAt(t, p).id = LessonAt(courses, p).id
  BY FilePlacesAre DEF Loads
<1>2. \A p, q \in LessonPlaces(courses) : LessonAt(courses, p).id = LessonAt(courses, q).id => p = q
  BY IdsAt DEF Loads
<1>. HIDE DEF courses
<1>3. CASE id \in IdsIn(courses)
  <2>1. PICK p \in LessonPlaces(courses) : LessonAt(courses, p).id = id
    BY <1>3 DEF IdsIn
  <2>2. F = {p}
    BY <1>1, <1>2, <2>1
  <2>. QED  BY <2>2, <1>3, FS_Singleton DEF courses
<1>4. CASE id \notin IdsIn(courses)
  <2>1. F = {}
    BY <1>1, <1>4 DEF IdsIn
  <2>. QED  BY <2>1, <1>4, FS_EmptySet DEF courses
<1>. QED  BY <1>3, <1>4

\* The checkpoints of a catalog can be passed.
LEMMA CheckpointsFine ==
    ASSUME NEW t, Loads(t), NEW c \in ChaptersOf(Courses(t)), c.test # None
    PROVE  PassMark(c.test) \in 1..Len(c.test.questions)
<1>1. PICK p \in ChapterPlaces(Courses(t)) : c = ChapterAt(Courses(t), p)
  BY DEF ChaptersOf
<1>2. PICK i \in DOMAIN Courses(t) : \E j \in DOMAIN Courses(t)[i].chapters : p = <<i, j>>
  BY PlacesAre
<1>3. PICK j \in DOMAIN Courses(t)[i].chapters : p = <<i, j>>
  BY <1>2
<1>. DEFINE e == t[i].chapters[j]
<1>4. i \in DOMAIN t /\ j \in DOMAIN t[i].chapters
  BY CatalogOf DEF Loads
<1>5. c = Courses(t)[i].chapters[j]
  BY <1>1, <1>3 DEF ChapterAt
<1>6. c.test = Parsed(e.test)
  <2>1. IsChapterOf(Courses(t)[i].chapters[j], e, Number(t, <<i, j>>))
    BY <1>4, ChapterOf DEF Loads
  <2>. HIDE DEF e
  <2>. QED  BY <2>1, <1>5 DEF IsChapterOf
<1>7. TestFine(e.test)
  BY <1>4, AllRead DEF Loads
<1>. HIDE DEF e
<1>8. c.test = e.test /\ e.test # None
  BY <1>6 DEF Parsed
<1>. QED  BY <1>7, <1>8 DEF TestFine

LEMMA SoundCatalog == FilesShaped(tree) => CatalogIsSound
<1>. SUFFICES ASSUME FilesShaped(tree), Loads(tree)
              PROVE  CatalogIsSound
  BY DEF CatalogIsSound
<1>. DEFINE courses == Courses(tree)
            places == ChapterPlaces(courses)
<1>1. EntriesFine(tree)
  BY DEF Loads
<1>2. ChapterFiles(tree) = places /\ \A p \in places : ChapterAt(courses, p).number = Number(tree, p)
  BY <1>1, FilePlacesAre
<1>3. /\ {Number(tree, p) : p \in places} = 1..Cardinality(places)
      /\ \A p, q \in places : Earlier(p, q) => Number(tree, p) < Number(tree, q)
  BY <1>1, <1>2, NumberedThrough
<1>4. \A p, q \in places :
        Earlier(p, q) => ChapterAt(courses, p).number < ChapterAt(courses, q).number
  BY <1>2, <1>3
<1>5. {c.number : c \in ChaptersOf(courses)} = 1..Cardinality(places)
  <2>1. {c.number : c \in ChaptersOf(courses)} = {Number(tree, p) : p \in places}
    <3>. HIDE DEF courses
    <3>. QED  BY <1>2 DEF ChaptersOf
  <2>. QED  BY <2>1, <1>3
<1>6. \A c \in ChaptersOf(courses) : c.test # None =>
        /\ PassMark(c.test) \in 1..Len(c.test.questions)
        /\ \A i \in DOMAIN c.test.questions : c.test.questions[i].reread \in IdsIn(courses) \cup {None}
  <2>1. \A c \in ChaptersOf(courses) : c.test # None => PassMark(c.test) \in 1..Len(c.test.questions)
    BY CheckpointsFine
  <2>2. RereadsExist(courses)
    BY DEF Loads
  <2>. HIDE DEF courses
  <2>. QED  BY <2>1, <2>2 DEF RereadsExist
<1>7. \A id \in LessonIds :
        Cardinality({p \in FilePlaces(tree) : FileAt(tree, p).id = id}) = IF id \in IdsIn(courses) THEN 1 ELSE 0
  BY LessonsOnce
<1>. QED  BY <1>4, <1>5, <1>6, <1>7 DEF CatalogIsSound

-----------------------------------------------------------------------------
(* What the site keeps *)

FilesKept == tree \in Trees \cup {FirstTree}

\* No two members have the same number or the same name.
AccountsKept ==
    /\ accounts \in [Members -> AccountRows \cup {None}]
    /\ numbered \in 1..MaxNumber
    /\ \A m \in Present : accounts[m].number <= numbered
    /\ \A m, n \in Present :
         \/ accounts[m].number = accounts[n].number
         \/ accounts[m].username = accounts[n].username /\ accounts[m].username # None
         => m = n

\* Only members who are there have completed lessons.
RowsKept ==
    /\ IsFiniteSet(completed)
    /\ completed \subseteq [member : Present, lesson : LessonIds, day : Int]
    /\ day \in Nat

NotesInv == FilesKept /\ AccountsKept /\ RowsKept

LEMMA NotesStart == NotesInit => NotesInv
<1>. SUFFICES ASSUME NotesInit
              PROVE  NotesInv
  OBVIOUS
<1>. USE BrainNotesAssumption
<1>. DEFINE m == CHOOSE x \in Members : TRUE
<1>1. PICK picture \in Versions \cup {None} :
        accounts = [x \in Members |-> IF x = m THEN [number |-> 1, username |-> None, picture |-> picture] ELSE None]
  BY DEF NotesInit
<1>. DEFINE row == [number |-> 1, username |-> None, picture |-> picture]
<1>2. row \in AccountRows /\ row.number = 1
  BY DEF AccountRows
<1>3. accounts = [x \in Members |-> IF x = m THEN row ELSE None]
  BY <1>1
<1>. HIDE DEF m, row
<1>4. Present \subseteq {m} /\ \A x \in Present : accounts[x] = row
  BY <1>3 DEF Present
<1>5. AccountsKept
  <2>1. accounts \in [Members -> AccountRows \cup {None}]
    BY <1>2, <1>3
  <2>2. numbered \in 1..MaxNumber /\ numbered = 1
    BY DEF NotesInit
  <2>. QED  BY <1>2, <1>4, <2>1, <2>2 DEF AccountsKept
<1>6. FilesKept /\ RowsKept
  BY FS_EmptySet DEF NotesInit, FilesKept, RowsKept
<1>. QED  BY <1>5, <1>6 DEF NotesInv

\* A row that changes nothing but what no two members share keeps the accounts apart.
LEMMA AccountChanged ==
    ASSUME AccountsKept, NEW m \in Present, NEW row \in AccountRows,
           accounts' = [accounts EXCEPT ![m] = row], numbered' = numbered,
           row.number = accounts[m].number,
           \/ row.username = accounts[m].username
           \/ \A n \in Present : accounts[n].username # row.username
    PROVE  AccountsKept' /\ Present' = Present
<1>. USE BrainNotesAssumption
<1>1. accounts' \in [Members -> AccountRows \cup {None}] /\ m \in Members
  BY DEF AccountsKept, Present
<1>2. Present' = Present
  BY <1>1 DEF Present, AccountsKept
<1>3. \A n \in Present : n # m => accounts'[n] = accounts[n]
  BY DEF Present, AccountsKept
<1>4. accounts'[m] = row
  BY <1>1 DEF AccountsKept
<1>5. \A n \in Present : accounts'[n].number <= numbered /\ accounts'[n].number = accounts[n].number
  BY <1>3, <1>4 DEF AccountsKept
<1>6. ASSUME NEW x \in Present, NEW y \in Present,
             accounts'[x].username = accounts'[y].username, accounts'[x].username # None
      PROVE  x = y
  BY <1>3, <1>4, <1>6 DEF AccountsKept
<1>7. ASSUME NEW x \in Present, NEW y \in Present, accounts'[x].number = accounts'[y].number
      PROVE  x = y
  BY <1>5, <1>7 DEF AccountsKept
<1>8. numbered' \in 1..MaxNumber
  BY DEF AccountsKept
<1>. QED  BY <1>1, <1>2, <1>5, <1>6, <1>7, <1>8 DEF AccountsKept

LEMMA JoinKeeps ==
    ASSUME NotesInv, NEW m \in Members, Join(m)
    PROVE  AccountsKept' /\ Present' = Present \cup {m} /\ m \notin Present
<1>. USE BrainNotesAssumption
<1>. DEFINE row == [number |-> numbered + 1, username |-> None, picture |-> None]
<1>1. numbered \in Nat /\ numbered + 1 \in 1..MaxNumber /\ numbered' = numbered + 1
  BY DEF NotesInv, AccountsKept, Join
<1>2. row \in AccountRows /\ row.number = numbered + 1 /\ row.username = None
  BY <1>1 DEF AccountRows
<1>3. accounts' = [accounts EXCEPT ![m] = row] /\ accounts[m] = None
  BY DEF Join
<1>. HIDE DEF row
<1>4. accounts' \in [Members -> AccountRows \cup {None}] /\ accounts'[m] = row
  BY <1>2, <1>3 DEF NotesInv, AccountsKept
<1>5. m \notin Present /\ Present' = Present \cup {m}
  BY <1>2, <1>3, <1>4 DEF Present, NotesInv, AccountsKept
<1>6. \A n \in Present : accounts'[n] = accounts[n] /\ accounts[n] \in AccountRows
  BY <1>3, <1>5 DEF Present, NotesInv, AccountsKept
<1>7. \A n \in Present : accounts[n].number \in Int /\ accounts[n].number <= numbered
  BY <1>6 DEF NotesInv, AccountsKept, AccountRows
<1>8. \A n \in Present' : accounts'[n].number <= numbered'
  BY <1>1, <1>2, <1>4, <1>5, <1>6, <1>7
<1>9. ASSUME NEW x \in Present', NEW y \in Present',
             \/ accounts'[x].number = accounts'[y].number
             \/ accounts'[x].username = accounts'[y].username /\ accounts'[x].username # None
      PROVE  x = y
  <2>1. CASE x = m \/ y = m
    BY <1>1, <1>2, <1>4, <1>5, <1>6, <1>7, <1>9, <2>1
  <2>2. CASE x # m /\ y # m
    BY <1>5, <1>6, <1>9, <2>2 DEF NotesInv, AccountsKept
  <2>. QED  BY <2>1, <2>2
<1>. QED  BY <1>1, <1>4, <1>5, <1>8, <1>9 DEF AccountsKept

LEMMA LeaveKeeps ==
    ASSUME NotesInv, NEW m \in Members, Leave(m)
    PROVE  AccountsKept' /\ RowsKept'
<1>. USE BrainNotesAssumption
<1>1. accounts' = [accounts EXCEPT ![m] = None] /\ numbered' = numbered
  BY DEF Leave
<1>2. Present' = Present \ {m} /\ \A n \in Present' : accounts'[n] = accounts[n]
  BY <1>1 DEF Present, NotesInv, AccountsKept
<1>3. accounts' \in [Members -> AccountRows \cup {None}]
  BY <1>1 DEF NotesInv, AccountsKept
<1>4. AccountsKept'
  BY <1>1, <1>2, <1>3 DEF NotesInv, AccountsKept
<1>5. completed' = {c \in completed : c.member # m} /\ day' = day
  BY DEF Leave
<1>6. IsFiniteSet(completed')
  <2>1. completed' \in SUBSET completed
    BY <1>5
  <2>. QED  BY <2>1, FS_Subset DEF NotesInv, RowsKept
<1>7. completed' \subseteq [member : Present', lesson : LessonIds, day : Int]
  BY <1>2, <1>5 DEF NotesInv, RowsKept
<1>. QED  BY <1>4, <1>5, <1>6, <1>7 DEF NotesInv, RowsKept

LEMMA ChangeKeeps ==
    ASSUME NotesInv, NEW m \in Members, ChooseUsername(m) \/ ChoosePicture(m)
    PROVE  AccountsKept' /\ Present' = Present
<1>. DEFINE row == accounts[m]
<1>1. m \in Present /\ row \in AccountRows
  BY DEF NotesInv, AccountsKept, Present, ChooseUsername, ChoosePicture
<1>2. CASE ChooseUsername(m)
  <2>1. PICK name \in Usernames : /\ \A n \in Present : accounts[n].username # name
                                  /\ accounts' = [accounts EXCEPT ![m].username = name]
    BY <1>2 DEF ChooseUsername
  <2>. DEFINE new == [row EXCEPT !.username = name]
  <2>2. new \in AccountRows /\ new.number = accounts[m].number /\ new.username = name
    BY <1>1 DEF AccountRows
  <2>3. accounts' = [accounts EXCEPT ![m] = new] /\ numbered' = numbered
    BY <1>2, <2>1 DEF ChooseUsername
  <2>. HIDE DEF new, row
  <2>. QED  BY <1>1, <2>1, <2>2, <2>3, AccountChanged DEF NotesInv
<1>3. CASE ChoosePicture(m)
  <2>1. PICK v \in Versions \cup {None} : accounts' = [accounts EXCEPT ![m].picture = v]
    BY <1>3 DEF ChoosePicture
  <2>. DEFINE new == [row EXCEPT !.picture = v]
  <2>2. new \in AccountRows /\ new.number = accounts[m].number /\ new.username = accounts[m].username
    BY <1>1 DEF AccountRows
  <2>3. accounts' = [accounts EXCEPT ![m] = new] /\ numbered' = numbered
    BY <1>3, <2>1 DEF ChoosePicture
  <2>. HIDE DEF new, row
  <2>. QED  BY <1>1, <2>2, <2>3, AccountChanged DEF NotesInv
<1>. QED  BY <1>2, <1>3

LEMMA CompleteKeeps ==
    ASSUME NotesInv, NEW m \in Members, Complete(m)
    PROVE  RowsKept'
<1>1. PICK id \in LessonIds : completed' = completed \cup {[member |-> m, lesson |-> id, day |-> day]}
  BY DEF Complete
<1>2. m \in Present /\ Present' = Present /\ day' = day
  BY DEF Complete, Present
<1>3. day \in Nat /\ IsFiniteSet(completed) /\ completed \subseteq [member : Present, lesson : LessonIds, day : Int]
  BY DEF NotesInv, RowsKept
<1>4. IsFiniteSet(completed')
  BY <1>1, <1>3, FS_AddElement
<1>. QED  BY <1>1, <1>2, <1>3, <1>4 DEF RowsKept

LEMMA NotesStep == NotesInv /\ [NotesNext]_notesVars => NotesInv'
<1>. SUFFICES ASSUME NotesInv, [NotesNext]_notesVars
              PROVE  NotesInv'
  OBVIOUS
<1>. USE BrainNotesAssumption
<1>1. ASSUME UNCHANGED <<accounts, numbered>>
      PROVE  AccountsKept' /\ Present' = Present
  BY <1>1 DEF NotesInv, AccountsKept, Present
<1>2. ASSUME Present \subseteq Present', UNCHANGED completed, day' \in Nat
      PROVE  RowsKept'
  <2>1. completed \subseteq [member : Present', lesson : LessonIds, day : Int]
    BY <1>2 DEF NotesInv, RowsKept
  <2>. QED  BY <1>2, <2>1 DEF NotesInv, RowsKept
<1>3. day \in Nat
  BY DEF NotesInv, RowsKept
<1>4. CASE SiteStep
  <2>1. ASSUME NEW m \in Members, Join(m)
        PROVE  NotesInv'
    BY <1>2, <1>3, <2>1, JoinKeeps DEF NotesInv, FilesKept, Join
  <2>2. ASSUME NEW m \in Members, Leave(m)
        PROVE  NotesInv'
    BY <2>2, LeaveKeeps DEF NotesInv, FilesKept, Leave
  <2>3. ASSUME NEW m \in Members, ChooseUsername(m) \/ ChoosePicture(m)
        PROVE  NotesInv'
    BY <1>2, <1>3, <2>3, ChangeKeeps DEF NotesInv, FilesKept, ChooseUsername, ChoosePicture
  <2>4. ASSUME NEW m \in Members, Complete(m)
        PROVE  NotesInv'
    BY <1>1, <2>4, CompleteKeeps DEF NotesInv, FilesKept, Complete
  <2>5. ASSUME NEW m \in Members, Earn(m)
        PROVE  NotesInv'
    BY <1>1, <1>2, <1>3, <2>5 DEF NotesInv, FilesKept, Earn
  <2>6. CASE NextDay
    BY <1>1, <1>2, <1>3, <2>6 DEF NotesInv, FilesKept, NextDay
  <2>. QED  BY <1>4, <2>1, <2>2, <2>3, <2>4, <2>5, <2>6 DEF SiteStep
<1>5. CASE Edit
  BY <1>1, <1>2, <1>3, <1>5 DEF Edit, site, NotesInv, FilesKept
<1>6. CASE Release
  BY <1>1, <1>2, <1>3, <1>6 DEF Release, NotesInv, FilesKept
<1>7. CASE UNCHANGED notesVars
  BY <1>1, <1>2, <1>3, <1>7 DEF notesVars, site, NotesInv, FilesKept
<1>. QED  BY <1>4, <1>5, <1>6, <1>7 DEF NotesNext

\* Whatever the owner edits and whoever comes and goes, two members share neither a number nor a
\* name, and lessons are completed by members who are there (read.ts:29-54).
THEOREM NotesKeep == NotesSpec => []NotesInv
BY NotesStart, NotesStep, PTL DEF NotesSpec

\* A catalog the files make is sound, whatever the owner has written: no id is two lessons, the
\* chapters are numbered through, and every checkpoint can be passed (content.ts:302-459).
THEOREM CatalogHolds == NotesSpec => []CatalogIsSound
<1>1. NotesInv => CatalogIsSound
  BY SoundCatalog, BrainNotesAssumption DEF NotesInv, FilesKept
<1>. QED  BY <1>1, NotesKeep, PTL

-----------------------------------------------------------------------------
(* Names of files *)

LEMMA NoDevice == ASSUME NEW x PROVE FileBase(x) \notin Devices
BY BrainNotesAssumption DEF FileBase, Range

\* Names without a hyphen at the end get files of their own.
LEMMA FilesDiffer ==
    ASSUME NEW X, X \cap Range(Hyphenated) = {}, NEW x \in X, NEW y \in X, FileBase(x) = FileBase(y)
    PROVE  x = y
<1>1. \A z \in Devices : Hyphenated[z] \in Range(Hyphenated)
  BY BrainNotesAssumption DEF Range
<1>2. \A z, w \in Devices : Hyphenated[z] = Hyphenated[w] => z = w
  BY BrainNotesAssumption DEF IsInjective
<1>. QED  BY <1>1, <1>2 DEF FileBase

GoodIds == LessonIds \cup ChapterIds \cup CourseIds

LEMMA IdFilesDiffer ==
    ASSUME NEW x, GoodId(x) \/ x \in LessonIds, NEW y, GoodId(y) \/ y \in LessonIds, FileBase(x) = FileBase(y)
    PROVE  x = y
<1>1. x \in GoodIds /\ y \in GoodIds
  BY DEF GoodId, Ids, GoodIds
<1>2. GoodIds \cap Range(Hyphenated) = {}
  BY BrainNotesAssumption DEF GoodIds
<1>. QED  BY <1>1, <1>2, FilesDiffer

LEMMA RankFilesDiffer ==
    ASSUME NEW x \in {Bronze, None}, NEW y \in {Bronze, None}, RankPath(x) = RankPath(y)
    PROVE  x = y
<1>. DEFINE a == IF x = None THEN NoRank ELSE x
            b == IF y = None THEN NoRank ELSE y
<1>1. FileBase(a) = FileBase(b)
  BY DEF RankPath
<1>2. a = b
  <2>. DEFINE X == {Bronze, NoRank}
  <2>1. X \cap Range(Hyphenated) = {} /\ a \in X /\ b \in X
    BY BrainNotesAssumption
  <2>. HIDE DEF X, a, b
  <2>. QED  BY <1>1, <2>1, FilesDiffer
<1>. QED  BY <1>2, BrainNotesAssumption

LEMMA LabelsDiffer ==
    ASSUME AccountsKept, NEW m \in Present, NEW n \in Present, MemberPath(m) = MemberPath(n)
    PROVE  m = n
<1>. USE BrainNotesAssumption
<1>. DEFINE Labels == Range(MemberName) \cup Usernames
<1>1. \A x \in Present : accounts[x] \in AccountRows /\ x \in Members
  BY DEF AccountsKept, Present
<1>2. \A x \in Present : /\ accounts[x].number \in 1..MaxNumber
                         /\ accounts[x].username \in Usernames \cup {None}
  BY <1>1 DEF AccountRows
<1>3. \A x \in Present : MemberName[accounts[x].number] \in Range(MemberName)
  BY <1>2 DEF Range
<1>4. \A x \in Present : Label(x) \in Labels
  BY <1>2, <1>3 DEF Label
<1>5. Labels \cap Range(Hyphenated) = {}
  OBVIOUS
<1>6. FileBase(Label(m)) = FileBase(Label(n))
  BY DEF MemberPath
<1>7. Label(m) = Label(n)
  <2>. HIDE DEF Labels
  <2>. QED  BY <1>4, <1>5, <1>6, FilesDiffer
<1>8. CASE accounts[m].username = None /\ accounts[n].username = None
  BY <1>2, <1>7, <1>8 DEF Label, IsInjective, AccountsKept
<1>9. CASE accounts[m].username # None /\ accounts[n].username # None
  BY <1>7, <1>9 DEF Label, AccountsKept
<1>10. CASE (accounts[m].username = None) # (accounts[n].username = None)
  BY <1>2, <1>3, <1>7, <1>10 DEF Label
<1>. QED  BY <1>8, <1>9, <1>10

LEMMA NoteFields ==
    ASSUME NEW about, NEW path, NEW to, NEW embeds, NEW states
    PROVE  /\ Note(about, path, to, embeds, states).path = path
           /\ Note(about, path, to, embeds, states).links = to
           /\ Note(about, path, to, embeds, states).embeds = embeds
           /\ Note(about, path, to, embeds, states).states = states
BY DEF Note

LEMMA PathsAre ==
    /\ \A m : MemberPath(m)[1] = "Members"
    /\ \A id : LessonPath(id)[1] = "Lessons"
    /\ \A id : ChapterPath(id)[1] = "Chapters"
    /\ \A id : CoursePath(id)[1] = "Courses"
    /\ \A key : RankPath(key)[1] = "Ranks"
    /\ Hub[1] = "" /\ Leaderboard[1] = "" /\ Hub # Leaderboard
BY DEF MemberPath, LessonPath, ChapterPath, CoursePath, RankPath, Hub, Leaderboard

-----------------------------------------------------------------------------
(* Pictures *)

LEMMA Smallest ==
    ASSUME NEW S \in SUBSET Nat, NEW n \in S
    PROVE  \E x \in S : \A y \in S : x <= y
<1>1. PICK x \in S : \A y \in S : ~(<<y, x>> \in OpToRel(<, Nat))
  BY NatLessThanWellFounded, WFMin
<1>2. \A y \in S : ~(y < x)
  BY <1>1 DEF OpToRel
<1>. QED  BY <1>2

\* Every picture in use is read by a member who has it.
LEMMA PicturesRead ==
    ASSUME AccountsKept, NEW v \in DOMAIN Pictures
    PROVE  accounts[Pictures[v]].picture = v
<1>. DEFINE Has(m) == /\ accounts[m].picture = v
                      /\ \A n \in Present : accounts[n].picture = v => accounts[m].number <= accounts[n].number
            S == {accounts[m].number : m \in {n \in Present : accounts[n].picture = v}}
<1>1. PICK m \in Present : accounts[m].picture = v
  BY DEF Pictures
<1>2. S \in SUBSET Nat /\ accounts[m].number \in S
  BY <1>1 DEF AccountsKept, Present, AccountRows
<1>3. PICK x \in S : \A y \in S : x <= y
  <2>. HIDE DEF S
  <2>. QED  BY <1>2, Smallest
<1>4. \E n \in Present : Has(n)
  BY <1>3
<1>5. Pictures[v] = CHOOSE n \in Present : Has(n)
  BY DEF Pictures
<1>6. Has(CHOOSE n \in Present : Has(n))
  <2>. HIDE DEF Has
  <2>. QED  BY <1>4
<1>. QED  BY <1>5, <1>6

-----------------------------------------------------------------------------
(* The members' brain *)

PlainNote(m) == Note(MemberName[accounts[m].number], MemberPath(m), {}, Card(m), 0)

LEMMA CardsShown == UNION {Card(m) : m \in Present} = DOMAIN Pictures
BY DEF Card, Pictures

\* What NotesAgree asks of one brain, in its parts.
LinksWritten(notes) == \A a \in notes : a.links \subseteq {b.path : b \in notes}
PicturesShown(notes) == UNION {a.embeds : a \in notes} = DOMAIN Pictures
CountsShown(notes) ==
    \A a \in notes : a.path[1] \in {"Lessons", "Ranks"} =>
        a.states = Cardinality({b \in notes : b.path[1] = "Members" /\ a.path \in b.links})

BrainAgrees(notes) ==
    OneFileEach(notes) /\ LinksWritten(notes) /\ PicturesShown(notes) /\ CountsShown(notes)

LEMMA PlainAgrees == AccountsKept => BrainAgrees(MemberNotes)
<1>. SUFFICES ASSUME AccountsKept
              PROVE  BrainAgrees(MemberNotes)
  OBVIOUS
<1>1. \A a : a \in MemberNotes <=> \E m \in Present : a = PlainNote(m)
  BY DEF MemberNotes, PlainNote
<1>2. \A m : /\ PlainNote(m).path = MemberPath(m) /\ PlainNote(m).links = {}
             /\ PlainNote(m).embeds = Card(m)
  BY NoteFields DEF PlainNote
<1>3. OneFileEach(MemberNotes)
  <2>1. \A a, b \in MemberNotes : a.path = b.path => a = b
    BY <1>1, <1>2, LabelsDiffer
  <2>2. \A a \in MemberNotes : a.path[2] \notin Devices
    BY <1>1, <1>2, NoDevice DEF MemberPath
  <2>. QED  BY <2>1, <2>2 DEF OneFileEach
<1>4. LinksWritten(MemberNotes)
  BY <1>1, <1>2 DEF LinksWritten
<1>5. PicturesShown(MemberNotes)
  <2>1. UNION {a.embeds : a \in MemberNotes} = UNION {Card(m) : m \in Present}
    BY <1>1, <1>2
  <2>. QED  BY <2>1, CardsShown DEF PicturesShown
<1>6. CountsShown(MemberNotes)
  BY <1>1, <1>2, PathsAre DEF CountsShown
<1>. QED  BY <1>3, <1>4, <1>5, <1>6 DEF BrainAgrees

-----------------------------------------------------------------------------
(* The Academy's brain *)

OwnLinks(m) == {RankPath(RankOf(m))} \cup {LessonPath(c.lesson) : c \in DoneBy(m)}
OwnNote(m) ==
    Note(MemberName[accounts[m].number], MemberPath(m), OwnLinks(m), Card(m), Cardinality(DoneBy(m)))
CourseLinks(k) == {Hub} \cup {ChapterPath(id) : id \in Range(IdsOf(k.chapters))}
CourseNote(k) == Note(k.id, CoursePath(k.id), CourseLinks(k), {}, Len(k.chapters))
ChapterNoteLinks(k, c) == {CoursePath(k.id)} \cup {LessonPath(id) : id \in Range(IdsOf(c.lessons))}
ChapterNote(k, c) == Note(c.id, ChapterPath(c.id), ChapterNoteLinks(k, c), {}, Len(c.lessons))
LessonNote(c, id) == Note(id, LessonPath(id), {ChapterPath(c.id)}, {}, CompletedBy(id))
RemovedNote(id) == Note(id, LessonPath(id), {}, {}, CompletedBy(id))
RankNote(key) == Note(key, RankPath(key), {Hub}, {}, Holders(key))
RemovedIds(courses) == {c.lesson : c \in completed} \ IdsIn(courses)

LEMMA OwnSays ==
    \A m : OwnNote(m).path = MemberPath(m) /\ OwnNote(m).links = OwnLinks(m) /\ OwnNote(m).embeds = Card(m)
BY NoteFields DEF OwnNote

LEMMA CourseSays ==
    \A k : /\ CourseNote(k).path = CoursePath(k.id) /\ CourseNote(k).links = CourseLinks(k)
           /\ CourseNote(k).embeds = {}
BY NoteFields DEF CourseNote

LEMMA ChapterSays ==
    \A k, c : /\ ChapterNote(k, c).path = ChapterPath(c.id) /\ ChapterNote(k, c).links = ChapterNoteLinks(k, c)
              /\ ChapterNote(k, c).embeds = {}
BY NoteFields DEF ChapterNote

LEMMA LessonSays ==
    \A c, id : /\ LessonNote(c, id).path = LessonPath(id) /\ LessonNote(c, id).links = {ChapterPath(c.id)}
               /\ LessonNote(c, id).embeds = {} /\ LessonNote(c, id).states = CompletedBy(id)
BY NoteFields DEF LessonNote

LEMMA RemovedSays ==
    \A id : /\ RemovedNote(id).path = LessonPath(id) /\ RemovedNote(id).links = {}
            /\ RemovedNote(id).embeds = {} /\ RemovedNote(id).states = CompletedBy(id)
BY NoteFields DEF RemovedNote

LEMMA RankSays ==
    \A key : /\ RankNote(key).path = RankPath(key) /\ RankNote(key).links = {Hub}
             /\ RankNote(key).embeds = {} /\ RankNote(key).states = Holders(key)
BY NoteFields DEF RankNote

LEMMA PagesSay ==
    /\ LeaderboardNote.path = Leaderboard /\ LeaderboardNote.embeds = {}
    /\ \A courses : HubNote(courses).path = Hub /\ HubNote(courses).embeds = {}
BY NoteFields DEF LeaderboardNote, HubNote

IsCourse(courses, a) == \E i \in DOMAIN courses : a = CourseNote(courses[i])
IsChapter(courses, a) ==
    \E i \in DOMAIN courses : \E j \in DOMAIN courses[i].chapters :
        a = ChapterNote(courses[i], courses[i].chapters[j])
IsLesson(courses, a) ==
    \E p \in LessonPlaces(courses) : a = LessonNote(ChapterAt(courses, p[1]), LessonAt(courses, p).id)
IsRemoved(courses, a) == \E id \in RemovedIds(courses) : a = RemovedNote(id)
IsRank(a) == \E key \in RankKeys \cup {None} : a = RankNote(key)
IsOwn(a) == \E m \in Present : a = OwnNote(m)

\* The notes of the Academy's brain, by what they are about.
LEMMA KindsAre ==
    ASSUME NEW courses
    PROVE  \A a : a \in AcademyNotes(courses) <=>
              \/ IsOwn(a) \/ IsCourse(courses, a) \/ IsChapter(courses, a) \/ IsLesson(courses, a)
              \/ IsRemoved(courses, a) \/ IsRank(a) \/ a = LeaderboardNote \/ a = HubNote(courses)
<1>1. \A a : a \in AcademyMemberNotes <=> IsOwn(a)
  BY DEF AcademyMemberNotes, IsOwn, OwnNote, OwnLinks
<1>2. \A a : a \in CourseNotes(courses) <=> IsCourse(courses, a)
  BY DEF CourseNotes, IsCourse, CourseNote, CourseLinks, Range
<1>3. \A a : a \in ChapterNotes(courses) <=> IsChapter(courses, a)
  <2>1. \A a : a \in ChapterNotes(courses) <=> \E k \in Range(courses) : \E c \in Range(k.chapters) : a = ChapterNote(k, c)
    <3>1. ChapterNotes(courses) = UNION {{ChapterNote(k, c) : c \in Range(k.chapters)} : k \in Range(courses)}
      BY DEF ChapterNotes, ChapterNote, ChapterNoteLinks
    <3>. QED  BY <3>1
  <2>. QED  BY <2>1 DEF IsChapter, Range
<1>4. \A a : a \in LessonNotes(courses) <=> IsLesson(courses, a)
  <2>1. \A a : a \in LessonNotes(courses) <=>
          \E c \in ChaptersOf(courses) : \E id \in Range(IdsOf(c.lessons)) : a = LessonNote(c, id)
    <3>1. LessonNotes(courses) = UNION {{LessonNote(c, id) : id \in Range(IdsOf(c.lessons))} : c \in ChaptersOf(courses)}
      BY DEF LessonNotes, LessonNote
    <3>. QED  BY <3>1
  <2>2. \A c, id : id \in Range(IdsOf(c.lessons)) <=> \E k \in DOMAIN c.lessons : id = c.lessons[k].id
    BY DEF Range, IdsOf
  <2>3. \A a : a \in LessonNotes(courses) <=>
          \E q \in ChapterPlaces(courses) : \E k \in DOMAIN ChapterAt(courses, q).lessons :
            a = LessonNote(ChapterAt(courses, q), ChapterAt(courses, q).lessons[k].id)
    <3>1. ASSUME NEW a, NEW q \in ChapterPlaces(courses), NEW k \in DOMAIN ChapterAt(courses, q).lessons,
                 a = LessonNote(ChapterAt(courses, q), ChapterAt(courses, q).lessons[k].id)
          PROVE  a \in LessonNotes(courses)
      <4>1. ChapterAt(courses, q) \in ChaptersOf(courses)
        BY DEF ChaptersOf
      <4>2. ChapterAt(courses, q).lessons[k].id \in Range(IdsOf(ChapterAt(courses, q).lessons))
        BY <2>2
      <4>. QED  BY <2>1, <3>1, <4>1, <4>2
    <3>2. ASSUME NEW a \in LessonNotes(courses)
          PROVE  \E q \in ChapterPlaces(courses) : \E k \in DOMAIN ChapterAt(courses, q).lessons :
                   a = LessonNote(ChapterAt(courses, q), ChapterAt(courses, q).lessons[k].id)
      <4>1. PICK c \in ChaptersOf(courses) : \E id \in Range(IdsOf(c.lessons)) : a = LessonNote(c, id)
        BY <2>1
      <4>2. PICK q \in ChapterPlaces(courses) : c = ChapterAt(courses, q)
        BY DEF ChaptersOf
      <4>. QED  BY <2>2, <4>1, <4>2
    <3>. QED  BY <3>1, <3>2
  <2>4. \A p : p \in LessonPlaces(courses) <=>
          \E q \in ChapterPlaces(courses) : \E k \in DOMAIN ChapterAt(courses, q).lessons : p = <<q, k>>
    BY DEF LessonPlaces
  <2>5. \A q, k : LessonAt(courses, <<q, k>>) = ChapterAt(courses, q).lessons[k] /\ <<q, k>>[1] = q
    BY DEF LessonAt
  <2>6. \A a : IsLesson(courses, a) <=>
          \E q \in ChapterPlaces(courses) : \E k \in DOMAIN ChapterAt(courses, q).lessons :
            a = LessonNote(ChapterAt(courses, q), ChapterAt(courses, q).lessons[k].id)
    <3>1. ASSUME NEW a, NEW q \in ChapterPlaces(courses), NEW k \in DOMAIN ChapterAt(courses, q).lessons,
                 a = LessonNote(ChapterAt(courses, q), ChapterAt(courses, q).lessons[k].id)
          PROVE  IsLesson(courses, a)
      <4>. DEFINE p == <<q, k>>
      <4>1. p \in LessonPlaces(courses)
        BY <2>4
      <4>2. p[1] = q /\ LessonAt(courses, p) = ChapterAt(courses, q).lessons[k]
        BY <2>5
      <4>. HIDE DEF p
      <4>. QED  BY <3>1, <4>1, <4>2 DEF IsLesson
    <3>2. ASSUME NEW a, IsLesson(courses, a)
          PROVE  \E q \in ChapterPlaces(courses) : \E k \in DOMAIN ChapterAt(courses, q).lessons :
                   a = LessonNote(ChapterAt(courses, q), ChapterAt(courses, q).lessons[k].id)
      <4>1. PICK p \in LessonPlaces(courses) : a = LessonNote(ChapterAt(courses, p[1]), LessonAt(courses, p).id)
        BY <3>2 DEF IsLesson
      <4>2. PICK q \in ChapterPlaces(courses) : \E k \in DOMAIN ChapterAt(courses, q).lessons : p = <<q, k>>
        BY <2>4
      <4>3. PICK k \in DOMAIN ChapterAt(courses, q).lessons : p = <<q, k>>
        BY <4>2
      <4>4. p[1] = q /\ LessonAt(courses, p) = ChapterAt(courses, q).lessons[k]
        BY <2>5, <4>3
      <4>. QED  BY <4>1, <4>4
    <3>. QED  BY <3>1, <3>2
  <2>. QED  BY <2>3, <2>6
<1>5. \A a : a \in RemovedNotes(courses) <=> IsRemoved(courses, a)
  BY DEF RemovedNotes, IsRemoved, RemovedNote, RemovedIds
<1>6. \A a : a \in RankNotes <=> IsRank(a)
  BY DEF RankNotes, IsRank, RankNote
<1>. QED  BY <1>1, <1>2, <1>3, <1>4, <1>5, <1>6 DEF AcademyNotes

\* A catalog of good ids, each used once.
Catalogued(courses) ==
    /\ \A i \in DOMAIN courses : GoodId(courses[i].id)
    /\ \A p \in ChapterPlaces(courses) : GoodId(ChapterAt(courses, p).id)
    /\ \A p \in LessonPlaces(courses) : GoodId(LessonAt(courses, p).id)
    /\ IdsDiffer(courses)

LEMMA LoadedIsCatalogued ==
    ASSUME NEW t, Loads(t)
    PROVE  Catalogued(Courses(t))
<1>0. EntriesFine(t)
  BY DEF Loads
<1>1. \A i \in DOMAIN Courses(t) : GoodId(Courses(t)[i].id)
  BY <1>0, CatalogOf, AllRead
<1>2. ASSUME NEW p \in ChapterPlaces(Courses(t))
      PROVE  GoodId(ChapterAt(Courses(t), p).id)
  <2>1. PICK i \in DOMAIN Courses(t) : \E j \in DOMAIN Courses(t)[i].chapters : p = <<i, j>>
    BY PlacesAre
  <2>2. PICK j \in DOMAIN Courses(t)[i].chapters : p = <<i, j>>
    BY <2>1
  <2>3. i \in DOMAIN t /\ j \in DOMAIN t[i].chapters
    BY <1>0, CatalogOf
  <2>4. IsChapterOf(Courses(t)[i].chapters[j], t[i].chapters[j], Number(t, <<i, j>>))
    BY <1>0, <2>3, ChapterOf
  <2>5. GoodId(t[i].chapters[j].id)
    BY <1>0, <2>3, AllRead
  <2>. QED  BY <2>2, <2>4, <2>5 DEF ChapterAt, IsChapterOf
<1>3. \A p \in LessonPlaces(Courses(t)) : GoodId(LessonAt(Courses(t), p).id)
  BY <1>0, FilePlacesAre
<1>. QED  BY <1>1, <1>2, <1>3 DEF Catalogued, Loads

\* Where a note of each kind is written, and that only members' notes hold pictures.
LEMMA PathsOf ==
    ASSUME NEW courses, NEW a
    PROVE  /\ IsOwn(a) => \E m \in Present : a.path = MemberPath(m)
           /\ IsCourse(courses, a) => a.embeds = {} /\ \E id : a.path = CoursePath(id)
           /\ IsChapter(courses, a) => a.embeds = {} /\ \E id : a.path = ChapterPath(id)
           /\ IsLesson(courses, a) => a.embeds = {} /\ \E id : a.path = LessonPath(id)
           /\ IsRemoved(courses, a) => a.embeds = {} /\ \E id : a.path = LessonPath(id)
           /\ IsRank(a) => a.embeds = {} /\ \E key : a.path = RankPath(key)
           /\ a = LeaderboardNote => a.embeds = {} /\ a.path = Leaderboard
           /\ a = HubNote(courses) => a.embeds = {} /\ a.path = Hub
<1>1. IsOwn(a) => \E m \in Present : a.path = MemberPath(m)
  BY OwnSays DEF IsOwn
<1>2. IsCourse(courses, a) => a.embeds = {} /\ \E id : a.path = CoursePath(id)
  BY CourseSays DEF IsCourse
<1>3. ASSUME IsChapter(courses, a)
      PROVE  a.embeds = {} /\ \E id : a.path = ChapterPath(id)
  <2>1. PICK i \in DOMAIN courses : \E j \in DOMAIN courses[i].chapters :
          a = ChapterNote(courses[i], courses[i].chapters[j])
    BY <1>3 DEF IsChapter
  <2>2. PICK j \in DOMAIN courses[i].chapters : a = ChapterNote(courses[i], courses[i].chapters[j])
    BY <2>1
  <2>. QED  BY <2>2, ChapterSays
<1>4. ASSUME IsLesson(courses, a)
      PROVE  a.embeds = {} /\ \E id : a.path = LessonPath(id)
  <2>1. PICK p \in LessonPlaces(courses) : a = LessonNote(ChapterAt(courses, p[1]), LessonAt(courses, p).id)
    BY <1>4 DEF IsLesson
  <2>. QED  BY <2>1, LessonSays
<1>5. IsRemoved(courses, a) => a.embeds = {} /\ \E id : a.path = LessonPath(id)
  BY RemovedSays DEF IsRemoved
<1>6. IsRank(a) => a.embeds = {} /\ \E key : a.path = RankPath(key)
  BY RankSays DEF IsRank
<1>7. /\ a = LeaderboardNote => a.embeds = {} /\ a.path = Leaderboard
      /\ a = HubNote(courses) => a.embeds = {} /\ a.path = Hub
  BY PagesSay
<1>. QED  BY <1>1, <1>2, <1>3, <1>4, <1>5, <1>6, <1>7

LEMMA TagsAre ==
    ASSUME NEW courses, NEW a
    PROVE  /\ IsOwn(a) => a.path[1] = "Members"
           /\ IsCourse(courses, a) => a.path[1] = "Courses"
           /\ IsChapter(courses, a) => a.path[1] = "Chapters"
           /\ IsLesson(courses, a) => a.path[1] = "Lessons"
           /\ IsRemoved(courses, a) => a.path[1] = "Lessons"
           /\ IsRank(a) => a.path[1] = "Ranks"
           /\ a = LeaderboardNote => a.path[1] = ""
           /\ a = HubNote(courses) => a.path[1] = ""
<1>. DEFINE tag == a.path[1]
<1>1. ASSUME IsOwn(a)
      PROVE  tag = "Members"
  <2>1. PICK m \in Present : a.path = MemberPath(m)
    BY <1>1, PathsOf
  <2>. QED  BY <2>1, PathsAre
<1>2. ASSUME IsCourse(courses, a)
      PROVE  tag = "Courses"
  <2>1. PICK id : a.path = CoursePath(id)
    BY <1>2, PathsOf
  <2>. QED  BY <2>1, PathsAre
<1>3. ASSUME IsChapter(courses, a)
      PROVE  tag = "Chapters"
  <2>1. PICK id : a.path = ChapterPath(id)
    BY <1>3, PathsOf
  <2>. QED  BY <2>1, PathsAre
<1>4. ASSUME IsLesson(courses, a) \/ IsRemoved(courses, a)
      PROVE  tag = "Lessons"
  <2>1. PICK id : a.path = LessonPath(id)
    BY <1>4, PathsOf
  <2>. QED  BY <2>1, PathsAre
<1>5. ASSUME IsRank(a)
      PROVE  tag = "Ranks"
  <2>1. PICK key : a.path = RankPath(key)
    BY <1>5, PathsOf
  <2>. QED  BY <2>1, PathsAre
<1>6. a = LeaderboardNote \/ a = HubNote(courses) => tag = ""
  BY PagesSay, PathsAre
<1>. QED  BY <1>1, <1>2, <1>3, <1>4, <1>5, <1>6

LEMMA ByTag ==
    ASSUME NEW courses, NEW a \in AcademyNotes(courses)
    PROVE  \/ a.path[1] = "Members" /\ IsOwn(a)
           \/ a.path[1] = "Courses" /\ IsCourse(courses, a)
           \/ a.path[1] = "Chapters" /\ IsChapter(courses, a)
           \/ a.path[1] = "Lessons" /\ (IsLesson(courses, a) \/ IsRemoved(courses, a))
           \/ a.path[1] = "Ranks" /\ IsRank(a)
           \/ a.path[1] = "" /\ (a = LeaderboardNote \/ a = HubNote(courses))
<1>1. \/ IsOwn(a) \/ IsCourse(courses, a) \/ IsChapter(courses, a) \/ IsLesson(courses, a)
      \/ IsRemoved(courses, a) \/ IsRank(a) \/ a = LeaderboardNote \/ a = HubNote(courses)
  BY KindsAre
<1>. QED  BY <1>1, TagsAre

-----------------------------------------------------------------------------
(* One file each *)

LEMMA CourseFiles ==
    ASSUME NEW courses, Catalogued(courses), NEW a, NEW b,
           IsCourse(courses, a), IsCourse(courses, b), a.path = b.path
    PROVE  a = b
<1>1. PICK i \in DOMAIN courses : a = CourseNote(courses[i])
  BY DEF IsCourse
<1>2. PICK j \in DOMAIN courses : b = CourseNote(courses[j])
  BY DEF IsCourse
<1>3. FileBase(courses[i].id) = FileBase(courses[j].id)
  BY <1>1, <1>2, CourseSays DEF CoursePath
<1>4. courses[i].id = courses[j].id
  BY <1>3, IdFilesDiffer DEF Catalogued
<1>5. i = j
  BY <1>4, IdsAt DEF Catalogued
<1>. QED  BY <1>1, <1>2, <1>5

LEMMA ChapterFilesDiffer ==
    ASSUME NEW courses, Catalogued(courses), NEW a, NEW b,
           IsChapter(courses, a), IsChapter(courses, b), a.path = b.path
    PROVE  a = b
<1>1. PICK i \in DOMAIN courses : \E j \in DOMAIN courses[i].chapters :
        a = ChapterNote(courses[i], courses[i].chapters[j])
  BY DEF IsChapter
<1>2. PICK j \in DOMAIN courses[i].chapters : a = ChapterNote(courses[i], courses[i].chapters[j])
  BY <1>1
<1>3. PICK k \in DOMAIN courses : \E l \in DOMAIN courses[k].chapters :
        b = ChapterNote(courses[k], courses[k].chapters[l])
  BY DEF IsChapter
<1>4. PICK l \in DOMAIN courses[k].chapters : b = ChapterNote(courses[k], courses[k].chapters[l])
  BY <1>3
<1>5. <<i, j>> \in ChapterPlaces(courses) /\ <<k, l>> \in ChapterPlaces(courses)
  BY PlacesAre
<1>6. /\ ChapterAt(courses, <<i, j>>) = courses[i].chapters[j]
      /\ ChapterAt(courses, <<k, l>>) = courses[k].chapters[l]
  BY DEF ChapterAt
<1>7. FileBase(courses[i].chapters[j].id) = FileBase(courses[k].chapters[l].id)
  BY <1>2, <1>4, ChapterSays DEF ChapterPath
<1>8. GoodId(courses[i].chapters[j].id) /\ GoodId(courses[k].chapters[l].id)
  BY <1>5, <1>6 DEF Catalogued
<1>9. courses[i].chapters[j].id = courses[k].chapters[l].id
  BY <1>7, <1>8, IdFilesDiffer
<1>10. <<i, j>> = <<k, l>>
  BY <1>5, <1>6, <1>9, IdsAt DEF Catalogued
<1>. QED  BY <1>2, <1>4, <1>10

LEMMA LessonFilesDiffer ==
    ASSUME RowsKept, NEW courses, Catalogued(courses), NEW a, NEW b,
           IsLesson(courses, a) \/ IsRemoved(courses, a),
           IsLesson(courses, b) \/ IsRemoved(courses, b), a.path = b.path
    PROVE  a = b
<1>1. ASSUME NEW x, IsLesson(courses, x)
      PROVE  \E p \in LessonPlaces(courses) :
               LET id == LessonAt(courses, p).id IN
               /\ x = LessonNote(ChapterAt(courses, p[1]), id) /\ x.path = LessonPath(id) /\ GoodId(id)
  BY <1>1, LessonSays DEF IsLesson, Catalogued
<1>2. ASSUME NEW x, IsRemoved(courses, x)
      PROVE  \E id \in RemovedIds(courses) :
               x = RemovedNote(id) /\ x.path = LessonPath(id) /\ id \in LessonIds
  BY <1>2, RemovedSays DEF IsRemoved, RemovedIds, RowsKept
<1>3. ASSUME NEW x, GoodId(x) \/ x \in LessonIds, NEW y, GoodId(y) \/ y \in LessonIds, LessonPath(x) = LessonPath(y)
      PROVE  x = y
  BY <1>3, IdFilesDiffer DEF LessonPath
<1>4. \A p \in LessonPlaces(courses) : LessonAt(courses, p).id \notin RemovedIds(courses)
  BY DEF RemovedIds, IdsIn
<1>5. CASE IsLesson(courses, a) /\ IsLesson(courses, b)
  <2>1. PICK p \in LessonPlaces(courses) :
          LET id == LessonAt(courses, p).id IN
          /\ a = LessonNote(ChapterAt(courses, p[1]), id) /\ a.path = LessonPath(id) /\ GoodId(id)
    BY <1>1, <1>5
  <2>2. PICK q \in LessonPlaces(courses) :
          LET id == LessonAt(courses, q).id IN
          /\ b = LessonNote(ChapterAt(courses, q[1]), id) /\ b.path = LessonPath(id) /\ GoodId(id)
    BY <1>1, <1>5
  <2>3. LessonAt(courses, p).id = LessonAt(courses, q).id
    BY <1>3, <2>1, <2>2
  <2>4. p = q
    BY <2>3, IdsAt DEF Catalogued
  <2>. QED  BY <2>1, <2>2, <2>4
<1>6. CASE IsRemoved(courses, a) /\ IsRemoved(courses, b)
  BY <1>2, <1>3, <1>6
<1>7. ASSUME NEW x, NEW y, IsLesson(courses, x), IsRemoved(courses, y), x.path = y.path
      PROVE  FALSE
  BY <1>1, <1>2, <1>3, <1>4, <1>7
<1>. QED  BY <1>5, <1>6, <1>7

LEMMA RanksAre == RankKeys \cup {None} = {Bronze, None} /\ \A m : RankOf(m) \in {Bronze, None}
BY DEF RankKeys, RankOf

LEMMA AcademyFiles ==
    ASSUME AccountsKept, RowsKept, NEW courses, Catalogued(courses)
    PROVE  OneFileEach(AcademyNotes(courses))
<1>1. ASSUME NEW a \in AcademyNotes(courses), NEW b \in AcademyNotes(courses), a.path = b.path
      PROVE  a = b
  <2>1. CASE IsOwn(a) /\ IsOwn(b)
    BY <1>1, <2>1, OwnSays, LabelsDiffer DEF IsOwn
  <2>2. CASE IsCourse(courses, a) /\ IsCourse(courses, b)
    BY <1>1, <2>2, CourseFiles
  <2>3. CASE IsChapter(courses, a) /\ IsChapter(courses, b)
    BY <1>1, <2>3, ChapterFilesDiffer
  <2>4. CASE /\ IsLesson(courses, a) \/ IsRemoved(courses, a)
             /\ IsLesson(courses, b) \/ IsRemoved(courses, b)
    BY <1>1, <2>4, LessonFilesDiffer
  <2>5. CASE IsRank(a) /\ IsRank(b)
    BY <1>1, <2>5, RankSays, RanksAre, RankFilesDiffer DEF IsRank
  <2>6. CASE a \in {LeaderboardNote, HubNote(courses)} /\ b \in {LeaderboardNote, HubNote(courses)}
    <3>1. /\ LeaderboardNote.path = Leaderboard /\ HubNote(courses).path = Hub
          /\ Hub # Leaderboard
      BY PagesSay, PathsAre
    <3>. QED  BY <1>1, <2>6, <3>1
  <2>. DEFINE tag == a.path[1]
  <2>7. tag = b.path[1]
    BY <1>1
  <2>8. /\ tag = "Members" => IsOwn(a) /\ IsOwn(b)
        /\ tag = "Courses" => IsCourse(courses, a) /\ IsCourse(courses, b)
        /\ tag = "Chapters" => IsChapter(courses, a) /\ IsChapter(courses, b)
        /\ tag = "Lessons" => /\ IsLesson(courses, a) \/ IsRemoved(courses, a)
                              /\ IsLesson(courses, b) \/ IsRemoved(courses, b)
        /\ tag = "Ranks" => IsRank(a) /\ IsRank(b)
        /\ tag = "" => /\ a \in {LeaderboardNote, HubNote(courses)}
                       /\ b \in {LeaderboardNote, HubNote(courses)}
    BY <2>7, ByTag
  <2>9. tag \in {"Members", "Courses", "Chapters", "Lessons", "Ranks", ""}
    BY ByTag
  <2>. HIDE DEF tag
  <2>. QED  BY <2>1, <2>2, <2>3, <2>4, <2>5, <2>6, <2>8, <2>9
<1>2. ASSUME NEW a \in AcademyNotes(courses)
      PROVE  a.path[2] \notin Devices
  <2>1. /\ \A m : MemberPath(m)[2] \notin Devices
        /\ \A id : LessonPath(id)[2] \notin Devices /\ ChapterPath(id)[2] \notin Devices /\ CoursePath(id)[2] \notin Devices
        /\ \A key : RankPath(key)[2] \notin Devices
        /\ Hub[2] \notin Devices /\ Leaderboard[2] \notin Devices
    BY NoDevice, BrainNotesAssumption DEF MemberPath, LessonPath, ChapterPath, CoursePath, RankPath
  <2>2. \/ IsOwn(a) \/ IsCourse(courses, a) \/ IsChapter(courses, a) \/ IsLesson(courses, a)
        \/ IsRemoved(courses, a) \/ IsRank(a) \/ a = LeaderboardNote \/ a = HubNote(courses)
    BY KindsAre
  <2>. QED  BY <2>1, <2>2, PathsOf
<1>. QED  BY <1>1, <1>2 DEF OneFileEach

-----------------------------------------------------------------------------
(* Links *)

Written(courses, path) == \E b \in AcademyNotes(courses) : b.path = path

\* Everything a note may link to is written.
LEMMA AllWritten ==
    ASSUME NEW courses
    PROVE  /\ \A m \in Present : Written(courses, MemberPath(m))
           /\ \A i \in DOMAIN courses : Written(courses, CoursePath(courses[i].id))
           /\ \A i \in DOMAIN courses : \A j \in DOMAIN courses[i].chapters :
                Written(courses, ChapterPath(courses[i].chapters[j].id))
           /\ \A p \in LessonPlaces(courses) : Written(courses, LessonPath(LessonAt(courses, p).id))
           /\ \A c \in completed : Written(courses, LessonPath(c.lesson))
           /\ \A key \in {Bronze, None} : Written(courses, RankPath(key))
           /\ Written(courses, Hub) /\ Written(courses, Leaderboard)
<1>. DEFINE notes == AcademyNotes(courses)
<1>1. ASSUME NEW m \in Present
      PROVE  Written(courses, MemberPath(m))
  <2>1. OwnNote(m) \in notes
    BY KindsAre DEF IsOwn
  <2>. QED  BY <2>1, OwnSays DEF Written
<1>2. ASSUME NEW i \in DOMAIN courses
      PROVE  Written(courses, CoursePath(courses[i].id))
  <2>1. CourseNote(courses[i]) \in notes
    BY KindsAre DEF IsCourse
  <2>. QED  BY <2>1, CourseSays DEF Written
<1>3. ASSUME NEW i \in DOMAIN courses, NEW j \in DOMAIN courses[i].chapters
      PROVE  Written(courses, ChapterPath(courses[i].chapters[j].id))
  <2>. DEFINE c == courses[i].chapters[j]
  <2>1. IsChapter(courses, ChapterNote(courses[i], c))
    BY DEF IsChapter
  <2>2. ChapterNote(courses[i], c) \in notes
    BY <2>1, KindsAre
  <2>. HIDE DEF c
  <2>3. Written(courses, ChapterPath(c.id))
    BY <2>2, ChapterSays DEF Written
  <2>. QED  BY <2>3 DEF c
<1>4. ASSUME NEW p \in LessonPlaces(courses)
      PROVE  Written(courses, LessonPath(LessonAt(courses, p).id))
  <2>. DEFINE a == LessonNote(ChapterAt(courses, p[1]), LessonAt(courses, p).id)
  <2>1. IsLesson(courses, a)
    BY DEF IsLesson
  <2>2. a \in notes
    BY <2>1, KindsAre
  <2>3. a.path = LessonPath(LessonAt(courses, p).id)
    BY LessonSays
  <2>. QED  BY <2>2, <2>3 DEF Written
<1>5. ASSUME NEW c \in completed
      PROVE  Written(courses, LessonPath(c.lesson))
  <2>1. CASE c.lesson \in IdsIn(courses)
    <3>1. PICK p \in LessonPlaces(courses) : LessonAt(courses, p).id = c.lesson
      BY <2>1 DEF IdsIn
    <3>2. Written(courses, LessonPath(LessonAt(courses, p).id))
      BY <1>4
    <3>. QED  BY <3>1, <3>2
  <2>2. CASE c.lesson \notin IdsIn(courses)
    <3>1. RemovedNote(c.lesson) \in notes
      BY <2>2, KindsAre DEF IsRemoved, RemovedIds
    <3>. QED  BY <3>1, RemovedSays DEF Written
  <2>. QED  BY <2>1, <2>2
<1>6. ASSUME NEW key \in {Bronze, None}
      PROVE  Written(courses, RankPath(key))
  <2>1. IsRank(RankNote(key))
    BY RanksAre DEF IsRank
  <2>2. RankNote(key) \in notes
    BY <2>1, KindsAre
  <2>. QED  BY <2>2, RankSays DEF Written
<1>7. Written(courses, Hub) /\ Written(courses, Leaderboard)
  <2>1. HubNote(courses) \in notes /\ LeaderboardNote \in notes
    BY KindsAre
  <2>. QED  BY <2>1, PagesSay DEF Written
<1>. QED  BY <1>1, <1>2, <1>3, <1>4, <1>5, <1>6, <1>7

LEMMA AcademyLinks ==
    ASSUME NEW courses, NEW a \in AcademyNotes(courses), NEW path \in a.links
    PROVE  Written(courses, path)
<1>0. \A x : Range(IdsOf(x)) = {x[i].id : i \in DOMAIN x}
  BY DEF Range, IdsOf
<1>1. CASE IsOwn(a)
  <2>1. PICK m \in Present : a = OwnNote(m)
    BY <1>1 DEF IsOwn
  <2>2. path \in OwnLinks(m)
    BY <2>1, OwnSays
  <2>3. path = RankPath(RankOf(m)) \/ \E c \in completed : path = LessonPath(c.lesson)
    BY <2>2 DEF OwnLinks, DoneBy
  <2>. QED  BY <2>3, AllWritten, RanksAre
<1>2. CASE IsCourse(courses, a)
  <2>1. PICK i \in DOMAIN courses : a = CourseNote(courses[i])
    BY <1>2 DEF IsCourse
  <2>2. path \in CourseLinks(courses[i])
    BY <2>1, CourseSays
  <2>3. path = Hub \/ \E j \in DOMAIN courses[i].chapters : path = ChapterPath(courses[i].chapters[j].id)
    BY <1>0, <2>2 DEF CourseLinks
  <2>. QED  BY <2>3, AllWritten
<1>3. CASE IsChapter(courses, a)
  <2>1. PICK i \in DOMAIN courses : \E j \in DOMAIN courses[i].chapters :
          a = ChapterNote(courses[i], courses[i].chapters[j])
    BY <1>3 DEF IsChapter
  <2>2. PICK j \in DOMAIN courses[i].chapters : a = ChapterNote(courses[i], courses[i].chapters[j])
    BY <2>1
  <2>. DEFINE c == courses[i].chapters[j]
  <2>3. path \in ChapterNoteLinks(courses[i], c)
    BY <2>2, ChapterSays
  <2>4. path = CoursePath(courses[i].id) \/ \E k \in DOMAIN c.lessons : path = LessonPath(c.lessons[k].id)
    BY <1>0, <2>3 DEF ChapterNoteLinks
  <2>5. ASSUME NEW k \in DOMAIN c.lessons
        PROVE  Written(courses, LessonPath(c.lessons[k].id))
    <3>. DEFINE p == <<<<i, j>>, k>>
    <3>1. p \in LessonPlaces(courses)
      BY PlacesAre
    <3>2. LessonAt(courses, p).id = c.lessons[k].id
      BY DEF LessonAt, ChapterAt
    <3>3. Written(courses, LessonPath(LessonAt(courses, p).id))
      <4>. HIDE DEF p
      <4>. QED  BY <3>1, AllWritten
    <3>. QED  BY <3>2, <3>3
  <2>6. Written(courses, CoursePath(courses[i].id))
    BY AllWritten
  <2>. HIDE DEF c
  <2>. QED  BY <2>4, <2>5, <2>6
<1>4. CASE IsLesson(courses, a)
  <2>1. PICK p \in LessonPlaces(courses) : a = LessonNote(ChapterAt(courses, p[1]), LessonAt(courses, p).id)
    BY <1>4 DEF IsLesson
  <2>2. path = ChapterPath(ChapterAt(courses, p[1]).id)
    BY <2>1, LessonSays
  <2>3. PICK i \in DOMAIN courses : \E j \in DOMAIN courses[i].chapters :
          \E k \in DOMAIN courses[i].chapters[j].lessons : p = <<<<i, j>>, k>>
    BY PlacesAre
  <2>4. PICK j \in DOMAIN courses[i].chapters :
          \E k \in DOMAIN courses[i].chapters[j].lessons : p = <<<<i, j>>, k>>
    BY <2>3
  <2>5. ChapterAt(courses, p[1]) = courses[i].chapters[j]
    BY <2>4 DEF ChapterAt
  <2>6. Written(courses, ChapterPath(courses[i].chapters[j].id))
    BY AllWritten
  <2>. QED  BY <2>2, <2>5, <2>6
<1>5. CASE IsRemoved(courses, a)
  BY <1>5, RemovedSays DEF IsRemoved
<1>6. CASE IsRank(a)
  <2>1. path = Hub
    BY <1>6, RankSays DEF IsRank
  <2>. QED  BY <2>1, AllWritten
<1>7. CASE a = LeaderboardNote
  <2>1. a.links = {Hub} \cup {MemberPath(m) : m \in OnBoard}
    BY <1>7, NoteFields DEF LeaderboardNote
  <2>2. path = Hub \/ \E m \in Present : path = MemberPath(m)
    BY <2>1 DEF OnBoard
  <2>. QED  BY <2>2, AllWritten
<1>8. CASE a = HubNote(courses)
  <2>1. a.links = {RankPath(key) : key \in RankKeys \cup {None}} \cup {Leaderboard}
          \cup {CoursePath(id) : id \in Range(IdsOf(courses))} \cup {MemberPath(m) : m \in Present}
    BY <1>8, NoteFields DEF HubNote
  <2>2. \/ \E key \in {Bronze, None} : path = RankPath(key)
        \/ path = Leaderboard
        \/ \E i \in DOMAIN courses : path = CoursePath(courses[i].id)
        \/ \E m \in Present : path = MemberPath(m)
    BY <1>0, <2>1, RanksAre
  <2>. QED  BY <2>2, AllWritten
<1>. QED  BY <1>1, <1>2, <1>3, <1>4, <1>5, <1>6, <1>7, <1>8, KindsAre

-----------------------------------------------------------------------------
(* What the notes count *)

\* The members' notes that link to a path, and the members they are about.
LEMMA LinkingCounted ==
    ASSUME AccountsKept, NEW courses, NEW path
    PROVE  Cardinality({b \in AcademyNotes(courses) : b.path[1] = "Members" /\ path \in b.links})
             = Cardinality({m \in Present : path \in OwnLinks(m)})
<1>. DEFINE S == {m \in Present : path \in OwnLinks(m)}
            T == {b \in AcademyNotes(courses) : b.path[1] = "Members" /\ path \in b.links}
            f == [m \in S |-> OwnNote(m)]
<1>1. IsFiniteSet(S)
  <2>1. S \in SUBSET Members
    BY DEF Present
  <2>. QED  BY <2>1, FS_Subset, BrainNotesAssumption
<1>2. \A b : b \in T <=> \E m \in S : b = OwnNote(m)
  <2>1. ASSUME NEW b \in T
        PROVE  \E m \in S : b = OwnNote(m)
    <3>1. IsOwn(b) /\ path \in b.links
      BY ByTag
    <3>2. PICK m \in Present : b = OwnNote(m)
      BY <3>1 DEF IsOwn
    <3>. QED  BY <3>1, <3>2, OwnSays
  <2>2. ASSUME NEW m \in S
        PROVE  OwnNote(m) \in T
    <3>1. IsOwn(OwnNote(m))
      BY DEF IsOwn
    <3>2. OwnNote(m) \in AcademyNotes(courses) /\ OwnNote(m).path[1] = "Members"
      BY <3>1, KindsAre, TagsAre
    <3>. QED  BY <3>2, OwnSays
  <2>. QED  BY <2>1, <2>2
<1>3. \A m, n \in S : OwnNote(m) = OwnNote(n) => m = n
  <2>1. ASSUME NEW m \in S, NEW n \in S, OwnNote(m) = OwnNote(n)
        PROVE  m = n
    <3>1. MemberPath(m) = MemberPath(n)
      BY <2>1, OwnSays
    <3>. QED  BY <3>1, LabelsDiffer
  <2>. QED  BY <2>1
<1>. HIDE DEF S, T
<1>4. f \in Bijection(S, T)
  BY <1>2, <1>3 DEF Bijection, Injection, Surjection, IsInjective
<1>5. ExistsBijection(S, T)
  <2>. HIDE DEF f
  <2>. QED  BY <1>4 DEF ExistsBijection
<1>6. Cardinality(T) = Cardinality(S)
  BY <1>1, <1>5, FS_Bijection
<1>. QED  BY <1>6 DEF S, T

LEMMA LessonCounted ==
    ASSUME RowsKept, NEW id, GoodId(id) \/ id \in LessonIds
    PROVE  {m \in Present : LessonPath(id) \in OwnLinks(m)} = {c.member : c \in {d \in completed : d.lesson = id}}
<1>1. \A c \in completed : c.member \in Present /\ c.lesson \in LessonIds
  BY DEF RowsKept
<1>2. \A c \in completed : LessonPath(id) = LessonPath(c.lesson) => c.lesson = id
  <2>1. ASSUME NEW c \in completed, LessonPath(id) = LessonPath(c.lesson)
        PROVE  c.lesson = id
    <3>1. FileBase(id) = FileBase(c.lesson)
      BY <2>1 DEF LessonPath
    <3>. QED  BY <1>1, <3>1, IdFilesDiffer
  <2>. QED  BY <2>1
<1>3. \A m : LessonPath(id) # RankPath(RankOf(m))
  <2>1. LessonPath(id)[1] = "Lessons"
    BY PathsAre
  <2>2. \A m : RankPath(RankOf(m))[1] = "Ranks"
    BY PathsAre
  <2>. QED  BY <2>1, <2>2
<1>4. ASSUME NEW m \in Present
      PROVE  LessonPath(id) \in OwnLinks(m) <=> \E c \in completed : c.member = m /\ c.lesson = id
  BY <1>2, <1>3 DEF OwnLinks, DoneBy
<1>. QED  BY <1>1, <1>4

LEMMA RankCounted ==
    ASSUME NEW key \in {Bronze, None}
    PROVE  {m \in Present : RankPath(key) \in OwnLinks(m)} = {m \in Present : RankOf(m) = key}
<1>1. \A m : RankPath(key) = RankPath(RankOf(m)) => RankOf(m) = key
  BY RanksAre, RankFilesDiffer
<1>2. \A id : RankPath(key) # LessonPath(id)
  <2>1. RankPath(key)[1] = "Ranks" /\ \A id : LessonPath(id)[1] = "Lessons"
    BY PathsAre
  <2>. QED  BY <2>1
<1>3. \A m : RankPath(key) \in OwnLinks(m) <=> RankOf(m) = key
  BY <1>1, <1>2 DEF OwnLinks
<1>. QED  BY <1>3

LEMMA AcademyAgrees ==
    ASSUME AccountsKept, RowsKept, NEW courses, Catalogued(courses)
    PROVE  BrainAgrees(AcademyNotes(courses))
<1>. DEFINE notes == AcademyNotes(courses)
<1>1. LinksWritten(notes)
  <2>1. \A a \in notes : \A path \in a.links : Written(courses, path)
    BY AcademyLinks
  <2>. QED  BY <2>1 DEF LinksWritten, Written
<1>2. PicturesShown(notes)
  <2>1. ASSUME NEW a \in notes, NEW v \in a.embeds
        PROVE  \E m \in Present : v \in Card(m)
    <3>1. IsOwn(a)
      BY KindsAre, PathsOf
    <3>. QED  BY <3>1, OwnSays DEF IsOwn
  <2>2. ASSUME NEW m \in Present, NEW v \in Card(m)
        PROVE  \E a \in notes : v \in a.embeds
    <3>1. OwnNote(m) \in notes
      BY KindsAre DEF IsOwn
    <3>. QED  BY <3>1, OwnSays
  <2>. HIDE DEF notes
  <2>3. UNION {a.embeds : a \in notes} = UNION {Card(m) : m \in Present}
    BY <2>1, <2>2
  <2>. QED  BY <2>3, CardsShown DEF PicturesShown
<1>3. CountsShown(notes)
  <2>1. ASSUME NEW a \in notes, a.path[1] = "Lessons"
        PROVE  \E id : a.states = CompletedBy(id) /\ a.path = LessonPath(id) /\ (GoodId(id) \/ id \in LessonIds)
    <3>1. CASE IsLesson(courses, a)
      <4>1. PICK p \in LessonPlaces(courses) : a = LessonNote(ChapterAt(courses, p[1]), LessonAt(courses, p).id)
        BY <3>1 DEF IsLesson
      <4>. QED  BY <4>1, LessonSays DEF Catalogued
    <3>2. CASE IsRemoved(courses, a)
      <4>1. PICK id \in RemovedIds(courses) : a = RemovedNote(id)
        BY <3>2 DEF IsRemoved
      <4>2. id \in LessonIds
        BY DEF RemovedIds, RowsKept
      <4>. QED  BY <4>1, <4>2, RemovedSays
    <3>. QED  BY <2>1, <3>1, <3>2, ByTag
  <2>2. ASSUME NEW a \in notes, a.path[1] = "Ranks"
        PROVE  \E key \in {Bronze, None} : a.states = Holders(key) /\ a.path = RankPath(key)
    <3>1. IsRank(a)
      BY <2>2, ByTag
    <3>. QED  BY <3>1, RankSays, RanksAre DEF IsRank
  <2>3. ASSUME NEW a \in notes, a.path[1] = "Lessons"
        PROVE  a.states = Cardinality({b \in notes : b.path[1] = "Members" /\ a.path \in b.links})
    <3>1. PICK id : a.states = CompletedBy(id) /\ a.path = LessonPath(id) /\ (GoodId(id) \/ id \in LessonIds)
      BY <2>1, <2>3
    <3>. HIDE DEF notes
    <3>2. CompletedBy(id) = Cardinality({m \in Present : a.path \in OwnLinks(m)})
      <4>1. {m \in Present : a.path \in OwnLinks(m)} = {c.member : c \in {d \in completed : d.lesson = id}}
        BY <3>1, LessonCounted
      <4>. QED  BY <4>1 DEF CompletedBy
    <3>. QED  BY <3>1, <3>2, LinkingCounted DEF notes
  <2>4. ASSUME NEW a \in notes, a.path[1] = "Ranks"
        PROVE  a.states = Cardinality({b \in notes : b.path[1] = "Members" /\ a.path \in b.links})
    <3>1. PICK key \in {Bronze, None} : a.states = Holders(key) /\ a.path = RankPath(key)
      BY <2>2, <2>4
    <3>. HIDE DEF notes
    <3>2. Holders(key) = Cardinality({m \in Present : a.path \in OwnLinks(m)})
      BY <3>1, RankCounted DEF Holders
    <3>. QED  BY <3>1, <3>2, LinkingCounted DEF notes
  <2>. HIDE DEF notes
  <2>. QED  BY <2>3, <2>4 DEF CountsShown
<1>4. OneFileEach(notes)
  BY AcademyFiles
<1>. QED  BY <1>1, <1>2, <1>3, <1>4 DEF BrainAgrees

\* The notes agree with one another in the members' brain and, whenever the owner's files load,
\* in the Academy's, whatever the lessons were when members completed them (notes.ts:125-508).
THEOREM NotesAgreeAlways == NotesSpec => []NotesAgree
<1>1. NotesInv => NotesAgree
  <2>. SUFFICES ASSUME NotesInv, NEW notes \in Brains
                PROVE  BrainAgrees(notes) /\ \A v \in DOMAIN Pictures : accounts[Pictures[v]].picture = v
    BY DEF NotesAgree, BrainAgrees, LinksWritten, PicturesShown, CountsShown
  <2>1. BrainAgrees(notes)
    <3>1. CASE notes = MemberNotes
      BY <3>1, PlainAgrees DEF NotesInv
    <3>2. CASE Loads(tree) /\ notes = AcademyNotes(Courses(tree))
      <4>1. Catalogued(Courses(tree))
        BY <3>2, LoadedIsCatalogued
      <4>. QED  BY <3>2, <4>1, AcademyAgrees DEF NotesInv
    <3>. QED  BY <3>1, <3>2 DEF Brains
  <2>2. \A v \in DOMAIN Pictures : accounts[Pictures[v]].picture = v
    BY PicturesRead DEF NotesInv
  <2>. QED  BY <2>1, <2>2
<1>. QED  BY <1>1, NotesKeep, PTL

-----------------------------------------------------------------------------
(* The leaderboard *)

LEMMA CountsAre ==
    ASSUME RowsKept, NEW m
    PROVE  /\ IsFiniteSet(DoneBy(m)) /\ Cardinality(DoneBy(m)) \in Nat
           /\ Pace(m) \in Nat
           /\ Pace(m) > 0 <=> \E c \in DoneBy(m) : c.day \in (day - PaceDays + 1)..day
<1>. DEFINE D == {c \in DoneBy(m) : c.day > day - PaceDays /\ c.day <= day}
<1>1. IsFiniteSet(DoneBy(m)) /\ Cardinality(DoneBy(m)) \in Nat
  <2>1. DoneBy(m) \in SUBSET completed
    BY DEF DoneBy
  <2>. QED  BY <2>1, FS_Subset, FS_CardinalityType DEF RowsKept
<1>2. IsFiniteSet(D) /\ Cardinality(D) \in Nat
  <2>1. D \in SUBSET DoneBy(m)
    OBVIOUS
  <2>. QED  BY <1>1, <2>1, FS_Subset, FS_CardinalityType
<1>3. Pace(m) = Cardinality(D)
  BY DEF Pace
<1>4. Cardinality(D) > 0 <=> D # {}
  BY <1>2, FS_EmptySet
<1>5. \A c \in DoneBy(m) : c.day \in Int
  BY DEF DoneBy, RowsKept
<1>6. D # {} <=> \E c \in DoneBy(m) : c.day \in (day - PaceDays + 1)..day
  BY <1>5, BrainNotesAssumption DEF RowsKept
<1>. HIDE DEF D
<1>. QED  BY <1>1, <1>2, <1>3, <1>4, <1>6

\* The board's members in their order.
BoardOrder == {q \in OnBoard \X OnBoard : Ahead(q[1], q[2])}

LEMMA OnBoardFinite == AccountsKept => IsFiniteSet(OnBoard) /\ Cardinality(OnBoard) \in Nat
<1>1. OnBoard \in SUBSET Members
  BY DEF OnBoard, Present
<1>. QED  BY <1>1, FS_Subset, FS_CardinalityType, BrainNotesAssumption

LEMMA BoardOrdered ==
    ASSUME AccountsKept, RowsKept
    PROVE  Orders(BoardOrder, OnBoard)
<1>1. \A x, y \in OnBoard : <<x, y>> \in BoardOrder <=> Ahead(x, y)
  BY DEF BoardOrder
<1>2. \A x \in OnBoard : /\ x \in Present /\ accounts[x].number \in Int
                         /\ Pace(x) \in Int /\ Cardinality(DoneBy(x)) \in Int
  <2>1. \A x \in Present : accounts[x].number \in Int
    BY DEF AccountsKept, Present, AccountRows
  <2>2. \A x : Pace(x) \in Int /\ Cardinality(DoneBy(x)) \in Int
    BY CountsAre
  <2>. QED  BY <2>1, <2>2 DEF OnBoard
<1>3. \A x, y \in OnBoard : accounts[x].number = accounts[y].number => x = y
  BY <1>2 DEF AccountsKept
<1>4. \A x \in OnBoard : ~Ahead(x, x)
  BY <1>2 DEF Ahead
<1>5. \A x, y, z \in OnBoard : Ahead(x, y) /\ Ahead(y, z) => Ahead(x, z)
  BY <1>2 DEF Ahead
<1>6. \A x, y \in OnBoard : x = y \/ Ahead(x, y) \/ Ahead(y, x)
  BY <1>2, <1>3 DEF Ahead
<1>. QED  BY <1>1, <1>4, <1>5, <1>6 DEF Orders

\* The board is everyone on it, once, each behind those ahead of them.
LEMMA BoardSorted ==
    ASSUME AccountsKept, RowsKept
    PROVE  /\ DOMAIN Board = 1..Cardinality(OnBoard)
           /\ \A i \in DOMAIN Board : /\ Board[i] \in OnBoard
                                      /\ Cardinality({n \in OnBoard : Ahead(n, Board[i])}) = i - 1
           /\ \A m \in OnBoard : \E i \in DOMAIN Board : Board[i] = m
           /\ \A i, j \in DOMAIN Board : Ahead(Board[i], Board[j]) => i < j
<1>. DEFINE S == OnBoard
            N == Cardinality(S)
            f == [m \in S |-> Cardinality(BeforeIn(S, BoardOrder, m))]
<1>1. IsFiniteSet(S) /\ N \in Nat
  BY OnBoardFinite
<1>2. /\ f \in Bijection(S, 0..N - 1)
      /\ \A x, y \in S : <<x, y>> \in BoardOrder => f[x] < f[y]
  <2>. HIDE DEF S
  <2>. QED  BY <1>1, BoardOrdered, CountedThrough DEF S
<1>3. ASSUME NEW m \in S
      PROVE  Cardinality({n \in S : Ahead(n, m)}) = f[m]
  <2>1. BeforeIn(S, BoardOrder, m) = {n \in S : Ahead(n, m)}
    BY DEF BeforeIn, BoardOrder
  <2>. QED  BY <2>1
<1>4. \A x, y \in S : Ahead(x, y) => <<x, y>> \in BoardOrder
  BY DEF BoardOrder
<1>. HIDE DEF f
<1>5. /\ f \in [S -> 0..N - 1]
      /\ \A n \in 0..N - 1 : \E m \in S : f[m] = n
      /\ \A x, y \in S : f[x] = f[y] => x = y
  BY <1>2 DEF Bijection, Injection, Surjection, IsInjective
<1>6. DOMAIN Board = 1..N /\ \A i \in 1..N : Board[i] = CHOOSE m \in S : Cardinality({n \in S : Ahead(n, m)}) = i - 1
  BY DEF Board
<1>7. ASSUME NEW i \in 1..N
      PROVE  Board[i] \in S /\ Cardinality({n \in S : Ahead(n, Board[i])}) = i - 1
  <2>1. i - 1 \in 0..N - 1
    BY <1>1
  <2>2. \E m \in S : Cardinality({n \in S : Ahead(n, m)}) = i - 1
    BY <1>3, <1>5, <2>1
  <2>. HIDE DEF S
  <2>. QED  BY <1>6, <2>2
<1>8. \A i \in 1..N : f[Board[i]] = i - 1
  BY <1>3, <1>7
<1>9. ASSUME NEW m \in S
      PROVE  \E i \in 1..N : Board[i] = m
  <2>1. f[m] \in 0..N - 1
    BY <1>5
  <2>2. f[m] + 1 \in 1..N
    BY <1>1, <2>1
  <2>3. f[Board[f[m] + 1]] = f[m]
    BY <1>8, <2>1, <2>2
  <2>4. Board[f[m] + 1] \in S
    BY <1>7, <2>2
  <2>. QED  BY <1>5, <2>2, <2>3, <2>4
<1>10. ASSUME NEW i \in 1..N, NEW j \in 1..N, Ahead(Board[i], Board[j])
       PROVE  i < j
  <2>1. f[Board[i]] < f[Board[j]]
    BY <1>2, <1>4, <1>7, <1>10
  <2>. QED  BY <1>8, <2>1
<1>. QED  BY <1>6, <1>7, <1>9, <1>10

\* The place due to a line of the board.
Due(i) == 1 + Cardinality({m \in Present : Pace(m) > Pace(Board[i])})

LEMMA PlacesFollow ==
    ASSUME AccountsKept, RowsKept
    PROVE  \A i \in DOMAIN Board :
             Due(i) = IF i = 1 \/ Pace(Board[i - 1]) # Pace(Board[i]) THEN i ELSE Due(i - 1)
<1>. SUFFICES ASSUME NEW i \in DOMAIN Board
              PROVE  Due(i) = IF i = 1 \/ Pace(Board[i - 1]) # Pace(Board[i]) THEN i ELSE Due(i - 1)
  OBVIOUS
<1>. DEFINE N == Cardinality(OnBoard)
            F == {m \in Present : Pace(m) > Pace(Board[i])}
            A == {n \in OnBoard : Ahead(n, Board[i])}
<1>1. N \in Nat /\ DOMAIN Board = 1..N
  BY OnBoardFinite, BoardSorted
<1>2. \A m : Pace(m) \in Nat /\ Cardinality(DoneBy(m)) \in Nat
  BY CountsAre
<1>3. Board[i] \in OnBoard /\ Cardinality(A) = i - 1
  BY BoardSorted
<1>4. F \subseteq A
  BY <1>2, <1>3 DEF OnBoard, Ahead
<1>5. ASSUME i = 1 \/ Pace(Board[i - 1]) # Pace(Board[i])
      PROVE  A \subseteq F
  <2>. SUFFICES ASSUME NEW n \in A, n \notin F
                PROVE  FALSE
    OBVIOUS
  <2>1. n \in OnBoard /\ n \in Present /\ Ahead(n, Board[i])
    BY DEF OnBoard
  <2>2. Pace(n) = Pace(Board[i])
    BY <1>2, <2>1 DEF Ahead
  <2>3. PICK j \in 1..N : Board[j] = n
    BY <1>1, <2>1, BoardSorted
  <2>4. j < i
    BY <1>1, <2>1, <2>3, BoardSorted
  <2>5. i \in 1..N /\ i # 1 /\ i - 1 \in 1..N
    BY <1>1, <2>3, <2>4
  <2>. DEFINE b == Board[i - 1]
  <2>6. b \in OnBoard
    BY <1>1, <2>5, BoardSorted
  <2>7. b = n \/ Ahead(n, b)
    <3>1. ~Ahead(b, n)
      <4>1. Ahead(b, n) => i - 1 < j
        BY <1>1, <2>3, <2>5, BoardSorted
      <4>. QED  BY <1>1, <2>3, <2>4, <2>5, <4>1
    <3>2. b = n \/ Ahead(n, b) \/ Ahead(b, n)
      BY <2>1, <2>6, BoardOrdered DEF Orders, BoardOrder
    <3>. QED  BY <3>1, <3>2
  <2>8. Ahead(b, Board[i]) \/ b = Board[i]
    <3>1. ~Ahead(Board[i], b)
      <4>1. Ahead(Board[i], b) => i < i - 1
        BY <1>1, <2>5, BoardSorted
      <4>. QED  BY <2>5, <4>1
    <3>2. b = Board[i] \/ Ahead(Board[i], b) \/ Ahead(b, Board[i])
      BY <1>3, <2>6, BoardOrdered DEF Orders, BoardOrder
    <3>. QED  BY <3>1, <3>2
  <2>. HIDE DEF b
  <2>9. Pace(b) <= Pace(n) /\ Pace(b) >= Pace(Board[i])
    BY <1>2, <2>7, <2>8 DEF Ahead
  <2>10. Pace(b) # Pace(Board[i])
    BY <1>5, <2>5 DEF b
  <2>. QED  BY <1>2, <2>2, <2>9, <2>10
<1>6. CASE i = 1 \/ Pace(Board[i - 1]) # Pace(Board[i])
  <2>1. F = A
    BY <1>4, <1>5, <1>6
  <2>2. Due(i) = 1 + (i - 1)
    BY <1>3, <2>1 DEF Due
  <2>. QED  BY <1>1, <1>6, <2>2
<1>7. CASE ~(i = 1 \/ Pace(Board[i - 1]) # Pace(Board[i]))
  BY <1>7 DEF Due
<1>. QED  BY <1>6, <1>7

LEMMA PlaceAtIs ==
    PlaceAt = CHOOSE f : f = [i \in 0..Cardinality(OnBoard) |->
      IF i = 0 THEN 0 ELSE IF i = 1 \/ Pace(Board[i - 1]) # Pace(Board[i]) THEN i ELSE f[i - 1]]
BY DEF PlaceAt

\* The place of a line is the place due to it.
LEMMA PlacesDue ==
    ASSUME AccountsKept, RowsKept
    PROVE  \A i \in DOMAIN Board : BoardPlaces[i] = Due(i)
<1>. DEFINE N == Cardinality(OnBoard)
            Next1(f, i) == IF i = 0 THEN 0
                           ELSE IF i = 1 \/ Pace(Board[i - 1]) # Pace(Board[i]) THEN i ELSE f[i - 1]
            due == [i \in 0..N |-> IF i = 0 THEN 0 ELSE Due(i)]
<1>1. N \in Nat /\ DOMAIN Board = 1..N
  BY OnBoardFinite, BoardSorted
<1>2. \A i \in 1..N : Due(i) = IF i = 1 \/ Pace(Board[i - 1]) # Pace(Board[i]) THEN i ELSE Due(i - 1)
  BY <1>1, PlacesFollow
<1>3. due = [i \in 0..N |-> Next1(due, i)]
  <2>1. ASSUME NEW i \in 0..N
        PROVE  due[i] = Next1(due, i)
    <3>1. CASE i = 0
      BY <3>1
    <3>2. CASE i # 0
      <4>1. i \in 1..N /\ i - 1 \in 0..N
        BY <1>1, <3>2
      <4>2. due[i] = Due(i) /\ (i # 1 => due[i - 1] = Due(i - 1))
        BY <1>1, <4>1
      <4>. HIDE DEF due
      <4>. QED  BY <1>2, <3>2, <4>1, <4>2
    <3>. QED  BY <3>1, <3>2
  <2>2. due = [i \in 0..N |-> due[i]]
    OBVIOUS
  <2>. HIDE DEF due, Next1
  <2>. QED  BY <2>1, <2>2
<1>4. PlaceAt = CHOOSE f : f = [i \in 0..N |-> Next1(f, i)]
  BY PlaceAtIs
<1>5. PlaceAt = [i \in 0..N |-> Next1(PlaceAt, i)]
  <2>. HIDE DEF due, Next1
  <2>. QED  BY <1>3, <1>4
<1>6. \A i \in 1..N : PlaceAt[i] = IF i = 1 \/ Pace(Board[i - 1]) # Pace(Board[i]) THEN i ELSE PlaceAt[i - 1]
  BY <1>1, <1>5
<1>7. \A i \in 1..N : PlaceAt[i] = Due(i)
  <2>. SUFFICES ASSUME NEW k \in 1..N, PlaceAt[k] # Due(k)
                PROVE  FALSE
    OBVIOUS
  <2>. DEFINE W == {i \in 1..N : PlaceAt[i] # Due(i)}
  <2>1. W \in SUBSET Nat /\ k \in W
    BY <1>1
  <2>2. PICK x \in W : \A y \in W : x <= y
    <3>. HIDE DEF W
    <3>. QED  BY <2>1, Smallest
  <2>3. x \in 1..N /\ PlaceAt[x] # Due(x)
    OBVIOUS
  <2>4. x # 1
    BY <1>2, <1>6, <2>3
  <2>5. x - 1 \in 1..N /\ x - 1 \notin W
    <3>1. x - 1 \in 1..N /\ ~(x <= x - 1)
      BY <1>1, <2>3, <2>4
    <3>. QED  BY <2>2, <3>1
  <2>6. PlaceAt[x - 1] = Due(x - 1)
    BY <2>5
  <2>. QED  BY <1>2, <1>6, <2>3, <2>6
<1>. QED  BY <1>1, <1>7 DEF BoardPlaces

\* A place on the leaderboard is one more than the number of members with a higher pace, and
\* whoever completed a lesson in the window is on it (notes.ts:187-189, 419-433).
THEOREM BoardStaysFair == NotesSpec => []BoardIsFair
<1>1. NotesInv => BoardIsFair
  <2>. SUFFICES ASSUME NotesInv
                PROVE  BoardIsFair
    OBVIOUS
  <2>1. AccountsKept /\ RowsKept
    BY DEF NotesInv
  <2>2. Range(Board) = OnBoard
    BY <2>1, BoardSorted DEF Range
  <2>3. OnBoard = {m \in Present : \E c \in DoneBy(m) : c.day \in (day - PaceDays + 1)..day}
    BY <2>1, CountsAre DEF OnBoard
  <2>4. \A i \in DOMAIN Board : BoardPlaces[i] = Due(i)
    BY <2>1, PlacesDue
  <2>. QED  BY <2>2, <2>3, <2>4 DEF BoardIsFair, Due
<1>. QED  BY <1>1, NotesKeep, PTL

-----------------------------------------------------------------------------
(* The pages *)

\* The site serves a catalog that was released, and nothing is completed before it is done.
ServedKept ==
    /\ \E t \in Trees \cup {FirstTree} : Loads(t) /\ served = Courses(t)
    /\ \A c \in completed : c.day <= day

PagesInv == NotesInv /\ ServedKept

LEMMA PagesStart == NotesInit => PagesInv
BY NotesStart, BrainNotesAssumption DEF NotesInit, PagesInv, ServedKept

LEMMA PagesStep == PagesInv /\ [NotesNext]_notesVars => PagesInv'
<1>. SUFFICES ASSUME PagesInv, [NotesNext]_notesVars
              PROVE  ServedKept'
  BY NotesStep DEF PagesInv
<1>1. /\ day \in Nat /\ \A c \in completed : c.day \in Int /\ c.day <= day
      /\ tree \in Trees \cup {FirstTree}
  BY DEF PagesInv, ServedKept, NotesInv, RowsKept, FilesKept
<1>2. CASE SiteStep
  <2>1. ASSUME NEW m \in Members, Join(m) \/ ChooseUsername(m) \/ ChoosePicture(m) \/ Earn(m)
        PROVE  ServedKept'
    BY <2>1 DEF PagesInv, ServedKept, Join, ChooseUsername, ChoosePicture, Earn
  <2>2. ASSUME NEW m \in Members, Leave(m)
        PROVE  ServedKept'
    BY <2>2 DEF PagesInv, ServedKept, Leave
  <2>3. ASSUME NEW m \in Members, Complete(m)
        PROVE  ServedKept'
    <3>1. PICK id : completed' = completed \cup {[member |-> m, lesson |-> id, day |-> day]}
      BY <2>3 DEF Complete
    <3>2. \A c \in completed' : c.day <= day
      BY <1>1, <3>1
    <3>. QED  BY <2>3, <3>2 DEF PagesInv, ServedKept, Complete
  <2>4. CASE NextDay
    BY <1>1, <2>4 DEF PagesInv, ServedKept, NextDay
  <2>. QED  BY <1>2, <2>1, <2>2, <2>3, <2>4 DEF SiteStep
<1>3. CASE Edit
  BY <1>3 DEF PagesInv, ServedKept, Edit, site
<1>4. CASE Release
  BY <1>1, <1>4 DEF PagesInv, ServedKept, Release
<1>5. CASE UNCHANGED notesVars
  BY <1>5 DEF PagesInv, ServedKept, notesVars, site
<1>. QED  BY <1>2, <1>3, <1>4, <1>5 DEF NotesNext

\* Two steps are enough to come to a page that answers.
LEMMA NoCircles ==
    ASSUME NEW m \in Members
    PROVE  NoOneIsSentInCircles(m)
<1>1. m # "unknown" /\ m # "signed out"
  BY AcademyPagesAssumption
<1>2. \A page \in Frame \cup {Onboarding} :
        page[1] # "sign-in" /\ (page = Onboarding \/ page # Onboarding)
  BY DEF Frame, Dashboard, Settings, Home, Progress, Onboarding
<1>3. Dashboard[1] # "sign-in" /\ Onboarding[1] # "sign-in" /\ Dashboard # Onboarding
  BY DEF Dashboard, Onboarding
<1>4. ASSUME NEW page \in Frame \cup {Onboarding}
      PROVE  Sent("unknown", page) = page /\ Sent("signed out", page) = SignInPage(page)
  BY <1>2 DEF Sent, OnboardingPage, RequireMember
<1>5. ASSUME NEW page \in Frame \cup {Onboarding}
      PROVE  LET lands == Sent(m, Sent(m, page)) IN Sent(m, lands) = lands
  <2>1. CASE accounts[m].username = None
    <3>1. Sent(m, page) = Onboarding /\ Sent(m, Onboarding) = Onboarding
      BY <1>1, <1>2, <1>3, <2>1 DEF Sent, OnboardingPage, RequireMember
    <3>. QED  BY <3>1
  <2>2. CASE accounts[m].username # None
    <3>1. Sent(m, Dashboard) = Dashboard /\ Sent(m, Onboarding) = Dashboard
      BY <1>1, <1>3, <2>2 DEF Sent, OnboardingPage, RequireMember
    <3>2. page # Onboarding => Sent(m, page) = page
      BY <1>1, <1>2, <2>2 DEF Sent, OnboardingPage, RequireMember
    <3>. QED  BY <3>1, <3>2
  <2>. QED  BY <2>1, <2>2
<1>. QED  BY <1>4, <1>5 DEF NoOneIsSentInCircles

\* A day of the heatmap is in its week's column.
LEMMA HeatmapFilled == day \in Nat => Range(Heatmap) = HeatmapStart..day
<1>. SUFFICES ASSUME day \in Nat
              PROVE  Range(Heatmap) = HeatmapStart..day
  OBVIOUS
<1>0. Weeks \in Nat /\ Weeks > 0 /\ Weekday(day) \in 0..6
  <2>1. Weeks \in Nat /\ ActiveDays \in 1..Weeks * 7 /\ FirstWeekday \in 0..6
    BY AcademyPagesAssumption
  <2>. QED  BY <2>1 DEF Weekday
<1>. DEFINE s == HeatmapStart
            cells == {c \in (0..(Weeks - 1)) \X (0..6) : DayAt(c[1], c[2]) <= day}
<1>1. s \in Int /\ s = day - Weekday(day) - (Weeks - 1) * 7
  BY <1>0 DEF HeatmapStart
<1>2. \A c \in (0..(Weeks - 1)) \X (0..6) : DayAt(c[1], c[2]) = s + c[1] * 7 + c[2] /\ c[1] \in 0..(Weeks - 1) /\ c[2] \in 0..6
  BY DEF DayAt
<1>3. Range(Heatmap) = {DayAt(c[1], c[2]) : c \in cells}
  BY DEF Range, Heatmap
<1>4. ASSUME NEW c \in cells
      PROVE  DayAt(c[1], c[2]) \in s..day
  <2>. HIDE DEF s
  <2>. QED  BY <1>0, <1>1, <1>2
<1>5. ASSUME NEW d \in s..day
      PROVE  \E c \in cells : DayAt(c[1], c[2]) = d
  <2>. DEFINE n == d - s
              c == <<n \div 7, n % 7>>
  <2>1. n \in Nat /\ n <= 6 + (Weeks - 1) * 7
    <3>. HIDE DEF s
    <3>. QED  BY <1>0, <1>1
  <2>2. n % 7 \in 0..6 /\ n \div 7 \in Nat /\ n = (n \div 7) * 7 + (n % 7)
    <3>. HIDE DEF n
    <3>. QED  BY <2>1
  <2>3. n \div 7 <= Weeks - 1
    <3>. HIDE DEF n
    <3>. QED  BY <2>1, <2>2, <1>0
  <2>4. c \in (0..(Weeks - 1)) \X (0..6) /\ c[1] = n \div 7 /\ c[2] = n % 7
    <3>. HIDE DEF n
    <3>. QED  BY <2>2, <2>3, <1>0
  <2>5. DayAt(c[1], c[2]) = s + n
    <3>1. DayAt(c[1], c[2]) = s + (n \div 7) * 7 + (n % 7)
      BY <2>4 DEF DayAt
    <3>. HIDE DEF s, n, c
    <3>. QED  BY <3>1, <2>1, <2>2, <1>1
  <2>6. s + n = d
    <3>. HIDE DEF s
    <3>. QED  BY <1>1
  <2>. HIDE DEF c, n
  <2>7. c \in cells
    BY <2>4, <2>5, <2>6
  <2>. QED  BY <2>5, <2>6, <2>7
<1>. HIDE DEF s, cells
<1>. QED  BY <1>3, <1>4, <1>5 DEF s

LEMMA DaysAreShown ==
    ASSUME PagesInv, NEW m \in Members
    PROVE  ActivityShown(m)
<1>0. day \in Nat /\ \A c \in DoneBy(m) : c.day \in Int /\ c.day <= day
  BY DEF PagesInv, ServedKept, NotesInv, RowsKept, DoneBy
<1>1. Weeks \in Nat /\ Weeks > 0 /\ ActiveDays \in 1..Weeks * 7 /\ Weekday(day) \in 0..6
  <2>1. Weeks \in Nat /\ ActiveDays \in 1..Weeks * 7 /\ FirstWeekday \in 0..6
    BY AcademyPagesAssumption
  <2>. QED  BY <1>0, <2>1 DEF Weekday
<1>2. HeatmapStart \in Int /\ HeatmapStart = day - Weekday(day) - (Weeks - 1) * 7
  BY <1>0, <1>1 DEF HeatmapStart
<1>3. Range(Heatmap) = HeatmapStart..day
  BY <1>0, HeatmapFilled
<1>4. DOMAIN Activity(m) = (day - Weeks * 7)..day
  BY DEF Activity
<1>5. HeatmapStart..day \subseteq (day - Weeks * 7)..day
  BY <1>0, <1>1, <1>2
<1>6. (day - ActiveDays + 1)..day \subseteq (day - Weeks * 7)..day
  BY <1>0, <1>1
<1>7. /\ <<Weeks - 1, Weekday(day)>> \in DOMAIN Heatmap
      /\ Heatmap[<<Weeks - 1, Weekday(day)>>] = day
  <2>. DEFINE c == <<Weeks - 1, Weekday(day)>>
  <2>1. c \in (0..(Weeks - 1)) \X (0..6)
    BY <1>1
  <2>2. DayAt(Weeks - 1, Weekday(day)) = day
    BY <1>0, <1>1, <1>2 DEF DayAt
  <2>. QED  BY <1>0, <2>1, <2>2 DEF Heatmap
<1>8. \A c \in DoneBy(m) : c.day >= HeatmapStart => c.day \in HeatmapStart..day
  BY <1>0, <1>2
<1>. QED  BY <1>3, <1>4, <1>5, <1>6, <1>7, <1>8 DEF ActivityShown

\* A member's standing in a chapter follows from what is in the chapter and what is done.
EntrySound(e, done) ==
    /\ e.open = {l \in DOMAIN e.chapter.lessons : ~e.course.soon /\ ~e.chapter.lessons[l].draft}
    /\ e.left = {l \in e.open : LessonId(e, l) \notin done}
    /\ e.written <=> DOMAIN e.chapter.lessons # {} /\ \A l \in DOMAIN e.chapter.lessons : ~e.chapter.lessons[l].draft

LEMMA EntryIs ==
    ASSUME NEW p, NEW k, NEW c, NEW done, NEW passed
    PROVE  LET e == Entry(p, k, c, done, passed) IN
           e.place = p /\ e.course = k /\ e.chapter = c /\ EntrySound(e, done)
<1>. DEFINE e == Entry(p, k, c, done, passed)
            open == {l \in DOMAIN c.lessons : ~k.soon /\ ~c.lessons[l].draft}
            left == {l \in open : c.lessons[l].id \notin done}
            written == DOMAIN c.lessons # {} /\ \A l \in DOMAIN c.lessons : ~c.lessons[l].draft
            test == c.test # None /\ ~k.soon
            through == test /\ c.id \in passed
<1>1. e = [place |-> p, chapter |-> c, course |-> k, open |-> open, left |-> left,
           test |-> test, passed |-> through, written |-> written]
  BY DEF Entry
<1>. HIDE DEF e, open, left, written, test, through
<1>2. /\ e.place = p /\ e.course = k /\ e.chapter = c /\ e.open = open /\ e.left = left
      /\ e.written = written
  BY <1>1
<1>3. EntrySound(e, done)
  <2>1. e.open = {l \in DOMAIN e.chapter.lessons : ~e.course.soon /\ ~e.chapter.lessons[l].draft}
    BY <1>2 DEF open
  <2>2. e.left = {l \in e.open : LessonId(e, l) \notin done}
    BY <1>2 DEF left, LessonId
  <2>3. e.written <=> DOMAIN e.chapter.lessons # {} /\ \A l \in DOMAIN e.chapter.lessons : ~e.chapter.lessons[l].draft
    BY <1>2 DEF written
  <2>. QED  BY <2>1, <2>2, <2>3 DEF EntrySound
<1>. QED  BY <1>2, <1>3 DEF e

\* What the pages rely on, whatever catalog the standing is that of.
Drawn(entries, done) ==
    /\ IsFiniteSet(entries)
    /\ \A e \in entries :
         /\ EntrySound(e, done) /\ e.chapter.number \in Int
         /\ IsFiniteSet(DOMAIN e.chapter.lessons) /\ DOMAIN e.chapter.lessons \subseteq Nat
         /\ \A l \in e.open : Open(served, LessonId(e, l))
    /\ \A e, x \in entries :
         /\ e.chapter.id = x.chapter.id => e = x
         /\ e = x \/ Earlier(e.place, x.place) \/ Earlier(x.place, e.place)
         /\ Earlier(e.place, x.place) => e.chapter.number < x.chapter.number

LEMMA StandingDrawn ==
    ASSUME NEW t, Loads(t), FilesShaped(t), served = Courses(t), NEW done, NEW passed
    PROVE  Drawn(Standing(served, done, passed), done)
<1>. DEFINE entries == Standing(served, done, passed)
            E(p) == Entry(p, served[p[1]], ChapterAt(served, p), done, passed)
<1>0. EntriesFine(t) /\ IdsDiffer(served)
  BY DEF Loads
<1>1. entries = {E(p) : p \in ChapterPlaces(served)}
  BY DEF Standing
<1>2. ASSUME NEW p
      PROVE  E(p).place = p /\ E(p).course = served[p[1]] /\ E(p).chapter = ChapterAt(served, p) /\ EntrySound(E(p), done)
  <2>. DEFINE k == served[p[1]]
              c == ChapterAt(served, p)
  <2>. HIDE DEF k, c
  <2>1. LET e == Entry(p, k, c, done, passed) IN
        e.place = p /\ e.course = k /\ e.chapter = c /\ EntrySound(e, done)
    BY EntryIs
  <2>. QED  BY <2>1 DEF k, c
<1>3. /\ ChapterFiles(t) = ChapterPlaces(served)
      /\ IsFiniteSet(ChapterPlaces(served)) /\ \A p \in ChapterPlaces(served) : p \in Nat \X Nat
      /\ \A p \in ChapterPlaces(served) : ChapterAt(served, p).number = Number(t, p)
  BY <1>0, FilePlacesAre, ChapterFilesFinite
<1>4. IsFiniteSet(entries)
  <2>. DEFINE f == [p \in ChapterPlaces(served) |-> E(p)]
  <2>1. f \in Surjection(ChapterPlaces(served), entries)
    BY <1>1 DEF Surjection
  <2>. HIDE DEF f, entries
  <2>. QED  BY <2>1, <1>3, FS_Surjection
<1>. HIDE DEF E
<1>5. ASSUME NEW p \in ChapterPlaces(served)
      PROVE  /\ E(p).chapter.number \in Int
             /\ IsFiniteSet(DOMAIN E(p).chapter.lessons) /\ DOMAIN E(p).chapter.lessons \subseteq Nat
             /\ \A l \in E(p).open : Open(served, LessonId(E(p), l))
  <2>1. E(p).chapter.number \in Int
    <3>1. IsFiniteSet({q \in ChapterFiles(t) : Earlier(q, p)})
      BY <1>3, FS_Subset
    <3>2. Number(t, p) \in Int
      BY <3>1, FS_CardinalityType DEF Number
    <3>. QED  BY <1>2, <1>3, <3>2
  <2>2. PICK i \in DOMAIN served : \E j \in DOMAIN served[i].chapters : p = <<i, j>>
    BY PlacesAre
  <2>3. PICK j \in DOMAIN served[i].chapters : p = <<i, j>>
    BY <2>2
  <2>4. i \in DOMAIN t /\ j \in DOMAIN t[i].chapters
    BY <1>0, CatalogOf
  <2>5. DOMAIN ChapterAt(served, p).lessons = DOMAIN t[i].chapters[j].files
    <3>1. IsChapterOf(Courses(t)[i].chapters[j], t[i].chapters[j], Number(t, <<i, j>>))
      BY <1>0, <2>4, ChapterOf
    <3>. QED  BY <2>3, <3>1 DEF ChapterAt, IsChapterOf
  <2>6. Listing(t[i].chapters[j].files)
    BY <2>4 DEF FilesShaped
  <2>7. IsFiniteSet(DOMAIN ChapterAt(served, p).lessons) /\ DOMAIN ChapterAt(served, p).lessons \subseteq Nat
    <3>. DEFINE s == t[i].chapters[j].files
    <3>1. Len(s) \in Nat /\ DOMAIN s = 1..Len(s)
      BY <2>6 DEF Listing
    <3>2. IsFiniteSet(1..Len(s))
      BY <3>1, FS_Interval
    <3>. QED  BY <3>1, <3>2, <2>5
  <2>8. ASSUME NEW l \in E(p).open
        PROVE  Open(served, LessonId(E(p), l))
    <3>1. l \in DOMAIN ChapterAt(served, p).lessons /\ ~served[p[1]].soon /\ ~ChapterAt(served, p).lessons[l].draft
      BY <1>2 DEF EntrySound
    <3>. DEFINE q == <<p, l>>
    <3>2. q \in LessonPlaces(served)
      BY <3>1 DEF LessonPlaces
    <3>3. LessonAt(served, q) = ChapterAt(served, p).lessons[l] /\ q[1] = p
      BY DEF LessonAt
    <3>. HIDE DEF q
    <3>4. LessonId(E(p), l) = LessonAt(served, q).id
      BY <1>2, <3>3 DEF LessonId
    <3>. QED  BY <3>1, <3>2, <3>3, <3>4 DEF Open
  <2>. QED  BY <1>2, <2>1, <2>7, <2>8
<1>6. ASSUME NEW p \in ChapterPlaces(served), NEW q \in ChapterPlaces(served)
      PROVE  /\ E(p).chapter.id = E(q).chapter.id => p = q
             /\ p = q \/ Earlier(E(p).place, E(q).place) \/ Earlier(E(q).place, E(p).place)
             /\ Earlier(E(p).place, E(q).place) => E(p).chapter.number < E(q).chapter.number
  <2>1. ChapterAt(served, p).id = ChapterAt(served, q).id => p = q
    BY <1>0, IdsAt
  <2>2. p = q \/ Earlier(p, q) \/ Earlier(q, p)
    BY <1>3 DEF Earlier
  <2>3. Earlier(p, q) => Number(t, p) < Number(t, q)
    BY <1>0, <1>3, NumberedThrough
  <2>. QED  BY <1>2, <1>3, <2>1, <2>2, <2>3
<1>. HIDE DEF entries
<1>. QED  BY <1>1, <1>2, <1>4, <1>5, <1>6 DEF Drawn, entries

LEMMA MinIs ==
    ASSUME NEW S \in SUBSET Nat, S # {}
    PROVE  Min(S) \in S /\ \A l \in S : Min(S) <= l
<1>1. PICK n \in S : TRUE
  OBVIOUS
<1>2. \E x \in S : \A y \in S : x <= y
  BY Smallest
<1>. QED  BY <1>2 DEF Min

LEMMA LeftIs ==
    ASSUME NEW done, NEW entries, Drawn(entries, done), NEW e \in entries
    PROVE  /\ e.left \subseteq e.open /\ e.open \subseteq DOMAIN e.chapter.lessons
           /\ e.open \in SUBSET Nat /\ e.left \in SUBSET Nat /\ IsFiniteSet(e.left)
           /\ \A l \in e.open : l \in e.left <=> LessonId(e, l) \notin done
           /\ e.left # {} => Min(e.left) \in e.left
<1>1. EntrySound(e, done) /\ IsFiniteSet(DOMAIN e.chapter.lessons) /\ DOMAIN e.chapter.lessons \subseteq Nat
  BY DEF Drawn
<1>2. /\ e.left \subseteq e.open /\ e.open \subseteq DOMAIN e.chapter.lessons
      /\ \A l \in e.open : l \in e.left <=> LessonId(e, l) \notin done
  BY <1>1 DEF EntrySound
<1>3. e.left \in SUBSET DOMAIN e.chapter.lessons
  BY <1>2
<1>4. IsFiniteSet(e.left)
  BY <1>1, <1>3, FS_Subset
<1>5. e.left \in SUBSET Nat /\ e.open \in SUBSET Nat
  BY <1>1, <1>2
<1>. QED  BY <1>2, <1>4, <1>5, MinIs

\* The chapter of a page is the one entry with its id.
LEMMA OfIs ==
    ASSUME NEW done, NEW entries, Drawn(entries, done), NEW e \in entries
    PROVE  Of(entries, e.chapter.id) = e
<1>1. \A x \in entries : x.chapter.id = e.chapter.id => x = e
  BY DEF Drawn
<1>. QED  BY <1>1 DEF Of

\* Of a finite set of chapters one is before the others.
LEMMA FirstIs ==
    ASSUME NEW done, NEW entries, Drawn(entries, done), NEW some \in SUBSET entries, some # {}
    PROVE  \E e \in some : FirstOf(some) = {e} /\ \A x \in some : x = e \/ e.chapter.number < x.chapter.number
<1>. DEFINE R == {p \in some \X some : Earlier(p[1].place, p[2].place)}
            f == [x \in some |-> Cardinality(BeforeIn(some, R, x))]
<1>1. IsFiniteSet(some) /\ Cardinality(some) \in Nat
  BY FS_Subset, FS_CardinalityType DEF Drawn
<1>2. \A e, x \in some : /\ e = x \/ Earlier(e.place, x.place) \/ Earlier(x.place, e.place)
                         /\ Earlier(e.place, x.place) => e.chapter.number < x.chapter.number
                         /\ e.chapter.number \in Int
  BY DEF Drawn
<1>3. \A e \in some : ~Earlier(e.place, e.place)
  BY <1>2
<1>4. \A e, x \in some : <<e, x>> \in R <=> Earlier(e.place, x.place)
  OBVIOUS
<1>. HIDE DEF R
<1>5. \A e, x \in some : Earlier(e.place, x.place) <=> e.chapter.number < x.chapter.number
  BY <1>2
<1>6. Orders(R, some)
  BY <1>2, <1>4, <1>5 DEF Orders
<1>7. f \in Bijection(some, 0..Cardinality(some) - 1) /\ \A x, y \in some : <<x, y>> \in R => f[x] < f[y]
  BY <1>1, <1>6, CountedThrough
<1>. HIDE DEF f
<1>8. Cardinality(some) > 0
  BY <1>1, FS_EmptySet
<1>9. /\ \A x \in some : f[x] \in 0..Cardinality(some) - 1
      /\ \A n \in 0..Cardinality(some) - 1 : \E x \in some : f[x] = n
  BY <1>7 DEF Bijection, Injection, Surjection
<1>10. PICK e \in some : f[e] = 0
  BY <1>1, <1>8, <1>9
<1>11. \A x \in some : x = e \/ Earlier(e.place, x.place)
  <2>1. ASSUME NEW x \in some, <<x, e>> \in R
        PROVE  FALSE
    <3>1. f[x] < f[e] /\ f[x] \in 0..Cardinality(some) - 1
      BY <1>7, <1>9, <2>1
    <3>. QED  BY <1>1, <1>10, <3>1
  <2>. QED  BY <2>1, <1>2, <1>4
<1>12. \A x \in some : Earlier(x.place, e.place) => FALSE
  BY <1>11, <1>5, <1>2
<1>13. FirstOf(some) = {e}
  BY <1>11, <1>12 DEF FirstOf
<1>. QED  BY <1>5, <1>11, <1>13

\* A page that leads on to a lesson or a checkpoint.
LEMMA GoOnIs ==
    ASSUME NEW done, NEW entries, Drawn(entries, done), NEW e \in entries, e.open # {}, ~IsComplete(e)
    PROVE  /\ Found(entries, GoOn(e)) /\ GoOn(e)[2] = e.chapter.id
           /\ GoOn(e)[1] = "lesson" => GoOn(e)[3] \notin done /\ Open(served, GoOn(e)[3])
           /\ GoOn(e)[1] = "checkpoint" => LessonsDone(e) /\ ~e.passed
<1>1. CASE e.left # {}
  <2>. DEFINE l == Min(e.left)
  <2>1. l \in e.left /\ l \in e.open /\ LessonId(e, l) \notin done
    BY <1>1, LeftIs
  <2>2. Open(served, LessonId(e, l))
    BY <2>1 DEF Drawn
  <2>. HIDE DEF l
  <2>3. GoOn(e) = <<"lesson", e.chapter.id, LessonId(e, l)>>
    BY <1>1 DEF GoOn, LessonPage, l
  <2>. QED  BY <2>1, <2>2, <2>3 DEF Found, LessonPage
<1>2. CASE e.left = {}
  <2>1. GoOn(e) = <<"checkpoint", e.chapter.id>>
    BY <1>2 DEF GoOn, CheckpointPage
  <2>2. LessonsDone(e) /\ e.test /\ ~e.passed
    BY <1>2 DEF LessonsDone, IsComplete
  <2>. QED  BY <2>1, <2>2 DEF Found, CheckpointPage
<1>. QED  BY <1>1, <1>2

LEMMA OneGoesOn ==
    ASSUME NEW m, NEW entries, Drawn(entries, Done(m))
    PROVE  ContinueLeads(m, entries)
<1>. DEFINE some == {e \in entries : e.open # {} /\ ~IsComplete(e)}
<1>1. NextUp(entries) = FirstOf(some)
  BY DEF NextUp
<1>2. CASE some = {}
  <2>1. Continue(entries) = {}
    BY <1>1, <1>2 DEF Continue, FirstOf
  <2>2. ASSUME NEW e \in entries, e.open # {}
        PROVE  {LessonId(e, l) : l \in e.open} \subseteq Done(m) /\ (e.test => e.passed)
    <3>1. e.left = {} /\ (e.test => e.passed)
      BY <1>2, <2>2 DEF IsComplete, LessonsDone
    <3>. QED  BY <3>1, LeftIs
  <2>. QED  BY <2>1, <2>2 DEF ContinueLeads
<1>3. CASE some # {}
  <2>1. PICK e \in some : FirstOf(some) = {e} /\ \A x \in some : x = e \/ e.chapter.number < x.chapter.number
    <3>1. some \in SUBSET entries
      OBVIOUS
    <3>. HIDE DEF some
    <3>. QED  BY <1>3, <3>1, FirstIs
  <2>2. Continue(entries) = {GoOn(e)}
    <3>1. NextUp(entries) = {e}
      BY <1>1, <2>1
    <3>. QED  BY <3>1 DEF Continue
  <2>3. /\ Found(entries, GoOn(e)) /\ GoOn(e)[2] = e.chapter.id
        /\ GoOn(e)[1] = "lesson" => GoOn(e)[3] \notin Done(m) /\ Open(served, GoOn(e)[3])
        /\ GoOn(e)[1] = "checkpoint" => LessonsDone(e) /\ ~e.passed
    BY GoOnIs
  <2>4. Of(entries, GoOn(e)[2]) = e
    BY <2>3, OfIs
  <2>5. \A x \in entries : x.chapter.number < e.chapter.number /\ x.open # {} => IsComplete(x)
    BY <2>1 DEF Drawn
  <2>. HIDE DEF some
  <2>. QED  BY <2>2, <2>3, <2>4, <2>5 DEF ContinueLeads
<1>. QED  BY <1>2, <1>3

\* A complete chapter that is written has all its lessons done.
LEMMA CompleteMeans ==
    ASSUME NEW done, NEW entries, Drawn(entries, done), NEW e \in entries, ~e.course.soon, IsComplete(e)
    PROVE  /\ e.written => {LessonId(e, l) : l \in DOMAIN e.chapter.lessons} \subseteq done
           /\ ChapterStatus(e) = "complete"
           /\ e.written \/ \E l \in DOMAIN e.chapter.lessons : e.chapter.lessons[l].draft
<1>1. e.open # {} /\ e.left = {}
  BY DEF IsComplete, LessonsDone
<1>2. EntrySound(e, done)
  BY DEF Drawn
<1>3. e.written => {LessonId(e, l) : l \in DOMAIN e.chapter.lessons} \subseteq done
  BY <1>1, <1>2 DEF EntrySound
<1>4. e.written \/ \E l \in DOMAIN e.chapter.lessons : e.chapter.lessons[l].draft
  BY <1>1, <1>2 DEF EntrySound
<1>. QED  BY <1>1, <1>3, <1>4 DEF ChapterStatus

LEMMA CountedFinite ==
    ASSUME NEW done, NEW entries, Drawn(entries, done), NEW n
    PROVE  /\ IsFiniteSet(Counted(entries, n)) /\ Cardinality(Counted(entries, n)) \in Nat
           /\ Cardinality(Counted(entries, n)) > 0 => Counted(entries, n) # {}
           /\ ChaptersDone(entries, n) = Cardinality(Counted(entries, n)) =>
                \A e \in Counted(entries, n) : IsComplete(e)
<1>. DEFINE C == Counted(entries, n)
            D == {e \in C : IsComplete(e)}
<1>1. C \in SUBSET entries
  BY DEF Counted
<1>2. IsFiniteSet(C) /\ Cardinality(C) \in Nat
  BY <1>1, FS_Subset, FS_CardinalityType DEF Drawn
<1>3. Cardinality(C) > 0 => C # {}
  BY FS_EmptySet
<1>4. Cardinality(D) = Cardinality(C) => D = C
  <2>1. D \in SUBSET C
    OBVIOUS
  <2>. HIDE DEF C, D
  <2>. QED  BY <1>2, <2>1, FS_Subset
<1>. QED  BY <1>2, <1>3, <1>4 DEF ChaptersDone

LEMMA LevelsAreShown ==
    ASSUME NEW m, NEW entries, Drawn(entries, Done(m))
    PROVE  LevelsShown(m, entries)
<1>. DEFINE complete == LevelsComplete(entries)
<1>1. ASSUME NEW n \in complete, NEW e \in Counted(entries, n)
      PROVE  /\ {LessonId(e, l) : l \in DOMAIN e.chapter.lessons} \subseteq Done(m)
             /\ ChapterStatus(e) = "complete"
  <2>1. e \in entries /\ ~e.course.soon /\ e.written /\ IsComplete(e)
    BY DEF LevelsComplete, Counted
  <2>. QED  BY <2>1, CompleteMeans
<1>2. ASSUME NEW stored \in Stored, NEW n \in DOMAIN LevelStep
      PROVE  LET steps == StepsShown(complete, stored)
                 line == LevelLine(entries, steps, n) IN
             /\ line[1] = "chapters" /\ line[2] = line[3] /\ line[3] > 0 =>
                  \E e \in Counted(entries, n) : \E l \in DOMAIN e.chapter.lessons : e.chapter.lessons[l].draft
             /\ (\E linked \in BOOLEAN : RankSaid(steps, linked) # "to earn") => line = <<"complete">>
  <2>. DEFINE steps == StepsShown(complete, stored)
              line == LevelLine(entries, steps, n)
  <2>1. /\ \A k \in complete : LevelStep[k] \in steps
        /\ stored \subseteq steps
        /\ Bronze \in steps => Bronze \in stored \/ DOMAIN LevelStep \subseteq complete
    <3>1. Bronze \notin {LevelStep[k] : k \in complete}
      <4>1. \A k \in complete : k \in DOMAIN LevelStep
        BY DEF LevelsComplete
      <4>. HIDE DEF complete
      <4>. QED  BY <4>1, AcademyPagesAssumption DEF Range
    <3>. HIDE DEF complete
    <3>. QED  BY <3>1 DEF StepsShown
  <2>2. Bronze \in stored => LevelStep[n] \in stored
    BY DEF Stored, Range
  <2>3. Bronze \in steps => LevelStep[n] \in steps
    <3>. HIDE DEF complete, steps
    <3>. QED  BY <2>1, <2>2
  <2>4. (\E linked \in BOOLEAN : RankSaid(steps, linked) # "to earn") => line = <<"complete">>
    <3>1. (\E linked \in BOOLEAN : RankSaid(steps, linked) # "to earn") => Bronze \in steps
      BY DEF RankSaid
    <3>. HIDE DEF complete, steps
    <3>. QED  BY <2>3, <3>1 DEF LevelLine
  <2>5. ASSUME line[1] = "chapters", line[2] = line[3], line[3] > 0
        PROVE  \E e \in Counted(entries, n) : \E l \in DOMAIN e.chapter.lessons : e.chapter.lessons[l].draft
    <3>1. /\ LevelStep[n] \notin steps
          /\ ChaptersDone(entries, n) = Cardinality(Counted(entries, n)) /\ Cardinality(Counted(entries, n)) > 0
      <4>. HIDE DEF steps
      <4>. QED  BY <2>5 DEF LevelLine
    <3>2. n \notin complete
      <4>. HIDE DEF steps, complete
      <4>. QED  BY <2>1, <3>1
    <3>3. Counted(entries, n) # {} /\ \A e \in Counted(entries, n) : IsComplete(e)
      BY <3>1, CountedFinite
    <3>4. PICK e \in Counted(entries, n) : ~e.written
      BY <3>2, <3>3 DEF LevelsComplete
    <3>5. e \in entries /\ ~e.course.soon
      BY DEF Counted
    <3>6. \E l \in DOMAIN e.chapter.lessons : e.chapter.lessons[l].draft
      BY <3>3, <3>4, <3>5, CompleteMeans
    <3>. QED  BY <3>6
  <2>. QED  BY <2>4, <2>5
<1>. QED  BY <1>1, <1>2 DEF LevelsShown

\* A page that is there; a checkpoint only if something of its chapter can be opened.
There(entries, page) ==
    /\ Found(entries, page)
    /\ page[1] = "checkpoint" => \E e \in entries : page = CheckpointPage(e) /\ e.open # {}

\* What a page is, when it is there.
LEMMA ThereIs ==
    ASSUME NEW entries, NEW e \in entries
    PROVE  /\ There(entries, ChapterPage(e))
           /\ e.test /\ e.open # {} => There(entries, CheckpointPage(e))
           /\ \A l \in e.open : There(entries, LessonPage(e, l))
           /\ CheckpointCard(e) \subseteq {CheckpointPage(e)}
           /\ CheckpointCard(e) # {} => e.test /\ e.open # {}
<1>1. There(entries, ChapterPage(e))
  BY DEF There, Found, ChapterPage
<1>2. e.test /\ e.open # {} => There(entries, CheckpointPage(e))
  BY DEF There, Found, CheckpointPage
<1>3. ASSUME NEW l \in e.open
      PROVE  There(entries, LessonPage(e, l))
  BY DEF There, Found, LessonPage
<1>4. /\ CheckpointCard(e) \subseteq {CheckpointPage(e)}
      /\ CheckpointCard(e) # {} => e.test /\ e.open # {}
  BY DEF CheckpointCard, LessonsDone
<1>. QED  BY <1>1, <1>2, <1>3, <1>4

\* The pages without anything they are about.
LEMMA PlainPages ==
    ASSUME NEW entries, NEW page \in Frame \cup RankCardLinks
    PROVE  There(entries, page)
BY DEF There, Found, Frame, RankCardLinks, Dashboard, Settings, Home, Progress, RanksPage

LEMMA HomeLeads ==
    ASSUME NEW done, NEW entries, Drawn(entries, done), NEW page \in HomeLinks(entries)
    PROVE  There(entries, page)
<1>1. ASSUME page \in Continue(entries)
      PROVE  There(entries, page)
  <2>1. PICK e \in entries : page = GoOn(e) /\ e.open # {} /\ ~IsComplete(e)
    BY <1>1 DEF Continue, NextUp, FirstOf
  <2>2. CASE e.left # {}
    <3>1. Min(e.left) \in e.open
      BY <2>2, LeftIs
    <3>. QED  BY <2>1, <2>2, <3>1, ThereIs DEF GoOn
  <2>3. CASE e.left = {}
    <3>1. e.test
      BY <2>1, <2>3 DEF IsComplete, LessonsDone
    <3>. QED  BY <2>1, <2>3, <3>1, ThereIs DEF GoOn
  <2>. QED  BY <2>2, <2>3
<1>2. ASSUME page \in ChapterCards(entries)
      PROVE  There(entries, page)
  <2>1. PICK e \in entries : page = ChapterPage(e)
    BY <1>2 DEF ChapterCards
  <2>. QED  BY <2>1, ThereIs
<1>. QED  BY <1>1, <1>2 DEF HomeLinks

\* Down the side of a lesson, and the rows and the card of a chapter.
LEMMA RailLeads ==
    ASSUME NEW entries, NEW e \in entries,
           NEW page \in Rail(e)
    PROVE  There(entries, page)
<1>0. page = ChapterPage(e) \/ page \in LessonRows(e) \/ page \in CheckpointCard(e)
  BY DEF Rail, ChapterLinks
<1>1. CASE page = ChapterPage(e)
  BY <1>1, ThereIs
<1>2. CASE page \in LessonRows(e)
  BY <1>2, ThereIs DEF LessonRows
<1>3. CASE page \in CheckpointCard(e)
  BY <1>3, ThereIs
<1>. QED  BY <1>0, <1>1, <1>2, <1>3

LEMMA AfterLeads ==
    ASSUME NEW done, NEW entries, Drawn(entries, done), NEW e \in entries, e.open # {}, NEW id
    PROVE  There(entries, After(e, id))
<1>. DEFINE later == {l \in e.open : \E k \in e.open : k < l /\ LessonId(e, k) = id}
<1>1. CASE later # {}
  <2>1. later \in SUBSET Nat
    BY LeftIs
  <2>2. Min(later) \in later
    <3>. HIDE DEF later
    <3>. QED  BY <1>1, <2>1, MinIs
  <2>3. Min(later) \in e.open
    BY <2>2
  <2>4. After(e, id) = LessonPage(e, Min(later))
    BY <1>1 DEF After
  <2>. HIDE DEF later
  <2>. QED  BY <2>3, <2>4, ThereIs
<1>2. CASE later = {}
  <2>1. After(e, id) = IF e.test /\ ~e.passed THEN CheckpointPage(e) ELSE Home
    BY <1>2 DEF After
  <2>2. There(entries, Home)
    BY PlainPages DEF Frame
  <2>. HIDE DEF later
  <2>. QED  BY <2>1, <2>2, ThereIs
<1>. QED  BY <1>1, <1>2

\* The kinds of pages exclude each other.
LEMMA KindsOfPages ==
    ASSUME NEW e, NEW l
    PROVE  /\ ChapterPage(e)[1] = "chapter" /\ ChapterPage(e)[2] = e.chapter.id
           /\ LessonPage(e, l)[1] = "lesson" /\ LessonPage(e, l)[2] = e.chapter.id
           /\ CheckpointPage(e)[1] = "checkpoint" /\ CheckpointPage(e)[2] = e.chapter.id
           /\ Home[1] = "academy" /\ Progress[1] = "progress"
BY DEF ChapterPage, LessonPage, CheckpointPage, Home, Progress

LEMMA LinksOf ==
    ASSUME NEW entries, NEW page
    PROVE  /\ page = Home => Links(entries, page) = Frame \cup HomeLinks(entries)
           /\ page # Home /\ page[1] = "chapter" =>
                Links(entries, page) = Frame \cup ChapterLinks(Of(entries, page[2]))
           /\ page # Home /\ page[1] = "lesson" =>
                Links(entries, page) = Frame \cup LessonLinks(Of(entries, page[2]), page[3])
           /\ page # Home /\ page[1] = "checkpoint" =>
                Links(entries, page) = Frame \cup CheckpointLinks(entries, Of(entries, page[2]))
           /\ page # Home /\ page[1] \notin {"chapter", "lesson", "checkpoint"} =>
                Links(entries, page) \subseteq Frame \cup RankCardLinks
<1>1. Home[1] = "academy" /\ Progress[1] = "progress"
  BY DEF Home, Progress
<1>2. page = Home => Links(entries, page) = Frame \cup HomeLinks(entries)
  BY <1>1 DEF Links
<1>3. page # Home /\ page[1] = "chapter" => Links(entries, page) = Frame \cup ChapterLinks(Of(entries, page[2]))
  BY <1>1 DEF Links
<1>4. page # Home /\ page[1] = "lesson" =>
        Links(entries, page) = Frame \cup LessonLinks(Of(entries, page[2]), page[3])
  BY <1>1 DEF Links
<1>5. page # Home /\ page[1] = "checkpoint" =>
        Links(entries, page) = Frame \cup CheckpointLinks(entries, Of(entries, page[2]))
  BY <1>1 DEF Links
<1>6. page # Home /\ page[1] \notin {"chapter", "lesson", "checkpoint"} =>
        Links(entries, page) \subseteq Frame \cup RankCardLinks
  BY <1>1 DEF Links
<1>. QED  BY <1>2, <1>3, <1>4, <1>5, <1>6

\* No page that is there leads to one that is not.
LEMMA LinksAreThere ==
    ASSUME NEW done, NEW entries, Drawn(entries, done), NEW page, There(entries, page),
           NEW next \in Links(entries, page)
    PROVE  There(entries, next)
<1>1. CASE next \in Frame
  BY <1>1, PlainPages
<1>2. CASE page = Home /\ next \notin Frame
  <2>1. next \in HomeLinks(entries)
    BY <1>2, LinksOf
  <2>. QED  BY <2>1, HomeLeads
<1>3. CASE page[1] = "chapter" /\ next \notin Frame
  <2>1. page # Home
    BY <1>3, KindsOfPages
  <2>2. PICK e \in entries : page = ChapterPage(e)
    BY <1>3 DEF There, Found
  <2>3. Of(entries, page[2]) = e
    BY <2>2, OfIs, KindsOfPages
  <2>4. next \in ChapterLinks(e)
    BY <1>3, <2>1, <2>3, LinksOf
  <2>. QED  BY <2>4, RailLeads DEF Rail
<1>4. CASE page[1] = "lesson" /\ next \notin Frame
  <2>1. page # Home /\ page[1] # "chapter"
    BY <1>4, KindsOfPages
  <2>2. PICK e \in entries : \E l \in e.open : page = LessonPage(e, l)
    BY <1>4 DEF There, Found
  <2>3. Of(entries, page[2]) = e /\ e.open # {}
    BY <2>2, OfIs, KindsOfPages
  <2>4. next \in LessonLinks(e, page[3])
    BY <1>4, <2>1, <2>3, LinksOf
  <2>5. next = After(e, page[3]) \/ next \in Rail(e)
    BY <2>4 DEF LessonLinks
  <2>. QED  BY <2>3, <2>5, RailLeads, AfterLeads
<1>5. CASE page[1] = "checkpoint" /\ next \notin Frame
  <2>1. page # Home /\ page[1] # "chapter" /\ page[1] # "lesson"
    BY <1>5, KindsOfPages
  <2>2. PICK e \in entries : page = CheckpointPage(e)
    BY <1>5 DEF There, Found
  <2>3. Of(entries, page[2]) = e
    BY <2>2, OfIs, KindsOfPages
  <2>4. next \in CheckpointLinks(entries, e)
    BY <1>5, <2>1, <2>3, LinksOf
  <2>5. next = ChapterPage(e) \/ \E x \in entries : \E l \in x.open : next = LessonPage(x, l)
    BY <2>4 DEF CheckpointLinks, Rereads
  <2>. QED  BY <2>5, ThereIs
<1>6. CASE page # Home /\ page[1] \notin {"chapter", "lesson", "checkpoint"} /\ next \notin Frame
  <2>1. next \in RankCardLinks
    BY <1>6, LinksOf
  <2>. QED  BY <2>1, PlainPages
<1>. QED  BY <1>1, <1>2, <1>3, <1>4, <1>5, <1>6

LEMMA FollowedThere ==
    ASSUME NEW done, NEW entries, Drawn(entries, done), NEW pages, \A page \in pages : There(entries, page)
    PROVE  \A page \in Followed(entries, pages) : There(entries, page)
<1>. SUFFICES ASSUME NEW page \in Followed(entries, pages)
              PROVE  There(entries, page)
  OBVIOUS
<1>1. CASE page \in pages
  BY <1>1
<1>2. CASE page \notin pages
  <2>1. PICK before \in pages : page \in Links(entries, before)
    BY <1>2 DEF Followed
  <2>. QED  BY <2>1, LinksAreThere
<1>. QED  BY <1>1, <1>2

LEMMA AllReachedThere ==
    ASSUME NEW done, NEW entries, Drawn(entries, done)
    PROVE  \A page \in Reached(entries) : There(entries, page)
<1>. DEFINE one == Followed(entries, {Home})
            two == Followed(entries, one)
<1>1. \A page \in {Home} : There(entries, page)
  BY PlainPages DEF Frame
<1>2. \A page \in one : There(entries, page)
  BY <1>1, FollowedThere
<1>. HIDE DEF one
<1>3. \A page \in two : There(entries, page)
  BY <1>2, FollowedThere
<1>. HIDE DEF two
<1>4. \A page \in Followed(entries, two) : There(entries, page)
  BY <1>3, FollowedThere
<1>. QED  BY <1>4 DEF Reached, one, two

\* From the home by a chapter's card to its lessons and its checkpoint.
LEMMA ChapterReached ==
    ASSUME NEW done, NEW entries, Drawn(entries, done), NEW e \in entries, e.open # {},
           NEW page \in LessonRows(e) \cup CheckpointCard(e)
    PROVE  page \in Reached(entries)
<1>. DEFINE one == Followed(entries, {Home})
            two == Followed(entries, one)
<1>1. ChapterPage(e) \in Links(entries, Home)
  BY LinksOf DEF HomeLinks, ChapterCards
<1>2. ChapterPage(e) \in one
  BY <1>1 DEF Followed
<1>3. page \in Links(entries, ChapterPage(e))
  <2>1. ChapterPage(e)[1] = "chapter" /\ ChapterPage(e) # Home /\ Of(entries, ChapterPage(e)[2]) = e
    BY OfIs, KindsOfPages
  <2>. QED  BY <2>1, LinksOf DEF ChapterLinks
<1>. HIDE DEF one
<1>4. page \in two
  BY <1>2, <1>3 DEF Followed
<1>. HIDE DEF two
<1>5. page \in Followed(entries, two)
  BY <1>4 DEF Followed
<1>. QED  BY <1>5 DEF Reached, one, two

LEMMA LinksAllLead ==
    ASSUME NEW m, NEW entries, Drawn(entries, Done(m))
    PROVE  LinksLead(m, entries)
<1>. DEFINE reached == Reached(entries)
<1>1. \A page \in reached : There(entries, page)
  BY AllReachedThere
<1>2. ASSUME NEW e \in entries, NEW l \in e.open
      PROVE  LessonPage(e, l) \in reached
  <2>1. LessonPage(e, l) \in LessonRows(e)
    BY DEF LessonRows
  <2>. QED  BY <2>1, ChapterReached
<1>3. ASSUME NEW e \in entries, e.test, LessonsDone(e)
      PROVE  CheckpointPage(e) \in reached
  <2>1. CheckpointPage(e) \in CheckpointCard(e) /\ e.open # {}
    BY <1>3 DEF CheckpointCard, LessonsDone
  <2>. QED  BY <2>1, ChapterReached
<1>4. ASSUME NEW e \in entries, CheckpointPage(e) \in reached, ~LessonsDone(e)
      PROVE  Remaining(e) > 0
  <2>1. PICK x \in entries : CheckpointPage(e) = CheckpointPage(x) /\ x.open # {}
    BY <1>1, <1>4, KindsOfPages DEF There
  <2>2. e.chapter.id = x.chapter.id
    BY <2>1, KindsOfPages
  <2>3. e = x
    BY <2>2 DEF Drawn
  <2>4. e.left # {} /\ IsFiniteSet(e.left)
    BY <1>4, <2>1, <2>3, LeftIs DEF LessonsDone
  <2>5. Cardinality(e.left) \in Nat /\ Cardinality(e.left) # 0
    BY <2>4, FS_CardinalityType, FS_EmptySet
  <2>. QED  BY <2>5 DEF Remaining
<1>5. ASSUME NEW e \in entries, NEW l, Current(e, l)
      PROVE  LessonId(e, l) \notin Done(m) /\ ChapterStatus(e) # "complete"
  <2>1. l \in e.left
    BY <1>5 DEF Current
  <2>2. LessonId(e, l) \notin Done(m)
    BY <2>1, LeftIs
  <2>3. ~IsComplete(e)
    BY <2>1 DEF IsComplete, LessonsDone
  <2>. QED  BY <2>2, <2>3 DEF ChapterStatus
<1>6. \A page \in reached : Found(entries, page)
  BY <1>1 DEF There
<1>. HIDE DEF reached
<1>. QED  BY <1>2, <1>3, <1>4, <1>5, <1>6 DEF LinksLead, reached

\* Whatever the catalog has become since members did what they did, the Academy's pages show
\* each of them where they stand and lead them on: no link to a page that is not there, no
\* lesson or checkpoint passed over, no level said to be complete that is not (standing.ts:104-173,
\* load.ts:28-81 and the pages below /academy).
THEOREM PagesAlwaysLead == NotesSpec => []PagesLead
<1>1. PagesInv => PagesLead
  <2>. SUFFICES ASSUME PagesInv, NEW m \in Present, NEW passed \in SUBSET Checkpoints
                PROVE  /\ ActivityShown(m) /\ NoOneIsSentInCircles(m)
                       /\ LET entries == Standing(served, Done(m), passed) IN
                          ContinueLeads(m, entries) /\ LevelsShown(m, entries) /\ LinksLead(m, entries)
    <3>1. {} \in SUBSET Checkpoints
      OBVIOUS
    <3>. QED  BY <3>1 DEF PagesLead
  <2>. DEFINE entries == Standing(served, Done(m), passed)
  <2>1. m \in Members
    BY DEF Present
  <2>2. PICK t \in Trees \cup {FirstTree} : Loads(t) /\ served = Courses(t)
    BY DEF PagesInv, ServedKept
  <2>3. FilesShaped(t)
    BY BrainNotesAssumption
  <2>4. Drawn(entries, Done(m))
    BY <2>2, <2>3, StandingDrawn
  <2>. HIDE DEF entries
  <2>5. ContinueLeads(m, entries) /\ LevelsShown(m, entries) /\ LinksLead(m, entries)
    BY <2>4, OneGoesOn, LevelsAreShown, LinksAllLead
  <2>6. ActivityShown(m) /\ NoOneIsSentInCircles(m)
    BY <2>1, DaysAreShown, NoCircles
  <2>. QED  BY <2>5, <2>6 DEF entries
<1>2. NotesSpec => []PagesInv
  BY PagesStart, PagesStep, PTL DEF NotesSpec
<1>. QED  BY <1>1, <1>2, PTL
=============================================================================
