------------------------------ MODULE TwoFactor ------------------------------
(***************************************************************************)
(* Two-factor authentication of one user: internal/twofactor with the      *)
(* stores and handlers of controlpanel/twofactor.go and, the same for      *)
(* player accounts, players/twofactor.go.                                  *)
(*                                                                         *)
(* Verify calls its store once per step, each call a transaction of its    *)
(* own, so the requests of one user interleave between any two.  An        *)
(* authenticator code is the secret and the time step it is for; ValidCode *)
(* accepts the steps around the clock.  A backup code is the set it was    *)
(* made in and its place there.                                            *)
(***************************************************************************)
EXTENDS Naturals, FiniteSets

CONSTANTS
  Challenges,     \* requests that may be under way at a time
  CodeCap,        \* MaxAttempts
  Spares,         \* places in a set of backup codes
  MaxSecrets,     \* bound: secrets made
  MaxSets,        \* bound: sets of backup codes made
  LastStep        \* bound: the clock's time step, and the steps codes are for

ASSUME TwoFactorAssumption ==
  CodeCap \in Nat \ {0} /\ MaxSecrets \in Nat /\ MaxSets \in Nat /\ LastStep \in Nat

VARIABLES
  cred,       \* the row of control_panel_user_totp
  spare,      \* its unused backup codes
  trial,      \* requests under way
  secrets,    \* secrets made so far
  sets,       \* sets of backup codes made so far
  step,       \* the clock
  spent       \* history: how often each code was accepted, of the secret in
              \* force and of every set of backup codes

tfVars == <<cred, spare, trial, secrets, sets, step, spent>>

NoCred == [status |-> "none", secret |-> 0, used |-> 0, attempts |-> 0, lock |-> "no"]
Unasked == [at |-> "none"]
Steps == 1..LastStep
SpareCodes == (1..MaxSets) \X Spares
Purposes == {"login", "disable", "regenerate"}

TwoFactorTypeOK ==
  /\ cred \in [status : {"none", "pending", "confirmed"}, secret : 0..MaxSecrets,
               used : 0..LastStep, attempts : 0..CodeCap, lock : {"no", "yes", "over"}]
  /\ spare \subseteq SpareCodes
  /\ \A c \in Challenges : trial[c].at \in {"none", "confirm", "clear", "reserve", "spend", "release", "act"}
  /\ secrets \in 0..MaxSecrets /\ sets \in 0..MaxSets /\ step \in Steps
  /\ spent.app \in [Steps -> Nat] /\ spent.spare \in [SpareCodes -> Nat]

TwoFactorInit ==
  /\ cred = NoCred /\ spare = {}
  /\ trial = [c \in Challenges |-> Unasked]
  /\ secrets = 0 /\ sets = 0 /\ step = 1
  /\ spent = [app |-> [s \in Steps |-> 0], spare |-> [b \in SpareCodes |-> 0]]

\* ValidateCode
ValidCode(s) == s + 1 >= step /\ s <= step + 1

\* A code of the authenticator for a time step.
AppCode(s) == [kind |-> "app", secret |-> cred.secret, step |-> s]

GoOn(c, at) == trial' = [trial EXCEPT ![c].at = at]
Return(c) == trial' = [trial EXCEPT ![c] = Unasked]

\* History: the code of c is accepted.  A code of a secret that is no longer in
\* force opens nothing that is.
SpentApp(c) == IF trial[c].code.secret = cred.secret
               THEN [spent.app EXCEPT ![trial[c].code.step] = @ + 1] ELSE spent.app

Accepted(c) == spent' = [spent EXCEPT !.app = SpentApp(c)]

-----------------------------------------------------------------------------
(* Enrolment *)

\* twoFactorSetup and UpsertControlPanelTOTPPending: never over a confirmed one.
Setup ==
  /\ cred.status # "confirmed" /\ secrets < MaxSecrets
  /\ secrets' = secrets + 1
  /\ cred' = [NoCred EXCEPT !.status = "pending", !.secret = secrets + 1]
  /\ spent' = [spent EXCEPT !.app = [s \in Steps |-> 0]]
  /\ UNCHANGED <<spare, trial, sets, step>>

\* twoFactorConfirm up to its transaction.
ReadPending(c, s) ==
  /\ trial[c] = Unasked
  /\ cred.status = "pending" /\ ValidCode(s)
  /\ trial' = [trial EXCEPT ![c] = [at |-> "confirm", code |-> AppCode(s), seen |-> sets]]
  /\ UNCHANGED <<cred, spare, secrets, sets, step, spent>>

\* replaceBackupCodes.  The DELETE sees the sets of some moment since the request
\* got here; a set that another transaction committed after it stays.
ReplaceSpares(c) ==
  /\ sets < MaxSets
  /\ sets' = sets + 1
  /\ \E seen \in trial[c].seen..sets :
       spare' = {b \in spare : b[1] > seen} \union ({sets + 1} \X Spares)

\* The step of a confirming code, not kept.
StepUnset(s) == 0

\* ConfirmControlPanelTOTP: the step of the code that confirms is spent.
StepUsed(s) == s

ConfirmPending(c) ==
  /\ trial[c].at = "confirm" /\ cred.status = "pending"
  /\ cred' = [cred EXCEPT !.status = "confirmed", !.used = StepUsed(trial[c].code.step),
                          !.attempts = 0, !.lock = "no"]
  /\ ReplaceSpares(c)
  /\ Accepted(c)
  /\ Return(c)
  /\ UNCHANGED <<secrets, step>>

-----------------------------------------------------------------------------
(* Verify *)

\* The credential is read, and a lock that still holds refuses.
ReadConfirmed(c, purpose, code) ==
  /\ trial[c] = Unasked
  /\ cred.status = "confirmed" /\ cred.lock # "yes"
  /\ purpose = "regenerate" => code.kind # "spare"
  /\ trial' = [trial EXCEPT ![c] =
       [at |-> IF cred.lock = "over" THEN "clear" ELSE "reserve", purpose |-> purpose, code |-> code]]
  /\ UNCHANGED <<cred, spare, secrets, sets, step, spent>>

\* A code of the authenticator, valid now.
ChallengeApp(c, purpose, s) ==
  /\ ValidCode(s)
  /\ ReadConfirmed(c, purpose, AppCode(s))

ChallengeSpare(c, purpose, b) == ReadConfirmed(c, purpose, [kind |-> "spare", spare |-> b])

\* A code that is neither.
ChallengeWrong(c) == ReadConfirmed(c, "login", [kind |-> "wrong"])

\* ResetControlPanelTOTPAttempts touches the row if there is one.
Released == IF cred.status = "none" THEN cred ELSE [cred EXCEPT !.attempts = 0, !.lock = "no"]

ClearLock(c) ==
  /\ trial[c].at = "clear"
  /\ cred' = Released
  /\ GoOn(c, "reserve")
  /\ UNCHANGED <<spare, secrets, sets, step, spent>>

\* ReserveControlPanelTOTPAttempt: the cap is in the statement.
ReserveAttempt(c) ==
  /\ trial[c].at = "reserve"
  /\ cred.status # "none" /\ cred.attempts < CodeCap
  /\ cred' = [cred EXCEPT !.attempts = @ + 1,
                          !.lock = IF cred.attempts + 1 >= CodeCap THEN "yes" ELSE @]
  /\ IF trial[c].code.kind = "wrong" THEN Return(c) ELSE GoOn(c, "spend")
  /\ UNCHANGED <<spare, secrets, sets, step, spent>>

\* A step at or below the last one passes too.
AdvancesAnyway(s) == TRUE

\* SetControlPanelTOTPLastUsedStep
Advances(s) == cred.used < s

SpendApp(c) ==
  /\ trial[c].at = "spend" /\ trial[c].code.kind = "app"
  /\ cred.status # "none" /\ Advances(trial[c].code.step)
  /\ cred' = [cred EXCEPT !.used = trial[c].code.step]
  /\ Accepted(c)
  /\ GoOn(c, "release")
  /\ UNCHANGED <<spare, secrets, sets, step>>

\* The step was spent: the attempt is given back and the code refused.
SpendReplayed(c) ==
  /\ trial[c].at = "spend" /\ trial[c].code.kind = "app"
  /\ cred.status = "none" \/ ~Advances(trial[c].code.step)
  /\ cred' = Released
  /\ Return(c)
  /\ UNCHANGED <<spare, secrets, sets, step, spent>>

\* ConsumeControlPanelTOTPBackupCode
SpendSpare(c) ==
  /\ trial[c].at = "spend" /\ trial[c].code.kind = "spare"
  /\ trial[c].code.spare \in spare
  /\ spare' = spare \ {trial[c].code.spare}
  /\ spent' = [spent EXCEPT !.spare[trial[c].code.spare] = @ + 1]
  /\ GoOn(c, "release")
  /\ UNCHANGED <<cred, secrets, sets, step>>

\* The code was right: what it is for comes next.
Proceed(c) == trial' = [trial EXCEPT ![c] = [at |-> "act", purpose |-> @.purpose, code |-> @.code,
                                             seen |-> sets]]

ReleaseAttempt(c) ==
  /\ trial[c].at = "release"
  /\ cred' = Released
  /\ IF trial[c].purpose = "login" THEN Return(c) ELSE Proceed(c)
  /\ UNCHANGED <<spare, secrets, sets, step, spent>>

\* An attempt that found no row or no budget, a code that is spent or unknown,
\* or a call that failed.
ChallengeFails(c) ==
  /\ trial[c] # Unasked
  /\ Return(c)
  /\ UNCHANGED <<cred, spare, secrets, sets, step, spent>>

-----------------------------------------------------------------------------
(* What a verified code is for. *)

\* twoFactorDisable: the row goes; the backup codes belong to the user and stay
\* until the next enrolment replaces them.
DisableTwoFactor(c) ==
  /\ trial[c].at = "act" /\ trial[c].purpose = "disable"
  /\ cred' = NoCred
  /\ Return(c)
  /\ UNCHANGED <<spare, secrets, sets, step, spent>>

\* twoFactorRegenerateBackupCodes: whatever became of the row meanwhile.
Regenerate(c) ==
  /\ trial[c].at = "act" /\ trial[c].purpose = "regenerate"
  /\ ReplaceSpares(c)
  /\ Return(c)
  /\ UNCHANGED <<cred, secrets, step, spent>>

StepPasses ==
  /\ step < LastStep
  /\ step' = step + 1
  /\ UNCHANGED <<cred, spare, trial, secrets, sets, spent>>

LockoutPasses ==
  /\ cred.lock = "yes"
  /\ cred' = [cred EXCEPT !.lock = "over"]
  /\ UNCHANGED <<spare, trial, secrets, sets, step, spent>>

TwoFactorNext ==
  \/ Setup \/ StepPasses \/ LockoutPasses
  \/ \E c \in Challenges :
       \/ \E s \in Steps :
            ReadPending(c, s) \/ \E purpose \in Purposes : ChallengeApp(c, purpose, s)
       \/ \E b \in SpareCodes, purpose \in Purposes : ChallengeSpare(c, purpose, b)
       \/ ChallengeWrong(c)
       \/ ConfirmPending(c)
       \/ ClearLock(c) \/ ReserveAttempt(c)
       \/ SpendApp(c) \/ SpendReplayed(c) \/ SpendSpare(c) \/ ReleaseAttempt(c)
       \/ DisableTwoFactor(c) \/ Regenerate(c) \/ ChallengeFails(c)

TwoFactorSpec == TwoFactorInit /\ [][TwoFactorNext]_tfVars

-----------------------------------------------------------------------------
(* What the second factor promises. *)

\* CodesSpentOnce: of the secret in force and of every set of backup codes, a
\* code is accepted once at most: the one that confirms an enrolment counts,
\* and requests that present one code at the same time do not both pass.
CodesSpentOnce ==
  /\ cred.status # "none" => \A s \in Steps : spent.app[s] <= 1
  /\ \A b \in SpareCodes : spent.spare[b] <= 1
=============================================================================
