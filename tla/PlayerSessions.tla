---------------------------- MODULE PlayerSessions ----------------------------
(***************************************************************************)
(* The sessions of one player, and the code that resets the player's       *)
(* password: httpapi/auth.go, auth_account.go and auth_password_reset.go   *)
(* with their statements.                                                  *)
(*                                                                         *)
(* A session is its refresh token.  A refresh reads the session and, in a  *)
(* later statement, revokes it and inserts its successor; a request that   *)
(* revokes the player's sessions revokes those its statement's snapshot    *)
(* holds; a reset reads the challenge and, later, counts the attempt and   *)
(* completes.  Each is two steps, and the steps of requests interleave.    *)
(* Sessions are numbered as they commit, so a snapshot is a number.        *)
(*                                                                         *)
(* A code is a number too: the hash and the salt are left out, and an      *)
(* answer is a code that was once sent, or 0, which never matches.         *)
(*                                                                         *)
(* A session or a code past its expiry and a code asked for too soon after *)
(* the last are refused where they are first read, and nothing else        *)
(* depends on those times: such a request is no step, and any other may    *)
(* come at any time.                                                       *)
(***************************************************************************)
EXTENDS Integers, FiniteSets

CONSTANTS
  Requests,           \* requests that may be under way at a time
  MaxTokens,          \* bound: sessions 1..MaxTokens
  MaxCodes,           \* bound: codes 1..MaxCodes
  CodeAttempts,       \* verifycode.MaxAttempts
  LifetimeAttempts    \* verifycode.MaxLifetimeAttempts

ASSUME SessionsAssumption ==
  /\ MaxTokens \in Nat /\ MaxCodes \in Nat
  /\ CodeAttempts \in Nat \ {0} /\ LifetimeAttempts \in Nat \ {0}

VARIABLES
  token,      \* sessions: status (revoked_reason) and the token it replaced
  request,    \* what each request under way has read
  challenge,  \* password_reset_*: code, attempts, lifetime, lock
  codes       \* how many codes were sent

pxVars == <<token, request, challenge, codes>>

NoParent == 0
NoCode == 0
Idle == [kind |-> "none"]
Issued == DOMAIN token
Newest == Cardinality(Issued)
Live == {t \in Issued : token[t].status = "live"}

SessionsTypeOK ==
  /\ Issued = 1..Newest /\ Newest <= MaxTokens
  /\ \A t \in Issued : token[t] \in [status : {"live", "rotated", "logout", "reuse_detected"},
                                     parent : 0..MaxTokens]
  /\ challenge \in [code : 0..MaxCodes, attempts : 0..CodeAttempts,
                    lifetime : Nat, lock : {"no", "yes", "over"}]
  /\ codes \in 0..MaxCodes

SessionsInit ==
  /\ token = << >>
  /\ request = [r \in Requests |-> Idle]
  /\ challenge = [code |-> NoCode, attempts |-> 0, lifetime |-> 0, lock |-> "no"]
  /\ codes = 0

\* insertSession
With(tokens, parent) ==
  [t \in 1..(Newest + 1) |-> IF t <= Newest THEN tokens[t] ELSE [status |-> "live", parent |-> parent]]

Starts(r, what) == request[r] = Idle /\ request' = [request EXCEPT ![r] = what]
Ends(r, kind) == request[r].kind = kind /\ request' = [request EXCEPT ![r] = Idle]

-----------------------------------------------------------------------------
(* Sessions *)

\* authLogin, and the other ways to sign in.
Login ==
  /\ Newest < MaxTokens
  /\ token' = With(token, NoParent)
  /\ UNCHANGED <<request, challenge, codes>>

\* authRefresh up to the statement that revokes: a live session.
RefreshRead(r, t) ==
  /\ t \in Live
  /\ Starts(r, [kind |-> "refresh", token |-> t])
  /\ UNCHANGED <<token, challenge, codes>>

\* The row is revoked whatever it has become.
RevokesAnyRow(t) == TRUE

\* RevokeSession: one row, or none and the refresh is refused.
RevokesRow(t) == t \in Live

RefreshCommit(r) ==
  LET t == request[r].token IN
  /\ Ends(r, "refresh")
  /\ Newest < MaxTokens
  /\ RevokesRow(t)
  /\ token' = With([token EXCEPT ![t].status = "rotated"], t)
  /\ UNCHANGED <<challenge, codes>>

\* authRefresh with a session that was rotated: reuse.
ReuseRead(r, t) ==
  /\ token[t].status = "rotated"
  /\ Starts(r, [kind |-> "revoke", from |-> Newest])
  /\ UNCHANGED <<token, challenge, codes>>

\* changePassword, disablePlayer, requestPlayerDelete, unlinkProjectPlayer
RevokeRead(r) ==
  /\ Starts(r, [kind |-> "revoke", from |-> Newest])
  /\ UNCHANGED <<token, challenge, codes>>

\* RevokeActivePlayerSessions under the snapshot that holds 1..n.
RevokeActive(n) ==
  [t \in Issued |-> IF t <= n /\ t \in Live THEN [token[t] EXCEPT !.status = "reuse_detected"]
                    ELSE token[t]]

RevokeCommit(r, n) ==
  /\ Ends(r, "revoke")
  /\ n >= request[r].from
  /\ token' = RevokeActive(n)
  /\ UNCHANGED <<challenge, codes>>

\* authLogout
Logout(t) ==
  /\ t \in Live
  /\ token' = [token EXCEPT ![t].status = "logout"]
  /\ UNCHANGED <<request, challenge, codes>>

-----------------------------------------------------------------------------
(* Password reset *)

\* resetRequest: eligible unless locked out.
ResetRead(r) ==
  /\ challenge.lock # "yes"
  /\ Starts(r, [kind |-> "mint"])
  /\ UNCHANGED <<token, challenge, codes>>

\* SetPlayerPasswordResetChallenge: the lifetime count and the lock stay.
ResetMint(r) ==
  /\ Ends(r, "mint")
  /\ codes < MaxCodes
  /\ codes' = codes + 1
  /\ challenge' = [challenge EXCEPT !.code = codes + 1, !.attempts = 0]
  /\ UNCHANGED token

\* resetConfirm and checkCodeChallenge up to the first write.
ConfirmRead(r, answer) ==
  /\ challenge.lock # "yes" /\ challenge.code # NoCode
  /\ Starts(r, [kind |-> "confirm", answer |-> answer, code |-> challenge.code,
                clears |-> challenge.lock = "over", from |-> Newest])
  /\ UNCHANGED <<token, challenge, codes>>

\* ClearPlayerPasswordResetLock, ReservePlayerPasswordResetAttempt
Reserved(r) ==
  [code |-> challenge.code,
   attempts |-> challenge.attempts + 1,
   lifetime |-> (IF request[r].clears THEN 0 ELSE challenge.lifetime) + 1,
   lock |-> IF request[r].clears THEN "no" ELSE challenge.lock]

\* Completion by the row alone.
PinnedToRow(r) == TRUE

\* CompletePlayerPasswordReset: the challenge is the one that was validated.
PinnedToCode(r) == challenge.code = request[r].code

\* The attempt is counted and does not complete: the account is locked out,
\* the answer is wrong, or the code was replaced meanwhile.
ConfirmRefused(r) ==
  LET counted == Reserved(r) IN
  /\ Ends(r, "confirm")
  /\ challenge.attempts < CodeAttempts
  /\ \/ /\ counted.lifetime >= LifetimeAttempts
        /\ challenge' = [counted EXCEPT !.lock = "yes"]
     \/ /\ counted.lifetime < LifetimeAttempts
        /\ request[r].answer # request[r].code \/ ~PinnedToCode(r)
        /\ challenge' = counted
  /\ UNCHANGED <<token, codes>>

\* The password is set, the challenge cleared and the sessions revoked.
ConfirmCompletes(r, n) ==
  /\ Ends(r, "confirm")
  /\ challenge.attempts < CodeAttempts
  /\ Reserved(r).lifetime < LifetimeAttempts
  /\ request[r].answer = request[r].code /\ PinnedToCode(r)
  /\ challenge' = [challenge EXCEPT !.code = NoCode, !.attempts = 0,
                                    !.lifetime = 0, !.lock = "no"]
  /\ n >= request[r].from
  /\ token' = RevokeActive(n)
  /\ UNCHANGED codes

LockoutEnds ==
  /\ challenge.lock = "yes"
  /\ challenge' = [challenge EXCEPT !.lock = "over"]
  /\ UNCHANGED <<token, request, codes>>

-----------------------------------------------------------------------------

\* A guard that failed after the first read, or a transaction that did.
SignInFails(r) ==
  /\ request[r] # Idle
  /\ request' = [request EXCEPT ![r] = Idle]
  /\ UNCHANGED <<token, challenge, codes>>

SessionsNext ==
  \/ Login
  \/ \E t \in Issued : Logout(t)
  \/ \E r \in Requests :
       \/ \E t \in Issued : RefreshRead(r, t) \/ ReuseRead(r, t)
       \/ RefreshCommit(r) \/ RevokeRead(r)
       \/ ResetRead(r) \/ ResetMint(r)
       \/ \E answer \in 0..codes : ConfirmRead(r, answer)
       \/ ConfirmRefused(r)
       \/ \E n \in 0..Newest : RevokeCommit(r, n) \/ ConfirmCompletes(r, n)
       \/ SignInFails(r)
  \/ LockoutEnds

SessionsSpec == SessionsInit /\ [][SessionsNext]_pxVars

-----------------------------------------------------------------------------
(* What sessions promise. *)

\* ExchangedOnce: a refresh token was exchanged for one successor if it was
\* rotated and for none otherwise, whichever refreshes, log-outs and
\* revocations of it race.
ExchangedOnce ==
  \A t \in Issued :
    Cardinality({s \in Issued : token[s].parent = t}) =
      IF token[t].status = "rotated" THEN 1 ELSE 0

\* ResetByLiveCode: a reset completes with the code that is live when it
\* completes, also when a new code was sent after the answer was compared.
ResetByLiveCode ==
  challenge.code # NoCode /\ challenge'.code = NoCode
  => \E r \in Requests :
       /\ request[r].kind = "confirm" /\ request'[r] = Idle
       /\ request[r].answer = challenge.code

\* SignInsSound: every step exchanges a token once at most, and completes a
\* reset only by the live code.
SignInsSound == [][ExchangedOnce' /\ ResetByLiveCode]_pxVars
=============================================================================
