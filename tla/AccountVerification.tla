------------------------- MODULE AccountVerification -------------------------
(***************************************************************************)
(* How a player account of the portal has its email verified:              *)
(* internal/players/account.go.  A code is installed in the account's row, *)
(* then mailed; when the mail fails the row gets back what it had.  Sign-  *)
(* ups, logins and resends start such a send, any number at once, and codes*)
(* are confirmed, and the account claimed by the owner of an invite,       *)
(* meanwhile.                                                              *)
(*                                                                         *)
(* A wrong code changes nothing: the transaction that reserved the attempt *)
(* is rolled back with it, so the counters of attempts stay where they are.*)
(***************************************************************************)
EXTENDS Naturals

CONSTANTS
  Senders,      \* requests that send a code
  Confirmers,   \* requests that present one
  MaxSent       \* bound: codes installed

ASSUME VerificationAssumption == MaxSent \in Nat \ {0}

VARIABLES
  row,         \* player_accounts: verified, the code's number or 0, its cooldown
  sender,      \* sends under way, with what they read
  confirmer,   \* confirmations under way, with what they read
  installed,   \* history: codes installed so far
  delivered,   \* history: codes that reached the inbox
  expired      \* codes past their expiry

avVars == <<row, sender, confirmer, installed, delivered, expired>>

Rested == [at |-> "none"]
Sent == 1..MaxSent

VerificationTypeOK ==
  /\ row \in [exists : BOOLEAN, verified : BOOLEAN, code : {0} \union Sent, cooling : BOOLEAN]
  /\ \A s \in Senders : sender[s].at \in {"none", "read", "set"}
  /\ \A c \in Confirmers : confirmer[c].at \in {"none", "read"}
  /\ installed \in {0} \union Sent
  /\ delivered \subseteq 1..installed /\ expired \subseteq 1..installed

VerificationInit ==
  /\ row = [exists |-> FALSE, verified |-> FALSE, code |-> 0, cooling |-> FALSE]
  /\ sender = [s \in Senders |-> Rested]
  /\ confirmer = [c \in Confirmers |-> Rested]
  /\ installed = 0 /\ delivered = {} /\ expired = {}

\* A new code goes into the row, which had `was`.
Install(s, was) ==
  /\ installed < MaxSent /\ installed' = installed + 1
  /\ row' = [row EXCEPT !.exists = TRUE, !.code = installed', !.cooling = TRUE]
  /\ sender' = [sender EXCEPT ![s] = [at |-> "set", code |-> installed', was |-> was]]
  /\ UNCHANGED <<confirmer, delivered, expired>>

-----------------------------------------------------------------------------
(* accountSignup and startAccountVerification *)

\* CreatePlayerAccount, with its first code.
SignUp(s) ==
  /\ sender[s] = Rested /\ ~row.exists
  /\ Install(s, 0)

\* The row is read: not within the cooldown.  Logins and repeated sign-ups
\* come here for an account that is not verified, a resend for any.
StartReads(s) ==
  /\ sender[s] = Rested /\ row.exists /\ ~row.cooling
  /\ sender' = [sender EXCEPT ![s] = [at |-> "read", was |-> row.code]]
  /\ UNCHANGED <<row, confirmer, installed, delivered, expired>>

\* SetPlayerAccountVerificationCode, whatever happened since.
StartSets(s) ==
  /\ sender[s].at = "read"
  /\ Install(s, sender[s].was)

MailSent(s) ==
  /\ sender[s].at = "set"
  /\ delivered' = delivered \union {sender[s].code}
  /\ sender' = [sender EXCEPT ![s] = Rested]
  /\ UNCHANGED <<row, confirmer, installed, expired>>

\* The row is restored whichever code it has.
RestoresAny(s) == TRUE

\* RestorePlayerAccountVerificationCode: only the code whose mail failed.
RestoresOwn(s) == row.code = sender[s].code

\* What was read goes back; what was read was past its cooldown.
MailFails(s) ==
  /\ sender[s].at = "set"
  /\ row' = IF RestoresOwn(s) THEN [row EXCEPT !.code = sender[s].was, !.cooling = FALSE] ELSE row
  /\ sender' = [sender EXCEPT ![s] = Rested]
  /\ UNCHANGED <<confirmer, installed, delivered, expired>>

\* The server stops, or the row cannot be written.
SendStops(s) ==
  /\ sender[s] # Rested
  /\ sender' = [sender EXCEPT ![s] = Rested]
  /\ UNCHANGED <<row, confirmer, installed, delivered, expired>>

CooldownPasses ==
  /\ row.cooling
  /\ row' = [row EXCEPT !.cooling = FALSE]
  /\ UNCHANGED <<sender, confirmer, installed, delivered, expired>>

VerificationExpires(k) ==
  /\ k \in 1..installed \ expired
  /\ expired' = expired \union {k}
  /\ UNCHANGED <<row, sender, confirmer, installed, delivered>>

-----------------------------------------------------------------------------
(* confirmAccountCode *)

\* The state is read without a lock; the code presented is one that was mailed.
ConfirmReads(c, k) ==
  /\ confirmer[c] = Rested /\ k \in delivered
  /\ ~row.verified /\ row.code # 0 /\ row.code \notin expired
  /\ confirmer' = [confirmer EXCEPT ![c] = [at |-> "read", expects |-> row.code, got |-> k]]
  /\ UNCHANGED <<row, sender, installed, delivered, expired>>

\* The attempt is reserved, the code compared with what was read, and the row
\* marked verified, or all of it rolled back.
ConfirmEnds(c) ==
  /\ confirmer[c].at = "read"
  /\ row' = IF confirmer[c].got = confirmer[c].expects
            THEN [row EXCEPT !.verified = TRUE, !.code = 0] ELSE row
  /\ confirmer' = [confirmer EXCEPT ![c] = Rested]
  /\ UNCHANGED <<sender, installed, delivered, expired>>

\* ClaimVerifiedPlayerAccount: an invite, or a player's own verification,
\* proves the email; a row not verified is taken over.
Claim ==
  /\ ~row.verified
  /\ row' = [row EXCEPT !.exists = TRUE, !.verified = TRUE, !.code = 0]
  /\ UNCHANGED <<sender, confirmer, installed, delivered, expired>>

VerificationNext ==
  \/ \E s \in Senders : \/ SignUp(s) \/ StartReads(s) \/ StartSets(s)
                        \/ MailSent(s) \/ MailFails(s) \/ SendStops(s)
  \/ \E k \in Sent : VerificationExpires(k)
  \/ \E c \in Confirmers : ConfirmEnds(c) \/ \E k \in Sent : ConfirmReads(c, k)
  \/ CooldownPasses \/ Claim

VerificationSpec == VerificationInit /\ [][VerificationNext]_avVars

-----------------------------------------------------------------------------
(* What a player can count on. *)

\* NewestCodeWorks: as long as the account is not verified, the code that was
\* installed last is, once it has reached the inbox, the one the row accepts:
\* no failed delivery of another code puts an earlier one back over it.
NewestCodeWorks ==
  installed \in delivered /\ ~row.verified => row.code = installed
=============================================================================
