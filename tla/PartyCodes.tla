------------------------------ MODULE PartyCodes ------------------------------
(***************************************************************************)
(* The failure windows that JoinCode (party/invites.go) keeps of wrong     *)
(* invite codes, one for each player and one for each address.  A request  *)
(* is one transaction: it locks the row of its address, then that of its   *)
(* player, and writes both when the code was wrong.  now() is when the     *)
(* transaction began, which may be before a row it waited for was written. *)
(* Party models what a right code does to the party.                       *)
(*                                                                         *)
(* Every time is kept as what separates it from the present, in ticks.     *)
(***************************************************************************)
EXTENDS Integers, FiniteSets

CONSTANTS
  Redeemers,       \* players
  Addresses,
  Redemptions,     \* requests
  PlayerFailures, IPFailures, Cooldown,   \* CodeLimits, the last in ticks
  RedeemTime       \* bound: ticks that a request takes

ASSUME AttemptsAssumption ==
  /\ PlayerFailures \in Nat \ {0} /\ IPFailures \in Nat \ {0}
  /\ RedeemTime \in Nat /\ Cooldown \in Nat /\ RedeemTime < Cooldown

VARIABLES
  attempt,  \* party_code_attempts and party_code_ip_attempts
  redeem,   \* each request: where it is, whose, from where, the age of its now()
  wrong     \* the ages of the last wrong codes of each subject that were examined

caVars == <<attempt, redeem, wrong>>

Subjects == Redeemers \cup Addresses
LimitOf(s) == IF s \in Redeemers THEN PlayerFailures ELSE IPFailures

\* The failures after which a window is blocked whatever began it: see Wrong.
Windowful(limit) == IF limit = 1 THEN 2 ELSE limit

\* An age beyond which nothing changes.
Late == Cooldown + RedeemTime

\* Wrong codes that are older than the property asks about are forgotten.  The
\* others have a place each; a place whose age is Forgotten is free.
Forgotten == Cooldown - RedeemTime
Places(s) == 1..2 * LimitOf(s) + 1
NoneWrong(s) == [k \in Places(s) |-> Forgotten]
Examined(s) == {k \in Places(s) : wrong[s][k] < Forgotten}
OneMoreWrong(s) == [wrong[s] EXCEPT ![CHOOSE k \in Places(s) : wrong[s][k] = Forgotten] = 0]

NoAttempts == [exists |-> FALSE, failures |-> 0, start |-> 0, left |-> -RedeemTime]
NoRedeem == [at |-> "idle", player |-> CHOOSE p \in Redeemers : TRUE,
             ip |-> CHOOSE i \in Addresses : TRUE, age |-> 0]

AttemptsTypeOK ==
  /\ attempt \in [Subjects -> [exists : BOOLEAN, failures : Nat, start : 0..Late,
                               left : -RedeemTime..Cooldown]]
  /\ redeem \in [Redemptions -> [at : {"idle", "begun", "address", "player"}, player : Redeemers,
                                 ip : Addresses, age : 0..RedeemTime]]
  /\ \A s \in Subjects : wrong[s] \in [Places(s) -> 0..Forgotten]

AttemptsInit ==
  /\ attempt = [s \in Subjects |-> NoAttempts]
  /\ redeem = [r \in Redemptions |-> NoRedeem]
  /\ wrong = [s \in Subjects |-> NoneWrong(s)]

\* INSERT ... ON CONFLICT DO NOTHING
NewAttempts(age) == [exists |-> TRUE, failures |-> 0, start |-> age, left |-> -RedeemTime]
RowAt(s, age) == IF attempt[s].exists THEN attempt[s] ELSE NewAttempts(age)

\* blocked_until > now()
Blocked(s, age) == attempt[s].left + age > 0

\* One more failure: in the window that is open, or in a new one.  The first
\* failure of a window that replaces another never blocks, not even with a limit
\* of one.  Nothing tells failures beyond a windowful apart.
Wrong(row, limit, age) ==
  LET over == row.start - age >= Cooldown IN
  [row EXCEPT !.failures = IF over THEN 1
                           ELSE IF row.failures = Windowful(limit) THEN row.failures ELSE row.failures + 1,
              !.start = IF over THEN age ELSE row.start,
              !.left = IF ~over /\ row.failures + 1 >= limit THEN Cooldown - age ELSE -RedeemTime]

-----------------------------------------------------------------------------

BeginRedeem(r, p, i) ==
  /\ redeem[r].at = "idle"
  /\ redeem' = [redeem EXCEPT ![r] = [at |-> "begun", player |-> p, ip |-> i, age |-> 0]]
  /\ UNCHANGED <<attempt, wrong>>

\* The rows are read without FOR UPDATE.
SubjectRead(r, s) == TRUE

\* FOR UPDATE: the row is in no other open transaction.
SubjectFree(r, s) ==
  \A q \in Redemptions \ {r} :
    /\ redeem[q].at \in {"address", "player"} => redeem[q].ip # s
    /\ redeem[q].at = "player" => redeem[q].player # s

\* party_code_ip_limit($1, false, ...)
LockAddress(r) ==
  LET i == redeem[r].ip IN
  /\ redeem[r].at = "begun" /\ SubjectFree(r, i)
  /\ redeem' = [redeem EXCEPT ![r] = IF Blocked(i, redeem[r].age) THEN NoRedeem
                                     ELSE [redeem[r] EXCEPT !.at = "address"]]
  /\ UNCHANGED <<attempt, wrong>>

\* A verdict commits what was inserted; the row of the address is kept.
LockPlayer(r) ==
  LET p == redeem[r].player
      i == redeem[r].ip IN
  /\ redeem[r].at = "address" /\ SubjectFree(r, p)
  /\ IF Blocked(p, redeem[r].age)
     THEN /\ redeem' = [redeem EXCEPT ![r] = NoRedeem]
          /\ attempt' = [attempt EXCEPT ![i] = RowAt(i, redeem[r].age)]
     ELSE /\ redeem' = [redeem EXCEPT ![r] = [redeem[r] EXCEPT !.at = "player"]]
          /\ UNCHANGED attempt
  /\ UNCHANGED wrong

\* No such code: both rows are charged, and the verdict commits them.
WrongCode(r) ==
  LET mine == {redeem[r].player, redeem[r].ip}
      age == redeem[r].age IN
  /\ redeem[r].at = "player"
  /\ attempt' = [s \in Subjects |-> IF s \in mine THEN Wrong(RowAt(s, age), LimitOf(s), age)
                                    ELSE attempt[s]]
  /\ wrong' = [s \in Subjects |-> IF s \in mine THEN OneMoreWrong(s) ELSE wrong[s]]
  /\ redeem' = [redeem EXCEPT ![r] = NoRedeem]

\* The player joins, and starts afresh; the address does not.
RightCode(r) ==
  LET p == redeem[r].player
      i == redeem[r].ip
      age == redeem[r].age IN
  /\ redeem[r].at = "player"
  /\ attempt' = [attempt EXCEPT ![p] = NewAttempts(age), ![i] = RowAt(i, age)]
  /\ wrong' = [wrong EXCEPT ![p] = NoneWrong(p)]
  /\ redeem' = [redeem EXCEPT ![r] = NoRedeem]

\* The party is full, or busy, or the code ran out: everything is rolled back.
RollBack(r) ==
  /\ redeem[r].at = "player"
  /\ redeem' = [redeem EXCEPT ![r] = NoRedeem]
  /\ UNCHANGED <<attempt, wrong>>

\* A window that is over has no failures that matter.
AttemptAged(row) ==
  IF ~row.exists THEN row
  ELSE [row EXCEPT !.start = IF row.start = Late THEN Late ELSE row.start + 1,
                   !.failures = IF row.start + 1 >= Late THEN 0 ELSE row.failures,
                   !.left = IF row.left = -RedeemTime THEN -RedeemTime ELSE row.left - 1]

MomentPasses ==
  /\ \A r \in Redemptions : redeem[r].at # "idle" => redeem[r].age < RedeemTime
  /\ attempt' = [s \in Subjects |-> AttemptAged(attempt[s])]
  /\ redeem' = [r \in Redemptions |-> IF redeem[r].at = "idle" THEN redeem[r]
                                      ELSE [redeem[r] EXCEPT !.age = redeem[r].age + 1]]
  /\ wrong' = [s \in Subjects |->
                 [k \in Places(s) |-> IF wrong[s][k] = Forgotten THEN Forgotten ELSE wrong[s][k] + 1]]

AttemptsNext ==
  \/ \E r \in Redemptions :
       \/ \E p \in Redeemers, i \in Addresses : BeginRedeem(r, p, i)
       \/ LockAddress(r) \/ LockPlayer(r) \/ WrongCode(r) \/ RightCode(r) \/ RollBack(r)
  \/ MomentPasses

AttemptsSpec == AttemptsInit /\ [][AttemptsNext]_caVars

-----------------------------------------------------------------------------

\* AttemptsSound: what the windows achieve.  Within a Cooldown, but for the time
\* a request may wait, fewer wrong codes of a subject are examined than two
\* windows take: less than a budget at the end of one that never filled, and
\* the next one in full.  However its requests overlap, nothing is examined
\* beside the windows.
AttemptsSound ==
  \A s \in Subjects : Cardinality(Examined(s)) < LimitOf(s) + Windowful(LimitOf(s))

\* WithinBudget: what CodeLimits (party/store.go) says, a budget of wrong codes
\* "within Cooldown" for an address and for a player.  The windows do not slide,
\* so it is not so.
WithinBudget == \A s \in Subjects : Cardinality(Examined(s)) <= LimitOf(s)
=============================================================================
