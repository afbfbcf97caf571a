------------------------------ MODULE RelayMeter ------------------------------
(***************************************************************************)
(* The monthly allowance of relay sessions of a tenant: relaymeter, asked  *)
(* before relay credentials are issued.  Requests run at once on several   *)
(* API servers; operators may change the allowance and the month may turn  *)
(* between two statements of one request.  The upsert locks the usage row  *)
(* until the transaction ends, so what follows it is one step with it.  A  *)
(* tenant without quotas is counted and never refused: not modelled.       *)
(* Beside it stand the allocations the credentials are used for.           *)
(***************************************************************************)
EXTENDS RelayAllocations

CONSTANTS
  Issuers,      \* requests for credentials
  Allowances,   \* what an allowance may be; 0 blocks all
  LastMonth     \* bound: months

ASSUME MeterAssumption == Allowances \subseteq Nat /\ LastMonth \in Nat

VARIABLES
  month,
  allowance,  \* of the tenant's class
  usage,      \* relay_session_usage: a row for each month, and its warnings
  issuer,     \* requests under way
  mails,      \* history: warnings sent
  dealt       \* history: issued and refused in each month, and under which allowances

rmVars == <<month, allowance, usage, issuer, mails, dealt>>

Months == 0..LastMonth
Asleep == [at |-> "none"]
Warnings == {80, 100}

MeterTypeOK ==
  /\ month \in Months /\ allowance \in Allowances
  /\ usage \in [Months -> [sessions : Nat, warned : SUBSET Warnings]]
  /\ \A i \in Issuers : issuer[i].at \in {"none", "asked", "warns"}
  /\ mails \in [Months \X Warnings -> Nat]
  /\ dealt \in [Months -> [issued : Nat, refused : BOOLEAN, by : SUBSET Allowances]]

MeterInit ==
  /\ month = 0 /\ allowance \in Allowances
  /\ usage = [m \in Months |-> [sessions |-> 0, warned |-> {}]]
  /\ issuer = [i \in Issuers |-> Asleep]
  /\ mails = [w \in Months \X Warnings |-> 0]
  /\ dealt = [m \in Months |-> [issued |-> 0, refused |-> FALSE, by |-> {}]]

MonthTurns ==
  /\ month < LastMonth /\ month' = month + 1
  /\ UNCHANGED <<allowance, usage, issuer, mails, dealt>>

\* An operator changes the tier or an override.
AllowanceSet(to) ==
  /\ to # allowance /\ allowance' = to
  /\ UNCHANGED <<month, usage, issuer, mails, dealt>>

\* Meter.Allow: the month, and in its transaction the quota context.
AllowReads(i) ==
  /\ issuer[i] = Asleep
  /\ issuer' = [issuer EXCEPT ![i] = [at |-> "asked", month |-> month, allowance |-> allowance]]
  /\ UNCHANGED <<month, allowance, usage, mails, dealt>>

\* The first issue of a month is let through by the insert.
MayIssueFirst(m, cap) == usage[m].sessions = 0 \/ usage[m].sessions < cap

\* A zero allowance is refused before the upsert, whose condition only the
\* conflict branch has.
MayIssue(m, cap) == cap # 0 /\ (usage[m].sessions = 0 \/ usage[m].sessions < cap)

\* The warnings due from a month's count, past each threshold.
WarningsPast(sessions, cap) == {w \in Warnings : sessions * 100 > cap * w}

\* crossed80 and crossed100
WarningsDue(sessions, cap) == {w \in Warnings : sessions * 100 >= cap * w}

Refuse(i, m, cap) ==
  /\ ~MayIssue(m, cap)
  /\ issuer' = [issuer EXCEPT ![i] = Asleep]
  /\ dealt' = [dealt EXCEPT ![m] = [issued |-> dealt[m].issued, refused |-> TRUE, by |-> dealt[m].by \union {cap}]]
  /\ UNCHANGED usage

\* The upsert, the claims of the warnings not claimed yet, and the commit.
Issue(i, m, cap) ==
  LET count == usage[m].sessions + 1
      claims == WarningsDue(count, cap) \ usage[m].warned
  IN  /\ MayIssue(m, cap)
      /\ usage' = [usage EXCEPT ![m] = [sessions |-> count, warned |-> usage[m].warned \union claims]]
      /\ issuer' = [issuer EXCEPT ![i] = IF claims = {} THEN Asleep
                                         ELSE [at |-> "warns", month |-> m, claims |-> claims]]
      /\ dealt' = [dealt EXCEPT ![m] = [issued |-> dealt[m].issued + 1, refused |-> dealt[m].refused,
                                        by |-> dealt[m].by \union {cap}]]

AllowCounts(i) ==
  /\ issuer[i].at = "asked"
  /\ \/ Refuse(i, issuer[i].month, issuer[i].allowance)
     \/ Issue(i, issuer[i].month, issuer[i].allowance)
  /\ UNCHANGED <<month, allowance, mails>>

\* The transaction fails and rolls back.
AllowAborts(i) ==
  /\ issuer[i].at = "asked"
  /\ issuer' = [issuer EXCEPT ![i] = Asleep]
  /\ UNCHANGED <<month, allowance, usage, mails, dealt>>

\* After the commit, for each claim: a mail that is sent, or is not.
SendWarning(i, w) ==
  LET left == issuer[i].claims \ {w} IN
  /\ issuer[i].at = "warns" /\ w \in issuer[i].claims
  /\ \/ mails' = [mails EXCEPT ![<<issuer[i].month, w>>] = @ + 1]
     \/ UNCHANGED mails
  /\ issuer' = [issuer EXCEPT ![i] = IF left = {} THEN Asleep 
                                     ELSE [at |-> "warns", month |-> issuer[i].month, claims |-> left]]
  /\ UNCHANGED <<month, allowance, usage, dealt>>

MeterNext ==
  \/ MonthTurns
  \/ \E to \in Allowances : AllowanceSet(to)
  \/ \E i \in Issuers : \/ AllowReads(i) \/ AllowCounts(i) \/ AllowAborts(i)
                        \/ \E w \in Warnings : SendWarning(i, w)

MeterSpec == MeterInit /\ [][MeterNext]_rmVars

-----------------------------------------------------------------------------
(* What the meter promises. *)

\* MeterSound: a month never sees more sessions than the largest allowance a
\* request of it went by, also across a change of the allowance and the turn
\* of the month; the admins get each warning of a month at most once, from
\* however many requests; and where one allowance, not zero, ruled the month,
\* nobody was refused before both warnings had been claimed.
MeterSound ==
  \A m \in Months :
    /\ dealt[m].issued = 0 \/ \E cap \in dealt[m].by : dealt[m].issued <= cap
    /\ \A w \in Warnings : mails[<<m, w>>] <= 1
    /\ \A cap \in Allowances \ {0} :
         dealt[m].refused /\ dealt[m].by = {cap} => usage[m].warned = Warnings
-----------------------------------------------------------------------------
\* The relay as a whole: the nodes see only the credentials, the meter only what
\* is issued, and they share no state.
AccountsSpec == AllocationsSpec /\ MeterSpec

\* RelayAccountsSound: what the relay and its meter count is what they carry.  The
\* node stays below its cap, an idle drain leaves no socket in use, nothing stays
\* counted however often a socket is closed, and a shared budget is kept
\* (AllocationsSound); a month never exceeds its allowance and its warnings go out
\* once each, before anybody is refused (MeterSound).
RelayAccountsSound == AllocationsSound /\ MeterSound
=============================================================================
