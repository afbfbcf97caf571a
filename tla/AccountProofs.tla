---------------------------- MODULE AccountProofs ----------------------------
(***************************************************************************)
(* Proofs about how people are brought together and let in: the groups of  *)
(* a matchmaking pass, the verification and the sign-in of portal          *)
(* accounts, the second factor, the control panel's users and what admins  *)
(* are asked for.  Any number of tickets, requests, users, providers,      *)
(* links, codes and tenants; the bounds of the models are parameters here. *)
(*                                                                         *)
(* Where a request reads, waits and writes, the promise is not inductive   *)
(* by itself: the invariant adds what a request under way has in hand and  *)
(* how much of it is still true of the rows.  For the pass it adds what is *)
(* true of the group being filled.                                         *)
(***************************************************************************)
EXTENDS AccountVerification, AccountAccess, Operators, TwoFactor, TenantRequests,
        GroupFormation, WellFoundedInduction, FiniteSetTheorems, SequenceTheorems, TLAPS

-----------------------------------------------------------------------------
(* AccountVerification *)

\* A send that has read the row carries what it read; one that has installed a
\* code carries that as well.
Sendings ==
  {Rested} \union [at : {"read"}, was : {0} \union Sent]
           \union [at : {"set"}, code : Sent, was : {0} \union Sent]

Confirmings ==
  {Rested} \union [at : {"read"}, expects : Sent, got : Sent]

VerificationTyped ==
  /\ row \in [exists : BOOLEAN, verified : BOOLEAN, code : {0} \union Sent, cooling : BOOLEAN]
  /\ sender \in [Senders -> Sendings]
  /\ confirmer \in [Confirmers -> Confirmings]
  /\ installed \in {0} \union Sent
  /\ delivered \subseteq 1..installed /\ expired \subseteq 1..installed

\* SendsApart: a code being mailed was installed, is nobody else's and has not
\* arrived; the newest one, while it is being mailed, is what the row has.
SendsApart ==
  \A s \in Senders : sender[s].at = "set" =>
    /\ sender[s].code <= installed
    /\ sender[s].code \notin delivered
    /\ sender[s].code = installed /\ ~row.verified => row.code = installed
    /\ \A t \in Senders \ {s} : sender[t].at = "set" => sender[t].code # sender[s].code

VerificationInv == VerificationTyped /\ SendsApart /\ NewestCodeWorks

\* No code was installed.
LEMMA VerificationInitial == VerificationInit => VerificationInv
PROOF
  BY VerificationAssumption
  DEF VerificationInit, VerificationInv, VerificationTyped, SendsApart, NewestCodeWorks,
      Sendings, Confirmings, Rested, Sent

\* Every step of a send, of a confirmation and of time keeps the invariant.
LEMMA VerificationStep == VerificationInv /\ [VerificationNext]_avVars => VerificationInv'
PROOF
  <1> SUFFICES ASSUME VerificationInv, [VerificationNext]_avVars PROVE VerificationInv'
    OBVIOUS
  <1> USE VerificationAssumption
      DEF VerificationInv, VerificationTyped, SendsApart, NewestCodeWorks, Sendings, Confirmings,
          Rested, Sent
  <1>1. ASSUME NEW s \in Senders, NEW was \in {0} \union Sent, Install(s, was)
        PROVE VerificationInv'
    <2>1. /\ installed' = installed + 1 /\ installed' \in Sent
          /\ row' = [row EXCEPT !.exists = TRUE, !.code = installed', !.cooling = TRUE]
          /\ sender' = [sender EXCEPT ![s] = [at |-> "set", code |-> installed', was |-> was]]
          /\ UNCHANGED <<confirmer, delivered, expired>>
      BY <1>1 DEF Install
    <2>2. VerificationTyped'
      <3>1. row' \in [exists : BOOLEAN, verified : BOOLEAN, code : {0} \union Sent, cooling : BOOLEAN]
        BY <2>1
      <3>2. sender' \in [Senders -> Sendings]
        BY <2>1
      <3>3. delivered' \subseteq 1..installed' /\ expired' \subseteq 1..installed'
        BY <2>1
      <3> QED
        BY <2>1, <3>1, <3>2, <3>3
    <2>3. \A r \in Senders :
            /\ r = s => sender'[r].at = "set" /\ sender'[r].code = installed + 1
            /\ r # s => sender'[r] = sender[r]
      BY <2>1
    <2>4. installed + 1 \notin delivered /\ row'.code = installed + 1
      BY <2>1
    <2>5. SendsApart'
      BY <2>1, <2>3, <2>4
    <2>6. NewestCodeWorks'
      BY <2>1, <2>4
    <2> QED
      BY <2>2, <2>5, <2>6
  <1>2. ASSUME NEW s \in Senders, SignUp(s) PROVE VerificationInv'
    BY <1>1, <1>2 DEF SignUp
  <1>3. ASSUME NEW s \in Senders, StartReads(s) PROVE VerificationInv'
    BY <1>3 DEF StartReads
  <1>4. ASSUME NEW s \in Senders, StartSets(s) PROVE VerificationInv'
    BY <1>1, <1>4 DEF StartSets
  <1>5. ASSUME NEW s \in Senders, MailSent(s) PROVE VerificationInv'
    <2>1. /\ sender[s] \in [at : {"set"}, code : Sent, was : {0} \union Sent]
          /\ delivered' = delivered \union {sender[s].code}
          /\ sender' = [sender EXCEPT ![s] = Rested]
          /\ UNCHANGED <<row, confirmer, installed, expired>>
      BY <1>5 DEF MailSent
    <2>2. VerificationTyped'
      <3>1. sender[s].code \in 1..installed
        BY <2>1
      <3> QED
        BY <2>1, <3>1
    <2>3. \A r \in Senders : sender'[r].at = "set" => r # s /\ sender'[r] = sender[r]
      BY <2>1
    <2>4. SendsApart'
      BY <2>1, <2>3
    <2>5. NewestCodeWorks'
      BY <2>1
    <2> QED
      BY <2>2, <2>4, <2>5
  <1>6. ASSUME NEW s \in Senders, MailFails(s) PROVE VerificationInv'
    <2>1. /\ sender[s] \in [at : {"set"}, code : Sent, was : {0} \union Sent]
          /\ sender' = [sender EXCEPT ![s] = Rested]
          /\ UNCHANGED <<confirmer, installed, delivered, expired>>
      BY <1>6 DEF MailFails
    <2>2. CASE RestoresOwn(s)
      <3>1. row' = [row EXCEPT !.code = sender[s].was, !.cooling = FALSE]
        BY <1>6, <2>2 DEF MailFails
      <3>2. VerificationTyped'
        BY <2>1, <3>1
      <3>3. SendsApart' /\ NewestCodeWorks'
        BY <2>1, <2>2, <3>1 DEF RestoresOwn
      <3> QED
        BY <3>2, <3>3
    <2>3. CASE ~RestoresOwn(s)
      <3>1. row' = row
        BY <1>6, <2>3 DEF MailFails
      <3> QED
        BY <2>1, <3>1
    <2> QED
      BY <2>2, <2>3
  <1>7. ASSUME NEW s \in Senders, SendStops(s) PROVE VerificationInv'
    BY <1>7 DEF SendStops
  <1>8. ASSUME NEW k \in Sent, VerificationExpires(k) PROVE VerificationInv'
    BY <1>8 DEF VerificationExpires
  <1>9. ASSUME NEW c \in Confirmers, NEW k \in Sent, ConfirmReads(c, k) PROVE VerificationInv'
    BY <1>9 DEF ConfirmReads
  <1>10. ASSUME NEW c \in Confirmers, ConfirmEnds(c) PROVE VerificationInv'
    BY <1>10 DEF ConfirmEnds
  <1>11. ASSUME CooldownPasses PROVE VerificationInv'
    BY <1>11 DEF CooldownPasses
  <1>12. ASSUME Claim PROVE VerificationInv'
    BY <1>12 DEF Claim
  <1>13. ASSUME UNCHANGED avVars PROVE VerificationInv'
    BY <1>13 DEF avVars
  <1> QED
    BY <1>2, <1>3, <1>4, <1>5, <1>6, <1>7, <1>8, <1>9, <1>10, <1>11, <1>12, <1>13
    DEF VerificationNext

\* As long as the account is not verified, the newest code that reached the
\* inbox is the one its row accepts, whatever other deliveries fail and restore.
THEOREM NewestCodeAccepted == VerificationSpec => []NewestCodeWorks
PROOF
  <1>1. VerificationInv => NewestCodeWorks
    BY DEF VerificationInv
  <1> QED
    BY VerificationInitial, VerificationStep, <1>1, PTL DEF VerificationSpec
-----------------------------------------------------------------------------
(* Operators *)

Invites ==
  {NoInvite} \union [status : {"open", "accepted", "revoked"}, by : Users, to : Users]

Disablings ==
  {NotDisabling}
    \union [target : Users, stage : {"admin", "other", "locked"}, rows : SUBSET Users]

OperatorsTyped ==
  /\ admin \subseteq Users /\ enabled \subseteq Users
  /\ invite \in [Invitations -> Invites]
  /\ disabling \in [Users -> Disablings]
  /\ accepting \subseteq Invitations /\ promoted \subseteq Users

\* OneLocks: one disable at a time holds locks, on enabled admins that stay so
\* until it commits, and on more than one.
OneLocks ==
  \A u \in Users : disabling[u].rows # {} =>
    /\ disabling[u].rows \subseteq EnabledAdmins
    /\ \E t, w \in disabling[u].rows : t # w
    /\ \A v \in Users \ {u} : disabling[v].rows = {}

\* DisablesSound: only a disable that counted holds locks, and one that took
\* its target for no admin was right, or the target was promoted since.
DisablesSound ==
  \A u \in Users : Disabling(u) =>
    /\ disabling[u].stage = "locked" <=> disabling[u].rows # {}
    /\ disabling[u].stage = "other" => disabling[u].target \notin admin \ promoted

OperatorsInv ==
  OperatorsTyped /\ OneLocks /\ DisablesSound /\ AdminRemains /\ AdminsWereInvited

\* More than one enabled admin means two of them.
LEMMA TwoOfMany ==
  ASSUME NEW S, IsFiniteSet(S), Cardinality(S) > 1
  PROVE  \E x, y \in S : x # y
PROOF
  <1>1. PICK x : x \in S
    BY FS_EmptySet
  <1>2. CASE S = {x}
    BY <1>2, FS_Singleton
  <1>3. CASE S # {x}
    BY <1>1, <1>3
  <1> QED
    BY <1>2, <1>3

\* The first admins are enabled and nothing is under way.
LEMMA OperatorsInitial == OperatorsInit => OperatorsInv
PROOF
  BY OperatorsAssumption
  DEF OperatorsInit, OperatorsInv, OperatorsTyped, OneLocks, DisablesSound, AdminRemains,
      AdminsWereInvited, EnabledAdmins, Disabling, Invites, Disablings, NoInvite, NotDisabling

\* Every step of a disable, an enable and an invitation keeps the invariant.
LEMMA OperatorsStep == OperatorsInv /\ [OperatorsNext]_opVars => OperatorsInv'
PROOF
  <1> SUFFICES ASSUME OperatorsInv, [OperatorsNext]_opVars PROVE OperatorsInv'
    OBVIOUS
  <1> USE OperatorsAssumption
      DEF OperatorsInv, OperatorsTyped, OneLocks, DisablesSound, AdminRemains,
          AdminsWereInvited, EnabledAdmins, Disabling, Invites, Disablings, NoInvite
  <1>0. NotDisabling.rows = {} /\ NotDisabling \in Disablings
    BY DEF NotDisabling
  <1>1. ASSUME NEW u \in Users, NEW t \in Users, DisableRead(u, t) PROVE OperatorsInv'
    <2>1. PICK stage \in {"admin", "other"} :
            /\ disabling' = [disabling EXCEPT ![u] = [target |-> t, stage |-> stage, rows |-> {}]]
            /\ stage = "other" => t \notin admin
            /\ ~Disabling(u)
            /\ UNCHANGED <<admin, enabled, invite, accepting, promoted>>
      BY <1>1 DEF DisableRead
    <2>2. disabling'[u] = [target |-> t, stage |-> stage, rows |-> {}]
          /\ \A v \in Users \ {u} : disabling'[v] = disabling[v]
      BY <2>1
    <2>3. OperatorsTyped'
      BY <2>1
    <2>4. OneLocks'
      BY <1>0, <2>1, <2>2
    <2>5. DisablesSound'
      BY <2>1, <2>2
    <2>6. AdminRemains' /\ AdminsWereInvited'
      BY <2>1
    <2> QED
      BY <2>3, <2>4, <2>5, <2>6
  <1>2. ASSUME NEW u \in Users, NEW t \in Users, Enable(u, t) PROVE OperatorsInv'
    BY <1>2 DEF Enable
  <1>3. ASSUME NEW u \in Users, DisableLock(u) PROVE OperatorsInv'
    <2>1. /\ disabling' = [disabling EXCEPT ![u].stage = "locked", ![u].rows = EnabledAdmins]
          /\ Disabling(u)
          /\ disabling[u] \in [target : Users, stage : {"admin", "other", "locked"}, rows : SUBSET Users]
          /\ UNCHANGED <<admin, enabled, invite, accepting, promoted>>
      BY <1>3 DEF DisableLock
    <2>2. /\ disabling'[u] = [target |-> disabling[u].target, stage |-> "locked", rows |-> EnabledAdmins]
          /\ \A v \in Users \ {u} : disabling'[v] = disabling[v]
      BY <2>1, ZenonT(60)
    <2>3. OperatorsTyped'
      BY <2>1, <2>2
    <2>4. \A v \in Users : disabling[v].rows = {}
      BY <1>0, <1>3 DEF DisableLock, LocksFree, RowLocked
    <2>5. \E x, y \in EnabledAdmins : x # y
      <3>1. IsFiniteSet(EnabledAdmins)
        BY FS_Subset
      <3> QED
        BY <1>3, <3>1, TwoOfMany DEF DisableLock
    <2>6. OneLocks'
      BY <2>1, <2>2, <2>4, <2>5
    <2>7. DisablesSound'
      BY <2>1, <2>2, <2>5
    <2>8. AdminRemains' /\ AdminsWereInvited'
      BY <2>1
    <2> QED
      BY <2>3, <2>6, <2>7, <2>8
  <1>4. ASSUME NEW u \in Users, DisableCommit(u) PROVE OperatorsInv'
    <2> DEFINE t == disabling[u].target
    <2>1. /\ disabling[u] \in [target : Users, stage : {"admin", "other", "locked"}, rows : SUBSET Users]
          /\ disabling[u].stage \in {"locked", "other"}
          /\ disabling[u].stage = "other" => \A v \in Users : t \notin disabling[v].rows
          /\ enabled' = enabled \ {t}
          /\ invite' = RevokedBy(t)
          /\ disabling' = [disabling EXCEPT ![u] = NotDisabling]
          /\ UNCHANGED <<admin, accepting, promoted>>
      BY <1>4 DEF DisableCommit, RowLocked
    <2>2. disabling'[u] = NotDisabling /\ \A v \in Users \ {u} : disabling'[v] = disabling[v]
      BY <2>1
    <2>3. OperatorsTyped'
      BY <1>0, <2>1 DEF RevokedBy
    <2>3a. \A v \in Users \ {u} : t \notin disabling[v].rows
      <3>1. disabling[u].stage = "locked" => disabling[u].rows # {}
        BY <1>4 DEF DisableCommit
      <3> QED
        BY <2>1, <3>1
    <2>4. OneLocks'
      BY <1>0, <2>1, <2>2, <2>3a
    <2>5. DisablesSound'
      BY <2>1, <2>2
    <2>6. AdminRemains'
      <3>1. CASE disabling[u].stage = "other"
        <4>1. t \notin admin \ promoted
          BY <1>4, <3>1 DEF DisableCommit
        <4> QED
          BY <2>1, <4>1
      <3>2. CASE disabling[u].stage = "locked"
        <4>1. disabling[u].rows # {}
          BY <1>4, <3>2 DEF DisableCommit
        <4>2. PICK x \in disabling[u].rows : x # t
          BY <4>1
        <4> QED
          BY <2>1, <4>1, <4>2
      <3> QED
        BY <2>1, <3>1, <3>2
    <2>7. AdminsWereInvited'
      <3>1. \A i \in Invitations : invite[i].status = "accepted" => invite'[i] = invite[i]
        BY <2>1 DEF RevokedBy
      <3> QED
        BY <2>1, <3>1
    <2> QED
      BY <2>3, <2>4, <2>5, <2>6, <2>7
  <1>5. ASSUME NEW u \in Users, DisableAborts(u) PROVE OperatorsInv'
    <2>1. /\ disabling' = [disabling EXCEPT ![u] = NotDisabling]
          /\ UNCHANGED <<admin, enabled, invite, accepting, promoted>>
      BY <1>5 DEF DisableAborts
    <2>2. disabling'[u] = NotDisabling /\ \A v \in Users \ {u} : disabling'[v] = disabling[v]
      BY <2>1
    <2>3. OperatorsTyped'
      BY <1>0, <2>1
    <2>4. OneLocks'
      BY <1>0, <2>1, <2>2
    <2>5. DisablesSound'
      BY <2>1, <2>2
    <2> QED
      BY <2>1, <2>3, <2>4, <2>5
  <1>6. ASSUME NEW u \in Users, NEW t \in Users, NEW i \in Invitations, CreateInvite(u, i, t)
        PROVE OperatorsInv'
    BY <1>6 DEF CreateInvite
  <1>7. ASSUME NEW i \in Invitations, AcceptRead(i) PROVE OperatorsInv'
    BY <1>7 DEF AcceptRead
  <1>8. ASSUME NEW i \in Invitations, AcceptCommit(i) PROVE OperatorsInv'
    BY <1>8 DEF AcceptCommit, StillOpen
  <1>9. ASSUME NEW i \in Invitations, AcceptAborts(i) PROVE OperatorsInv'
    BY <1>9 DEF AcceptAborts
  <1>10. ASSUME UNCHANGED opVars PROVE OperatorsInv'
    BY <1>10 DEF opVars
  <1> QED
    BY <1>1, <1>2, <1>3, <1>4, <1>5, <1>6, <1>7, <1>8, <1>9, <1>10 DEF OperatorsNext

\* The control panel never loses its last enabled admin to disables that run at
\* the same time, and makes admins only of those who were invited.
THEOREM PanelKeepsAnAdmin == OperatorsSpec => []AdminsSound
PROOF
  <1>1. OperatorsInv => AdminsSound
    BY DEF OperatorsInv, AdminsSound
  <1> QED
    BY OperatorsInitial, OperatorsStep, <1>1, PTL DEF OperatorsSpec
-----------------------------------------------------------------------------
(* AccountAccess *)

SignInStates ==
  {NotYet, [at |-> "challenged"], [at |-> "over"]}
    \union [at : {"read", "open"}, epoch : Nat, after : Nat]

ResetStates == {NotYet} \union 
  [at : {"consumed", "set", "burning"}, link : Nat, sessions : SUBSET SignIns, upTo : Nat]

UnlinkStates ==
  {NotYet} \union [at : {"locked", "counted"}, provider : Providers, password : BOOLEAN]

AccessTyped ==
  /\ account \in [password : BOOLEAN, disabled : BOOLEAN, epoch : Nat]
  /\ linked \subseteq Providers
  /\ signin \in [SignIns -> SignInStates]
  /\ resetLink \in Seq({"live", "used"})
  /\ reset \in [Resets -> ResetStates]
  /\ unlink \in [Unlinks -> UnlinkStates]
  /\ changes \in [burnt : Nat, all : Nat]

\* EpochsCount: the epoch counts what ends sessions, in the row and in what a
\* sign-in has read of it.
EpochsCount ==
  /\ account.epoch = changes.all
  /\ \A i \in SignIns : signin[i].at \in {"read", "open"} => signin[i].epoch = signin[i].after

\* OneUnlinks: an unlink that holds the account's row is the only one, and what
\* it read of the password and counted of the providers stays true.
OneUnlinks ==
  \A u \in Unlinks : unlink[u].at # "none" =>
    /\ \A v \in Unlinks \ {u} : unlink[v].at = "none"
    /\ unlink[u].password => account.password
    /\ unlink[u].at = "counted" => account.password \/ \E q \in linked : q # unlink[u].provider

\* LinksKnown: a burning of links, under way or done, saw links that exist.
LinksKnown ==
  /\ changes.burnt <= Len(resetLink)
  /\ \A x \in Resets : reset[x].at = "burning" => reset[x].upTo <= Len(resetLink)

AccessInv ==
  /\ AccessTyped /\ EpochsCount /\ OneUnlinks /\ SignInRemains
  /\ LinksKnown /\ LinksCurrent

\* A table indexed by 1..n is a sequence.
LEMMA FunctionIsSeq ==
  ASSUME NEW S, NEW n \in Nat, NEW f \in [1..n -> S]
  PROVE  f \in Seq(S)
PROOF
  BY SeqDef

\* The account is new: nobody signed in, no link was mailed.
LEMMA AccessInitial == AccessInit => AccessInv
PROOF
  <1> SUFFICES ASSUME AccessInit PROVE AccessInv
    OBVIOUS
  <1>1. AccessTyped
    <2>1. account \in [password : BOOLEAN, disabled : BOOLEAN, epoch : Nat]
      <3>1. account \in [password : BOOLEAN, disabled : {FALSE}, epoch : {0}]
        BY DEF AccessInit
      <3>2. PICK pw \in BOOLEAN : account = [password |-> pw, disabled |-> FALSE, epoch |-> 0]
        BY <3>1
      <3> QED
        BY <3>2
    <2>2. linked \subseteq Providers /\ resetLink \in Seq({"live", "used"})
      BY DEF AccessInit
    <2> QED
      BY <2>1, <2>2 DEF AccessInit, AccessTyped, SignInStates, ResetStates, UnlinkStates, NotYet
  <1>2. EpochsCount /\ OneUnlinks /\ LinksKnown /\ LinksCurrent
    BY DEF AccessInit, EpochsCount, OneUnlinks, LinksKnown, LinksCurrent, NotYet, Links
  <1>3. SignInRemains
    BY DEF AccessInit, SignInRemains
  <1> QED
    BY <1>1, <1>2, <1>3 DEF AccessInv

\* Every step of a sign-in, a reset, an unlink and the admin's switch keeps the
\* invariant.
LEMMA AccessStep == AccessInv /\ [AccessNext]_aaVars => AccessInv'
PROOF
  <1> SUFFICES ASSUME AccessInv, [AccessNext]_aaVars PROVE AccessInv'
    OBVIOUS
  <1> USE DEF AccessInv, AccessTyped, EpochsCount, OneUnlinks, SignInRemains, LinksKnown, LinksCurrent,
              SignInStates, ResetStates, UnlinkStates, NotYet, Links
  <1>1. ASSUME NEW i \in SignIns, SignInReads(i) PROVE AccessInv'
    BY <1>1 DEF SignInReads, Seen
  <1>2. ASSUME NEW i \in SignIns, SignInChallenged(i) PROVE AccessInv'
    BY <1>2 DEF SignInChallenged
  <1>3. ASSUME NEW i \in SignIns, ChallengePassed(i) PROVE AccessInv'
    BY <1>3 DEF ChallengePassed, Seen
  <1>4. ASSUME NEW i \in SignIns, SessionOpens(i) PROVE AccessInv'
    BY <1>4 DEF SessionOpens
  <1>5. ASSUME NEW i \in SignIns, SessionEnds(i) PROVE AccessInv'
    BY <1>5 DEF SessionEnds
  <1>6. ASSUME LinkMailed PROVE AccessInv'
    BY <1>6 DEF LinkMailed
  <1>7. ASSUME NEW l \in Links, LinkExpires(l) PROVE AccessInv'
    <2>1. /\ resetLink' = [resetLink EXCEPT ![l] = "used"]
          /\ UNCHANGED <<account, linked, signin, reset, unlink, changes>>
      BY <1>7 DEF LinkExpires
    <2>2. /\ resetLink' \in Seq({"live", "used"}) /\ DOMAIN resetLink' = DOMAIN resetLink
          /\ Len(resetLink') = Len(resetLink)
      BY <2>1
    <2>3. LinksKnown' /\ LinksCurrent'
      BY <2>1, <2>2
    <2> QED
      BY <2>1, <2>2, <2>3
  <1>8. ASSUME NEW x \in Resets, NEW l \in Links, ResetConsumes(x, l) PROVE AccessInv'
    BY <1>8 DEF ResetConsumes
  <1>9. ASSUME NEW x \in Resets, ResetSets(x) PROVE AccessInv'
    <2> DEFINE New == [at |-> "set", link |-> reset[x].link, sessions |-> Open, upTo |-> 0]
    <2>1. /\ reset[x].at = "consumed" /\ reset' = [reset EXCEPT ![x] = New]
          /\ UNCHANGED <<account, linked, signin, resetLink, unlink, changes>>
      BY <1>9 DEF ResetSets
    <2>2. reset[x] # NotYet /\ reset[x].link \in Nat /\ Open \in SUBSET SignIns
      BY <2>1 DEF Open
    <2>3. New \in ResetStates /\ New.at = "set" /\ New.link = reset[x].link
      BY <2>2
    <2> HIDE DEF New
    <2>4. reset' \in [Resets -> ResetStates] /\ LinksKnown' /\ LinksCurrent'
      BY <2>1, <2>2, <2>3
    <2> QED
      BY <2>1, <2>4
  <1>10. ASSUME NEW x \in Resets, ResetBurns(x) PROVE AccessInv'
    <2> DEFINE New == [at |-> "burning", link |-> reset[x].link, sessions |-> reset[x].sessions,
                       upTo |-> Len(resetLink)]
    <2>1. /\ reset[x].at = "set" /\ reset' = [reset EXCEPT ![x] = New]
          /\ UNCHANGED <<account, linked, signin, resetLink, unlink, changes>>
      BY <1>10 DEF ResetBurns
    <2>2. /\ reset[x] # NotYet /\ reset[x].link \in Nat /\ reset[x].sessions \in SUBSET SignIns
          /\ Len(resetLink) \in Nat
      BY <2>1, LenProperties
    <2>3. New \in ResetStates /\ New.upTo = Len(resetLink) /\ New.link = reset[x].link
      BY <2>2
    <2> HIDE DEF New
    <2>4. reset' \in [Resets -> ResetStates] /\ LinksKnown' /\ LinksCurrent'
      BY <2>1, <2>2, <2>3
    <2> QED
      BY <2>1, <2>4
  <1>11. ASSUME NEW x \in Resets, ResetCommits(x) PROVE AccessInv'
    <2>1. /\ account' = [account EXCEPT !.password = TRUE, !.epoch = @ + 1]
          /\ signin' = Revoked(reset[x].sessions \cap Open)
          /\ resetLink' = Burnt(x)
          /\ reset' = [reset EXCEPT ![x] = NotYet]
          /\ changes' = [burnt |-> reset[x].upTo, all |-> changes.all + 1]
          /\ UNCHANGED <<linked, unlink>>
      BY <1>11 DEF ResetCommits
    <2>0. /\ reset[x].upTo \in 0..Len(resetLink)
          /\ \A y \in Resets \ {x} : reset[y] # NotYet => reset[y].link > reset[x].upTo
      BY <1>11 DEF ResetCommits
    <2>2. /\ account' \in [password : BOOLEAN, disabled : BOOLEAN, epoch : Nat]
          /\ account'.password /\ account'.epoch = account.epoch + 1
      <3>1. account' = [password |-> TRUE, disabled |-> account.disabled, epoch |-> account.epoch + 1]
        BY <2>1
      <3> QED
        BY <3>1
    <2>3. /\ signin' \in [SignIns -> SignInStates]
          /\ \A i \in SignIns : signin'[i].at \in {"read", "open"} => signin'[i] = signin[i]
      BY <2>1 DEF Revoked
    <2>4. /\ resetLink' \in Seq({"live", "used"})
          /\ DOMAIN resetLink' = DOMAIN resetLink /\ Len(resetLink') = Len(resetLink)
          /\ \A l \in DOMAIN resetLink' : resetLink'[l] = "live" => l > reset[x].upTo
      <3>1. /\ Len(resetLink) \in Nat /\ DOMAIN resetLink = 1..Len(resetLink)
            /\ resetLink \in [1..Len(resetLink) -> {"live", "used"}]
        BY LenProperties
      <3>2. /\ resetLink' \in [1..Len(resetLink) -> {"live", "used"}]
            /\ \A l \in 1..Len(resetLink) : resetLink'[l] = "live" => l > reset[x].upTo
        BY <2>0, <2>1, <3>1 DEF Burnt
      <3>3. resetLink' \in Seq({"live", "used"})
        BY <3>1, <3>2, FunctionIsSeq
      <3> QED
        BY <3>1, <3>2, <3>3, LenProperties
    <2>5. /\ reset' \in [Resets -> ResetStates] /\ changes' \in [burnt : Nat, all : Nat]
          /\ changes'.all = changes.all + 1
      BY <2>0, <2>1
    <2>6. AccessTyped'
      BY <2>1, <2>2, <2>3, <2>4, <2>5
    <2>7. EpochsCount'
      BY <2>2, <2>3, <2>5
    <2>8. OneUnlinks' /\ SignInRemains'
      BY <2>1, <2>2
    <2>9. LinksKnown' /\ LinksCurrent'
      BY <2>0, <2>1, <2>4
    <2> QED
      BY <2>6, <2>7, <2>8, <2>9
  <1>12. ASSUME NEW x \in Resets, ResetAborts(x) PROVE AccessInv'
    BY <1>12 DEF ResetAborts
  <1>13. ASSUME Disable PROVE AccessInv'
    <2>1. /\ account' = [account EXCEPT !.disabled = TRUE, !.epoch = @ + 1]
          /\ signin' = Revoked(Open)
          /\ changes' = [changes EXCEPT !.all = @ + 1]
          /\ UNCHANGED <<linked, resetLink, reset, unlink>>
      BY <1>13 DEF Disable
    <2>2. /\ account' \in [password : BOOLEAN, disabled : BOOLEAN, epoch : Nat]
          /\ account'.password = account.password /\ account'.epoch = account.epoch + 1
          /\ changes' \in [burnt : Nat, all : Nat]
          /\ changes'.all = changes.all + 1 /\ changes'.burnt = changes.burnt
      <3>1. /\ account' = [password |-> account.password, disabled |-> TRUE, epoch |-> account.epoch + 1]
            /\ changes' = [burnt |-> changes.burnt, all |-> changes.all + 1]
        BY <2>1
      <3> QED
        BY <3>1
    <2>3. /\ signin' \in [SignIns -> SignInStates]
          /\ \A i \in SignIns : signin'[i].at \in {"read", "open"} => signin'[i] = signin[i]
      BY <2>1 DEF Revoked
    <2>4. AccessTyped'
      BY <2>1, <2>2, <2>3
    <2>5. EpochsCount'
      BY <2>1, <2>2, <2>3
    <2>6. OneUnlinks' /\ SignInRemains' /\ LinksKnown' /\ LinksCurrent'
      BY <2>1, <2>2
    <2> QED
      BY <2>4, <2>5, <2>6
  <1>14. ASSUME EnableAgain PROVE AccessInv'
    <2>1. /\ account' = [account EXCEPT !.disabled = FALSE]
          /\ UNCHANGED <<linked, signin, resetLink, reset, unlink, changes>>
      BY <1>14 DEF EnableAgain
    <2>2. /\ account' \in [password : BOOLEAN, disabled : BOOLEAN, epoch : Nat]
          /\ account'.password = account.password /\ account'.epoch = account.epoch
      BY <2>1
    <2> QED
      BY <2>1, <2>2
  <1>15. ASSUME NEW p \in Providers, LinkProvider(p) PROVE AccessInv'
    BY <1>15 DEF LinkProvider
  <1>16. ASSUME NEW u \in Unlinks, NEW p \in Providers, UnlinkLocks(u, p) PROVE AccessInv'
    BY <1>16 DEF UnlinkLocks, RowLocks, RowFree
  <1>17. ASSUME NEW u \in Unlinks, UnlinkCounts(u) PROVE AccessInv'
    BY <1>17 DEF UnlinkCounts
  <1>18. ASSUME NEW u \in Unlinks, UnlinkCommits(u) PROVE AccessInv'
    BY <1>18 DEF UnlinkCommits
  <1>19. ASSUME UNCHANGED aaVars PROVE AccessInv'
    BY <1>19 DEF aaVars
  <1> QED
    BY <1>1, <1>2, <1>3, <1>4, <1>5, <1>6, <1>7, <1>8, <1>9, <1>10, <1>11, <1>12, <1>13, <1>14,
       <1>15, <1>16, <1>17, <1>18, <1>19 DEF AccessNext

\* An account keeps a way to sign in; sessions from before its last change are
\* worth nothing, those caught in the middle of it included, and no more are the
\* reset links mailed before the last reset burnt them.
THEOREM AccessHolds == AccessSpec => []AccessSound
PROOF
  <1>1. AccessInv => AccessSound
    BY DEF AccessInv, AccessTyped, EpochsCount, AccessSound, SessionsCurrent, Admits
  <1> QED
    BY AccessInitial, AccessStep, <1>1, PTL DEF AccessSpec
-----------------------------------------------------------------------------
(* TwoFactor *)

Codes ==
  [kind : {"app"}, secret : Nat, step : Steps]
    \union [kind : {"spare"}, spare : SpareCodes] \union {[kind |-> "wrong"]}

Trials ==
  {Unasked}
    \union [at : {"confirm"}, code : [kind : {"app"}, secret : Nat, step : Steps], seen : Nat]
    \union [at : {"clear", "reserve", "spend", "release"}, purpose : Purposes, code : Codes]
    \union [at : {"act"}, purpose : Purposes, code : Codes, seen : Nat]

Creds ==
  [status : {"none", "pending", "confirmed"}, secret : Nat, used : Nat, attempts : Nat,
   lock : {"no", "yes", "over"}]

TwoFactorTyped ==
  /\ cred \in Creds
  /\ spare \subseteq SpareCodes
  /\ trial \in [Challenges -> Trials]
  /\ secrets \in Nat /\ sets \in 0..MaxSets /\ step \in Nat
  /\ spent \in [app : [Steps -> Nat], spare : [SpareCodes -> Nat]]

\* SecretsNew: secrets are numbered as they are made; a code that was read while
\* one was in force is of no other that is still to be confirmed.
SecretsNew ==
  /\ cred.secret <= secrets
  /\ \A c \in Challenges : trial[c].at # "none" /\ trial[c].code.kind = "app" =>
       /\ trial[c].code.secret <= secrets
       /\ trial[c].at # "confirm" /\ cred.status = "pending" => trial[c].code.secret # cred.secret

\* AppOnce: an accepted code of the secret in force is not after the last step
\* used; before the enrolment is confirmed none was accepted.
AppOnce ==
  cred.status # "none" => \A s \in Steps :
    /\ spent.app[s] <= 1
    /\ spent.app[s] = 1 => s <= cred.used
    /\ cred.status = "pending" => spent.app[s] = 0

\* SparesOnce: a backup code that is left, or of a set still to be made, was
\* not accepted.
SparesOnce ==
  \A b \in SpareCodes :
    /\ spent.spare[b] <= 1
    /\ b \in spare => spent.spare[b] = 0 /\ b[1] <= sets
    /\ b[1] > sets => spent.spare[b] = 0

\* A step that ends requests or moves them on leaves their codes.
CodesCarried ==
  /\ trial' \in [Challenges -> Trials]
  /\ \A c \in Challenges : trial'[c].at # "none" =>
       /\ trial[c].at # "none" /\ trial'[c].code = trial[c].code
       /\ trial'[c].at = "confirm" <=> trial[c].at = "confirm"

TwoFactorInv == TwoFactorTyped /\ SecretsNew /\ AppOnce /\ SparesOnce

\* Nobody enrolled.
LEMMA TwoFactorInitial == TwoFactorInit => TwoFactorInv
PROOF
  BY TwoFactorAssumption
  DEF TwoFactorInit, TwoFactorInv, TwoFactorTyped, SecretsNew, AppOnce, SparesOnce, Codes, Trials,
      Creds, Unasked, NoCred

\* GoOn, Proceed and Return carry the codes.
LEMMA TrialMoves ==
  ASSUME TwoFactorTyped, NEW c \in Challenges
  PROVE  /\ Return(c) => CodesCarried
         /\ trial[c].at = "release" /\ Proceed(c) => CodesCarried
         /\ \A at \in {"reserve", "spend", "release"} :
              trial[c].at \in {"clear", "reserve", "spend", "release"} /\ GoOn(c, at) => CodesCarried
PROOF
  <1>1. ASSUME Return(c) PROVE CodesCarried
    BY <1>1 DEF Return, CodesCarried, TwoFactorTyped, Trials, Unasked
  <1>2. ASSUME NEW at \in {"reserve", "spend", "release"},
               trial[c].at \in {"clear", "reserve", "spend", "release"}, GoOn(c, at)
        PROVE CodesCarried
    <2> DEFINE Verifying == [at : {"clear", "reserve", "spend", "release"}, purpose : Purposes,
                             code : Codes]
    <2>1. trial[c] \in Verifying
      BY <1>2 DEF TwoFactorTyped, Trials, Unasked
    <2>2. trial' = [trial EXCEPT ![c] = [trial[c] EXCEPT !.at = at]]
      BY <1>2 DEF GoOn
    <2>3. /\ [trial[c] EXCEPT !.at = at] \in Verifying
          /\ [trial[c] EXCEPT !.at = at].at = at
          /\ [trial[c] EXCEPT !.at = at].code = trial[c].code
      BY <2>1
    <2>4. /\ trial' \in [Challenges -> Trials]
          /\ trial'[c].at = at /\ trial'[c].code = trial[c].code
          /\ \A d \in Challenges \ {c} : trial'[d] = trial[d]
      BY <2>2, <2>3 DEF TwoFactorTyped, Trials
    <2> QED
      BY <1>2, <2>4 DEF CodesCarried
  <1>3. ASSUME trial[c].at = "release", Proceed(c) PROVE CodesCarried
    <2> DEFINE New == [at |-> "act", purpose |-> trial[c].purpose, code |-> trial[c].code, seen |-> sets]
    <2>1. trial[c].purpose \in Purposes /\ trial[c].code \in Codes /\ sets \in Nat
      BY <1>3 DEF TwoFactorTyped, Trials, Unasked
    <2>2. New \in Trials /\ New.at = "act" /\ New.code = trial[c].code
      BY <2>1 DEF Trials
    <2>3. trial' = [trial EXCEPT ![c] = New]
      BY <1>3 DEF Proceed
    <2> HIDE DEF New
    <2>4. /\ trial' \in [Challenges -> Trials]
          /\ trial'[c].at = "act" /\ trial'[c].code = trial[c].code
          /\ \A d \in Challenges \ {c} : trial'[d] = trial[d]
      BY <2>2, <2>3 DEF TwoFactorTyped
    <2> QED
      BY <1>3, <2>4 DEF CodesCarried
  <1> QED
    BY <1>1, <1>2, <1>3

\* Accepting a code of the authenticator counts that code and no backup code.
LEMMA AcceptedCounts ==
  ASSUME TwoFactorTyped, NEW c \in Challenges, Accepted(c)
  PROVE  spent' = [app |-> SpentApp(c), spare |-> spent.spare]
PROOF
  BY DEF Accepted, TwoFactorTyped

\* What that count says: one more for the code's step, if its secret is in force.
LEMMA SpentAppCounts ==
  ASSUME TwoFactorTyped, NEW c \in Challenges, trial[c].code.step \in Steps
  PROVE  /\ SpentApp(c) \in [Steps -> Nat]
         /\ \A s \in Steps :
              \/ SpentApp(c)[s] = spent.app[s]
              \/ /\ s = trial[c].code.step /\ trial[c].code.secret = cred.secret
                 /\ SpentApp(c)[s] = spent.app[s] + 1
PROOF
  <1>1. spent.app \in [Steps -> Nat]
    BY DEF TwoFactorTyped
  <1> QED
    BY <1>1 DEF SpentApp

\* Every step of an enrolment, of a verification and of time keeps the invariant.
LEMMA TwoFactorStep == TwoFactorInv /\ [TwoFactorNext]_tfVars => TwoFactorInv'
PROOF
  <1> SUFFICES ASSUME TwoFactorInv, [TwoFactorNext]_tfVars PROVE TwoFactorInv'
    OBVIOUS
  <1> USE TwoFactorAssumption
      DEF TwoFactorInv, TwoFactorTyped, SecretsNew, AppOnce, SparesOnce, Codes, Trials, Creds, Unasked, Steps
  <1>0. ASSUME CodesCarried, UNCHANGED secrets, cred'.secret <= secrets,
               cred'.status = "pending" => cred.status = "pending" /\ cred'.secret = cred.secret
        PROVE SecretsNew'
    <2> SUFFICES ASSUME NEW c \in Challenges, trial'[c].at # "none", trial'[c].code.kind = "app"
                 PROVE  /\ trial'[c].code.secret <= secrets
                        /\ trial'[c].at # "confirm" /\ cred'.status = "pending"
                             => trial'[c].code.secret # cred'.secret
      BY <1>0
    <2>1. /\ trial[c].at # "none" /\ trial'[c].code = trial[c].code
          /\ trial'[c].at = "confirm" <=> trial[c].at = "confirm"
      BY <1>0 DEF CodesCarried
    <2> QED
      BY <1>0, <2>1
  <1>0a. ASSUME CodesCarried, UNCHANGED <<spare, secrets, sets, step, spent>>, cred' \in Creds,
                cred'.status = cred.status, cred'.secret = cred.secret, cred'.used = cred.used
         PROVE TwoFactorInv'
    BY <1>0, <1>0a DEF CodesCarried
  <1>0b. /\ Released \in Creds
          /\ Released.status = cred.status /\ Released.secret = cred.secret /\ Released.used = cred.used
    BY DEF Released
  <1>1. ASSUME Setup PROVE TwoFactorInv'
    <2>1. /\ secrets' = secrets + 1
          /\ cred' = [status |-> "pending", secret |-> secrets + 1, used |-> 0, attempts |-> 0,
                      lock |-> "no"]
          /\ spent' = [app |-> [s \in Steps |-> 0], spare |-> spent.spare]
          /\ UNCHANGED <<spare, trial, sets, step>>
      BY <1>1 DEF Setup, NoCred
    <2>2. TwoFactorTyped'
      BY <2>1
    <2>3. SecretsNew'
      BY <2>1, SMTT(60)
    <2>4. AppOnce' /\ SparesOnce'
      BY <2>1
    <2> QED
      BY <2>2, <2>3, <2>4
  <1>2. ASSUME StepPasses PROVE TwoFactorInv'
    BY <1>2 DEF StepPasses
  <1>3. ASSUME LockoutPasses PROVE TwoFactorInv'
    BY <1>3 DEF LockoutPasses
  <1>4. ASSUME NEW c \in Challenges, NEW s \in Steps, ReadPending(c, s) PROVE TwoFactorInv'
    BY <1>4 DEF ReadPending, AppCode
  <1>5. ASSUME NEW c \in Challenges, NEW s \in Steps, NEW purpose \in Purposes,
               ChallengeApp(c, purpose, s)
        PROVE TwoFactorInv'
    BY <1>5 DEF ChallengeApp, ReadConfirmed, AppCode
  <1>6. ASSUME NEW c \in Challenges, NEW b \in SpareCodes, NEW purpose \in Purposes,
               ChallengeSpare(c, purpose, b)
        PROVE TwoFactorInv'
    BY <1>6 DEF ChallengeSpare, ReadConfirmed
  <1>7. ASSUME NEW c \in Challenges, ChallengeWrong(c) PROVE TwoFactorInv'
    BY <1>7 DEF ChallengeWrong, ReadConfirmed, Purposes
  <1>8. ASSUME NEW c \in Challenges, ConfirmPending(c) PROVE TwoFactorInv'
    <2> DEFINE app == SpentApp(c)
    <2>1. /\ trial[c].code \in [kind : {"app"}, secret : Nat, step : Steps]
          /\ cred.status = "pending"
          /\ cred' = [status |-> "confirmed", secret |-> cred.secret, used |-> trial[c].code.step,
                      attempts |-> 0, lock |-> "no"]
          /\ sets' = sets + 1 /\ sets' \in 0..MaxSets
          /\ spare' \subseteq spare \union ({sets + 1} \X Spares)
          /\ spent' = [app |-> app, spare |-> spent.spare]
          /\ UNCHANGED <<secrets, step>>
      <3>1. trial[c].code \in [kind : {"app"}, secret : Nat, step : Steps]
        <4>1. trial[c] \in [at : {"confirm"}, code : [kind : {"app"}, secret : Nat, step : Steps], seen : Nat]
          BY <1>8, SMTT(60) DEF ConfirmPending
        <4> QED
          BY <4>1
      <3>2. cred' = [status |-> "confirmed", secret |-> cred.secret, used |-> trial[c].code.step,
                     attempts |-> 0, lock |-> "no"]
        BY <1>8 DEF ConfirmPending, StepUsed
      <3>3. spent' = [app |-> app, spare |-> spent.spare]
        BY <1>8, AcceptedCounts DEF ConfirmPending
      <3>4. /\ sets' = sets + 1 /\ sets' \in 0..MaxSets
            /\ spare' \subseteq spare \union ({sets + 1} \X Spares)
        BY <1>8 DEF ConfirmPending, ReplaceSpares
      <3> QED
        BY <1>8, <3>1, <3>2, <3>3, <3>4 DEF ConfirmPending
    <2>2. CodesCarried
      BY <1>8, TrialMoves DEF ConfirmPending
    <2>3. /\ app \in [Steps -> Nat]
          /\ \A s \in Steps : app[s] <= 1 /\ (app[s] = 1 => s = trial[c].code.step)
      <3>1. spent.app \in [Steps -> Nat] /\ \A s \in Steps : spent.app[s] = 0
        BY <2>1
      <3>2. trial[c].code.step \in Steps
        BY <2>1
      <3> QED
        BY <3>1, <3>2, SpentAppCounts
    <2>4. TwoFactorTyped'
      <3>1. cred' \in Creds
        BY <2>1
      <3>2. spare' \subseteq SpareCodes
        BY <2>1 DEF SpareCodes
      <3> QED
        BY <2>1, <2>2, <2>3, <3>1, <3>2 DEF CodesCarried
    <2>5. SecretsNew'
      BY <1>0, <2>1, <2>2
    <2>6. AppOnce'
      BY <2>1, <2>3
    <2>7. SparesOnce'
      BY <2>1 DEF SpareCodes
    <2> QED
      BY <2>4, <2>5, <2>6, <2>7
  <1>9. ASSUME NEW c \in Challenges, ClearLock(c) PROVE TwoFactorInv'
    <2>1. CodesCarried
      BY <1>9, TrialMoves DEF ClearLock
    <2> QED
      BY <1>9, <1>0a, <1>0b, <2>1 DEF ClearLock
  <1>10. ASSUME NEW c \in Challenges, ReserveAttempt(c) PROVE TwoFactorInv'
    <2>1. CodesCarried
      BY <1>10, TrialMoves DEF ReserveAttempt
    <2>2. /\ cred' \in Creds
          /\ cred'.status = cred.status /\ cred'.secret = cred.secret /\ cred'.used = cred.used
      <3>1. PICK lock \in {"no", "yes", "over"} :
              cred' = [cred EXCEPT !.attempts = @ + 1, !.lock = lock]
        BY <1>10 DEF ReserveAttempt
      <3>2. cred' = [status |-> cred.status, secret |-> cred.secret, used |-> cred.used,
                     attempts |-> cred.attempts + 1, lock |-> lock]
        BY <3>1
      <3> QED
        BY <3>2
    <2> QED
      BY <1>10, <1>0a, <2>1, <2>2 DEF ReserveAttempt
  <1>11. ASSUME NEW c \in Challenges, SpendApp(c) PROVE TwoFactorInv'
    <2> DEFINE app == SpentApp(c)
    <2>1. /\ trial[c].at = "spend" /\ trial[c].code \in [kind : {"app"}, secret : Nat, step : Steps]
          /\ cred.status # "none" /\ cred.used < trial[c].code.step
          /\ cred' = [cred EXCEPT !.used = trial[c].code.step]
          /\ spent' = [app |-> app, spare |-> spent.spare]
          /\ UNCHANGED <<spare, secrets, sets, step>>
      <3>1. trial[c].at = "spend" /\ trial[c].code \in [kind : {"app"}, secret : Nat, step : Steps]
        BY <1>11 DEF SpendApp
      <3>2. spent' = [app |-> app, spare |-> spent.spare]
        BY <1>11, AcceptedCounts DEF SpendApp
      <3> QED
        BY <1>11, <3>1, <3>2 DEF SpendApp, Advances
    <2>2. CodesCarried
      BY <1>11, TrialMoves DEF SpendApp
    <2>3. /\ cred' \in Creds
          /\ cred'.status = cred.status /\ cred'.secret = cred.secret /\ cred'.used = trial[c].code.step
      <3>1. trial[c].code.step \in Nat
        BY <2>1
      <3>2. cred' = [status |-> cred.status, secret |-> cred.secret, used |-> trial[c].code.step,
                     attempts |-> cred.attempts, lock |-> cred.lock]
        BY <2>1
      <3> QED
        BY <3>1, <3>2
    <2>4. /\ app \in [Steps -> Nat]
          /\ \A s \in Steps : app[s] <= 1 /\ (app[s] = 1 => s <= trial[c].code.step)
          /\ cred.status = "pending" => \A s \in Steps : app[s] = 0
      <3>1. trial[c].code.step \in Steps /\ trial[c].code.step \in Nat
        BY <2>1
      <3>2. cred.status = "pending" => trial[c].code.secret # cred.secret
        BY <2>1
      <3>3. \A s \in Steps : /\ spent.app[s] \in Nat /\ spent.app[s] <= 1
                             /\ spent.app[s] = 1 => s <= cred.used
                             /\ cred.status = "pending" => spent.app[s] = 0
        BY <2>1
      <3>4. /\ app \in [Steps -> Nat]
            /\ \A s \in Steps :
                 \/ app[s] = spent.app[s]
                 \/ /\ s = trial[c].code.step /\ trial[c].code.secret = cred.secret
                    /\ app[s] = spent.app[s] + 1
        BY <3>1, SpentAppCounts
      <3>5. /\ cred.used \in Nat /\ cred.used < trial[c].code.step
            /\ Steps \subseteq Nat
        BY <2>1
      <3> HIDE DEF TwoFactorInv, app, Steps
      <3> QED
        BY <3>1, <3>2, <3>3, <3>4, <3>5
    <2>5. TwoFactorTyped' /\ SecretsNew'
      BY <1>0, <2>1, <2>2, <2>3, <2>4 DEF CodesCarried
    <2>6. AppOnce' /\ SparesOnce'
      BY <2>1, <2>3, <2>4
    <2> QED
      BY <2>5, <2>6
  <1>12. ASSUME NEW c \in Challenges, SpendReplayed(c) PROVE TwoFactorInv'
    <2>1. CodesCarried
      BY <1>12, TrialMoves DEF SpendReplayed
    <2> QED
      BY <1>12, <1>0a, <1>0b, <2>1 DEF SpendReplayed
  <1>13. ASSUME NEW c \in Challenges, SpendSpare(c) PROVE TwoFactorInv'
    <2> DEFINE code == trial[c].code.spare
    <2>1. /\ code \in spare /\ code \in SpareCodes
          /\ spare' = spare \ {code}
          /\ spent' = [app |-> spent.app, spare |-> [spent.spare EXCEPT ![code] = @ + 1]]
          /\ UNCHANGED <<cred, secrets, sets, step>>
      BY <1>13 DEF SpendSpare
    <2>2. CodesCarried
      BY <1>13, TrialMoves DEF SpendSpare
    <2>3. TwoFactorTyped' /\ SecretsNew'
      BY <1>0, <2>1, <2>2 DEF CodesCarried
    <2>4. AppOnce'
      BY <2>1
    <2>5. SparesOnce'
      <3>1. \A b \in SpareCodes :
              spent'.spare[b] = IF b = code THEN spent.spare[b] + 1 ELSE spent.spare[b]
        BY <2>1
      <3>2. spent.spare[code] = 0 /\ code[1] <= sets
        BY <2>1
      <3>3. \A b \in SpareCodes : b[1] \in Nat
        BY DEF SpareCodes
      <3> QED
        BY <2>1, <3>1, <3>2, <3>3
    <2> QED
      BY <2>3, <2>4, <2>5
  <1>14. ASSUME NEW c \in Challenges, ReleaseAttempt(c) PROVE TwoFactorInv'
    <2>1. CodesCarried
      BY <1>14, TrialMoves DEF ReleaseAttempt
    <2> QED
      BY <1>14, <1>0a, <1>0b, <2>1 DEF ReleaseAttempt
  <1>15. ASSUME NEW c \in Challenges, ChallengeFails(c) PROVE TwoFactorInv'
    BY <1>15 DEF ChallengeFails, Return
  <1>16. ASSUME NEW c \in Challenges, DisableTwoFactor(c) PROVE TwoFactorInv'
    BY <1>16 DEF DisableTwoFactor, NoCred, Return
  <1>17. ASSUME NEW c \in Challenges, Regenerate(c) PROVE TwoFactorInv'
    <2>1. /\ sets' = sets + 1 /\ sets' \in 0..MaxSets
          /\ spare' \subseteq spare \union ({sets + 1} \X Spares)
          /\ UNCHANGED <<cred, secrets, step, spent>>
      BY <1>17 DEF Regenerate, ReplaceSpares
    <2>2. CodesCarried
      BY <1>17, TrialMoves DEF Regenerate
    <2>3. TwoFactorTyped' /\ SecretsNew'
      BY <1>0, <2>1, <2>2 DEF CodesCarried, SpareCodes
    <2>4. AppOnce' /\ SparesOnce'
      BY <2>1 DEF SpareCodes
    <2> QED
      BY <2>3, <2>4
  <1>18. ASSUME UNCHANGED tfVars PROVE TwoFactorInv'
    BY <1>18 DEF tfVars
  <1> QED
    BY <1>1, <1>2, <1>3, <1>4, <1>5, <1>6, <1>7, <1>8, <1>9, <1>10, <1>11, <1>12, <1>13, <1>14,
       <1>15, <1>16, <1>17, <1>18 DEF TwoFactorNext

\* A code of the secret in force, and a backup code, is accepted once at most,
\* however many requests present it at once and whatever they started under.
THEOREM SecondFactorHolds == TwoFactorSpec => []CodesSpentOnce
PROOF
  <1>1. TwoFactorInv => CodesSpentOnce
    BY DEF TwoFactorInv, AppOnce, SparesOnce, CodesSpentOnce
  <1> QED
    BY TwoFactorInitial, TwoFactorStep, <1>1, PTL DEF TwoFactorSpec
-----------------------------------------------------------------------------
(* TenantRequests *)

SignupRows ==
  {NoRequest, Swept}
    \union [status : {"pending", "approved", "denied", "accepted"}, email : Emails, name : Names,
            expired : BOOLEAN]

UpgradeRows == {NoUpgrade} \union [status : {"pending", "approved", "denied"}, tier : Tiers]

Doings ==
  {Resting}
    \union [doing : {"signup"}, email : Emails, name : Names]
    \union [doing : {"approve", "accept"}, request : Signups, name : Names]
    \union [doing : {"submit"}, tier : Tiers]
    \union [doing : {"upgrade"}, request : Upgrades, tier : Tiers]

RequestsTyped ==
  /\ signup \in [Signups -> SignupRows]
  /\ tenant \subseteq [name : Names, signup : Signups \union {NoSignup}]
  /\ upgrade \in [Upgrades -> UpgradeRows]
  /\ tier \in Tiers
  /\ handler \in [Handlers -> Doings]

\* LooksLast: what an accept or an approval under way has read of its request
\* is still there, unless the request was decided or swept meanwhile.
LooksLast ==
  \A h \in Handlers :
    /\ handler[h].doing = "accept" =>
         LET r == handler[h].request IN
         /\ signup[r].status \in {"approved", "accepted", "swept"}
         /\ signup[r].status = "approved" => signup[r].name = handler[h].name
    /\ handler[h].doing = "upgrade" =>
         LET u == handler[h].request IN
         upgrade[u].status # "none" /\ upgrade[u].tier = handler[h].tier

RequestsInv == RequestsTyped /\ LooksLast /\ OneTenantPerSignup /\ LiveNamesDiffer

\* Nothing was asked for.
LEMMA RequestsInitial == RequestsInit => RequestsInv
PROOF
  BY RequestsAssumption
  DEF RequestsInit, RequestsInv, RequestsTyped, LooksLast, OneTenantPerSignup, LiveNamesDiffer,
      SignupRows, UpgradeRows, Doings, NoRequest, Swept, NoUpgrade, Resting, IsLive, Tiers

\* Every step of a handler and of the sweep keeps the invariant and the
\* decisions about tiers.
LEMMA RequestsStep ==
  RequestsInv /\ [RequestsNext]_trVars => RequestsInv' /\ [ApprovalRaisesTier]_trVars
PROOF
  <1> DEFINE Goal == RequestsInv' /\ ApprovalRaisesTier
  <1> SUFFICES ASSUME RequestsInv, [RequestsNext]_trVars
               PROVE  RequestsInv' /\ [ApprovalRaisesTier]_trVars
    OBVIOUS
  <1> USE RequestsAssumption
      DEF RequestsInv, RequestsTyped, LooksLast, OneTenantPerSignup, LiveNamesDiffer,
          SignupRows, UpgradeRows, Doings, NoRequest, Swept, NoUpgrade, Resting, IsLive,
          ApprovalRaisesTier
  <1>1. ASSUME NEW h \in Handlers, NEW e \in Emails, NEW name \in Names, SignupCheck(h, e, name)
        PROVE Goal
    BY <1>1 DEF SignupCheck, Begin
  <1>2. ASSUME NEW h \in Handlers, NEW r \in Signups, NEW name \in Names, ApproveCheck(h, r, name)
        PROVE Goal
    BY <1>2 DEF ApproveCheck, Begin
  <1>3. ASSUME NEW h \in Handlers, NEW r \in Signups, SignupCreate(h, r) PROVE Goal
    BY <1>3 DEF SignupCreate, End, NameFree
  <1>4. ASSUME NEW h \in Handlers, NEW r \in Signups, AcceptFind(h, r) PROVE Goal
    BY <1>4 DEF AcceptFind, Begin
  <1>5. ASSUME NEW h \in Handlers, Approve(h) PROVE Goal
    <2> DEFINE r == handler[h].request
    <2>1. /\ handler[h] \in [doing : {"approve", "accept"}, request : Signups, name : Names]
          /\ signup[r] \in [status : {"pending"}, email : Emails, name : Names, expired : BOOLEAN]
          /\ handler' = [handler EXCEPT ![h] = Resting]
          /\ signup' = [signup EXCEPT ![r] = [signup[r] EXCEPT !.status = "approved", !.name = handler[h].name]]
          /\ UNCHANGED <<tenant, upgrade, tier>>
      <3>1. handler[h] \in [doing : {"approve", "accept"}, request : Signups, name : Names]
        BY <1>5 DEF Approve, End
      <3>2. signup[r] \in [status : {"pending"}, email : Emails, name : Names, expired : BOOLEAN]
        BY <1>5, <3>1 DEF Approve
      <3> QED
        BY <1>5, <3>1, <3>2 DEF Approve, End
    <2>2. /\ signup'[r] \in [status : {"approved"}, email : Emails, name : {handler[h].name}, expired : BOOLEAN]
          /\ \A q \in Signups \ {r} : signup'[q] = signup[q]
      BY <2>1, ZenonT(60)
    <2>3. RequestsTyped'
      BY <2>1, <2>2
    <2>4. LooksLast' /\ OneTenantPerSignup'
      BY <2>1, <2>2
    <2>5. LiveNamesDiffer'
      BY <1>5, <2>1, <2>2 DEF Approve, NameFree
    <2> QED
      BY <2>1, <2>3, <2>4, <2>5
  <1>6. ASSUME NEW h \in Handlers, Accept(h) PROVE Goal
    BY <1>6, SMTT(60) DEF Accept, End, Marks
  <1>7. ASSUME NEW h \in Handlers, GiveUp(h) PROVE Goal
    BY <1>7 DEF GiveUp
  <1>8. ASSUME NEW r \in Signups, Deny(r) PROVE Goal
    BY <1>8 DEF Deny
  <1>9. ASSUME NEW r \in Signups, CodeExpires(r) PROVE Goal
    <2>1. /\ signup[r] \in [status : {"approved"}, email : Emails, name : Names, expired : BOOLEAN]
          /\ signup' = [signup EXCEPT ![r] = [signup[r] EXCEPT !.expired = TRUE]]
          /\ UNCHANGED <<tenant, upgrade, tier, handler>>
      BY <1>9 DEF CodeExpires
    <2>2. /\ signup'[r] \in [status : {"approved"}, email : Emails, name : {signup[r].name}, expired : BOOLEAN]
          /\ \A q \in Signups \ {r} : signup'[q] = signup[q]
      BY <2>1
    <2>3. RequestsTyped'
      BY <2>1, <2>2
    <2>4. LooksLast' /\ OneTenantPerSignup' /\ LiveNamesDiffer'
      BY <2>1, <2>2
    <2> QED
      BY <2>1, <2>3, <2>4
  <1>10. ASSUME SweepSignups PROVE Goal
    BY <1>10 DEF SweepSignups
  <1>11. ASSUME NEW name \in Names, CreateTenant(name) PROVE Goal
    BY <1>11 DEF CreateTenant
  <1>12. ASSUME NEW h \in Handlers, NEW t \in Tiers, SubmitCheck(h, t) PROVE Goal
    BY <1>12 DEF SubmitCheck, Begin
  <1>13. ASSUME NEW h \in Handlers, NEW u \in Upgrades, Submit(h, u) PROVE Goal
    BY <1>13 DEF Submit, End
  <1>14. ASSUME NEW h \in Handlers, NEW u \in Upgrades, UpgradeRead(h, u) PROVE Goal
    BY <1>14 DEF UpgradeRead, Begin
  <1>15. ASSUME NEW h \in Handlers, UpgradeApply(h) PROVE Goal
    BY <1>15 DEF UpgradeApply, End, Raises
  <1>16. ASSUME NEW u \in Upgrades, DenyUpgrade(u) PROVE Goal
    BY <1>16 DEF DenyUpgrade
  <1>17. ASSUME NEW t \in Tiers, SetTier(t) PROVE Goal
    BY <1>17 DEF SetTier
  <1>18. ASSUME UNCHANGED trVars PROVE RequestsInv'
    BY <1>18 DEF trVars
  <1> QED
    BY <1>1, <1>2, <1>3, <1>4, <1>5, <1>6, <1>7, <1>8, <1>9, <1>10, <1>11, <1>12, <1>13, <1>14,
       <1>15, <1>16, <1>17, <1>18 DEF RequestsNext, SignupNext, TierNext

\* Tenants are made for accepted sign-ups, one each; no two live requests hold
\* one name; an approval raises the tier to what was asked, once.
THEOREM RequestsHold == RequestsSpec => RequestsSound
PROOF
  <1>1. RequestsInv' => OneTenantPerSignup' /\ LiveNamesDiffer'
    BY DEF RequestsInv
  <1> QED
    BY RequestsInitial, RequestsStep, <1>1, PTL DEF RequestsSpec, RequestsSound

-----------------------------------------------------------------------------
(* GroupFormation *)

\* Assembled: whole entries, no ticket twice, any two of them compatible.
Assembled(g) ==
  /\ \A i, j \in DOMAIN g : i < j => g[i] # g[j] /\ Compatible(g[i], g[j])
  /\ \A t \in ToSet(g) : EntryTickets(t) \subseteq ToSet(g)

\* Mate: a ticket of the seed's region.
Mate(t) == Crit(t).region = Crit(seed).region

\* Suits: a solo ticket of the seed's region the group has every reason to take.
Suits(u) ==
  /\ u \notin used
  /\ Mate(u)
  /\ EntryTickets(u) = {u}
  /\ Crit(u).max >= Crit(seed).max
  /\ \A m \in ToSet(group) : Mate(m) => <<u, m>> \notin claim.rejects /\ <<m, u>> \notin claim.rejects

\* MatesOnly: the group has nobody from another region.
MatesOnly == \A t \in ToSet(group) : Mate(t)

\* MatesTaken: region-mates come first in the group, and every one that suits it is in it.
MatesTaken ==
  /\ \A i, j \in DOMAIN group : i < j /\ Mate(group[j]) => Mate(group[i])
  /\ \A u \in 1..N : Suits(u) => u \in ToSet(group)

\* Uniform: a pool of solo tickets with the same criteria.
Uniform ==
  /\ \A i, j \in 1..N : i # j => claim.entry[i] # claim.entry[j]
  /\ \A e \in 1..N : claim.crit[e] = claim.crit[1]
  /\ claim.rejects = {}
  /\ claim.crit[1].max % claim.crit[1].mult = 0

\* Most: the size of a full group of equals.
Most == claim.crit[1].max

\* FrontTaken: all groups so far are full and take the pool's front; the one
\* being filled goes on where they end.
FrontTaken ==
  /\ \A i \in DOMAIN groups : Len(groups[i]) = Most
  /\ used = 1 .. Len(groups) * Most
  /\ seed <= Len(groups) * Most + 1
  /\ pass # "seed" =>
       /\ \A i \in DOMAIN group : group[i] = (seed + i) - 1
       /\ Len(group) < Most =>
            seed + Len(group) = IF pass # "same" THEN N + 1
                                ELSE IF cursor > seed THEN cursor ELSE seed + 1

\* RestDecided: the sizes are decided, and what is left is too little.
RestDecided ==
  /\ [i \in DOMAIN groups |-> Len(groups[i])] = ReferenceSizes(claim.crit[1])
  /\ \E w \in 0..N :
       /\ used = 1..w
       /\ N - w < Most
       /\ \/ seed > claim.relaxed
          \/ \A k \in claim.crit[1].min .. N - w : k % claim.crit[1].mult # 0

\* FillingSound: a group being filled begins with its seed's own entry and is
\* of whole entries nobody has used; no ticket is in it twice, any two go
\* together, and no member finds it too large.
FillingSound ==
  pass # "seed" =>
    /\ seed \in (1..N) \ used
    /\ Len(EntryMembers(seed)) <= Len(group)
    /\ \A k \in DOMAIN EntryMembers(seed) : group[k] = EntryMembers(seed)[k]
    /\ Assembled(group)
    /\ ToSet(group) \cap used = {}
    /\ Len(group) <= JointMax(group)

\* RegionsInOrder: the seed's region-mates come first in the group, and the pass
\* for other regions begins when there is no more of them to be had.
RegionsInOrder ==
  /\ pass = "same" =>
       /\ MatesOnly
       /\ \A u \in 1 .. cursor - 1 : Suits(u) => u \in ToSet(group) \/ Full(group)
  /\ pass = "other" => MatesTaken
  /\ pass = "filled" => MatesOnly \/ MatesTaken

\* EqualsInOrder: over a pool of equals the pass takes full groups from the
\* front until fewer are left than make one; from then on the sizes are those
\* of the reference and nothing that is left can be a group.
EqualsInOrder == Uniform => FrontTaken \/ RestDecided

\* DoesAlone: a ticket whose entry would be a group by itself.
DoesAlone(t) ==
  LET n == Cardinality(EntryTickets(t)) IN
  /\ n \in Crit(t).min .. Crit(t).max /\ n % Crit(t).mult = 0
  /\ \A u, v \in EntryTickets(t) : u # v => <<u, v>> \notin claim.rejects
  /\ t <= claim.relaxed \/ n = Crit(t).max

\* LeftoversSeen: no such ticket is left behind the seed.
LeftoversSeen == \A t \in 1 .. seed - 1 : t \in used \/ ~DoesAlone(t)

\* UsedIsGrouped: the used tickets are those of the groups.
UsedIsGrouped == used = UNION {ToSet(groups[i]) : i \in DOMAIN groups}

\* GroupsInv: the inductive invariant of the pass.
GroupsInv ==
  /\ TypeOK /\ UsedIsGrouped /\ GroupsPartition /\ GroupsAgree
  /\ FillingSound /\ LeftoversSeen /\ RegionsInOrder /\ SameRegionFirst /\ EqualsInOrder

-----------------------------------------------------------------------------
\* A non-empty set of numbers has a least one.
LEMMA LeastNumber ==
  ASSUME NEW T \in SUBSET Nat, T # {}
  PROVE  \E x \in T : \A y \in T : x <= y
PROOF
  <1> DEFINE R == OpToRel(<, Nat)
  <1>1. PICK x \in T : \A y \in T : ~(<<y, x>> \in R)
    <2> HIDE DEF R
    <2> QED
      BY NatLessThanWellFounded, WFMin DEF R
  <1>2. \A y \in T : ~(y < x)
    BY <1>1 DEF OpToRel
  <1>3. \A y \in T : x <= y
    BY <1>2
  <1> QED
    BY <1>3

\* A non-empty bounded set of numbers has a greatest one.
LEMMA GreatestNumber ==
  ASSUME NEW b \in Nat, NEW T \in SUBSET (0..b), T # {}
  PROVE  \E x \in T : \A y \in T : y <= x
PROOF
  <1> DEFINE Gaps == {b - x : x \in T}
  <1>1. Gaps \in SUBSET Nat /\ Gaps # {}
    <2>1. \A x \in T : b - x \in Nat
      OBVIOUS
    <2>2. Gaps \subseteq Nat
      BY <2>1
    <2>3. Gaps # {}
      OBVIOUS
    <2> QED
      BY <2>2, <2>3
  <1>2. PICK g \in Gaps : \A h \in Gaps : g <= h
    <2> HIDE DEF Gaps
    <2> QED
      BY <1>1, LeastNumber
  <1>3. PICK x \in T : g = b - x
    BY <1>2
  <1>4. ASSUME NEW y \in T PROVE y <= x
    <2>1. b - y \in Gaps
      OBVIOUS
    <2>2. b - x <= b - y
      BY <1>2, <1>3, <2>1
    <2> QED
      BY <2>2
  <1> QED
    BY <1>4

\* A finite set of ticket numbers can be listed in order.
LEMMA OrderedListing ==
  ASSUME NEW S \in SUBSET (1..N)
  PROVE  /\ IsFiniteSet(S) /\ Cardinality(S) \in Nat
         /\ \E f \in [1 .. Cardinality(S) -> S] : \A i, j \in DOMAIN f : i < j => f[i] < f[j]
PROOF
  <1>0. \A u \in S : u \in 1..N /\ u \in Int
    BY NAssumption
  <1>1. IsFiniteSet(S) /\ Cardinality(S) \in Nat
    <2>1. IsFiniteSet(1..N)
      BY NAssumption, FS_Interval
    <2>2. IsFiniteSet(S)
      BY <2>1, FS_Subset
    <2> QED
      BY <2>2, FS_CardinalityType
  <1> DEFINE Upto(u) == {v \in S : v <= u}
             n == Cardinality(S)
             r == [u \in S |-> Cardinality(Upto(u))]
  <1>2. ASSUME NEW u \in S PROVE IsFiniteSet(Upto(u)) /\ Cardinality(Upto(u)) \in 1..n
    <2>1. Upto(u) \in SUBSET S /\ Upto(u) # {}
      BY NAssumption
    <2>2. IsFiniteSet(Upto(u)) /\ Cardinality(Upto(u)) <= n
      <3> HIDE DEF Upto
      <3> QED
        BY <1>1, <2>1, FS_Subset
    <2>3. Cardinality(Upto(u)) \in Nat /\ Cardinality(Upto(u)) # 0
      <3> HIDE DEF Upto
      <3> QED
        BY <2>1, <2>2, FS_CardinalityType, FS_EmptySet
    <2> HIDE DEF Upto, n
    <2>4. n \in Nat
      BY <1>1 DEF n
    <2> QED
      BY <2>2, <2>3, <2>4
  <1>3. ASSUME NEW u \in S, NEW v \in S, u < v PROVE r[u] < r[v]
    <2>1. Upto(u) \in SUBSET Upto(v) /\ v \in Upto(v) /\ v \notin Upto(u)
      <3>1. \A x \in S : x <= u => x <= v
        BY <1>0, <1>3
      <3>2. v <= v /\ ~(v <= u)
        BY <1>0, <1>3
      <3> QED
        BY <3>1, <3>2
    <2>2. IsFiniteSet(Upto(v)) /\ Cardinality(Upto(u)) \in Nat /\ Cardinality(Upto(v)) \in Nat
      <3> HIDE DEF Upto
      <3> QED
        BY <1>1, <1>2 DEF n
    <2>3. Cardinality(Upto(u)) <= Cardinality(Upto(v)) /\ Cardinality(Upto(u)) # Cardinality(Upto(v))
      <3> HIDE DEF Upto
      <3> QED
        BY <2>1, <2>2, FS_Subset
    <2>4. Cardinality(Upto(u)) < Cardinality(Upto(v))
      <3> HIDE DEF Upto
      <3> QED
        BY <2>2, <2>3
    <2>5. r[u] = Cardinality(Upto(u)) /\ r[v] = Cardinality(Upto(v))
      OBVIOUS
    <2> QED
      BY <2>4, <2>5
  <1>4. r \in [S -> 1..n]
    BY <1>2
  <1> HIDE DEF r
  <1>5. n \in Nat /\ IsFiniteSet(1..n) /\ Cardinality(1..n) = n
    <2>1. n \in Nat
      BY <1>1
    <2> HIDE DEF n
    <2> QED
      BY <2>1, FS_Interval
  <1>6. \A u, v \in S : r[u] = r[v] => u = v
    <2> SUFFICES ASSUME NEW u \in S, NEW v \in S, r[u] = r[v] PROVE u = v
      OBVIOUS
    <2>1. r[u] \in Int /\ u \in Int /\ v \in Int
      BY <1>4, <1>5, NAssumption
    <2>2. ~(u < v) /\ ~(v < u)
      BY <1>3, <2>1
    <2> QED
      BY <2>1, <2>2
  <1>7. r \in Injection(S, 1..n)
    BY <1>4, <1>6 DEF Injection, IsInjective
  <1>8. r \in Surjection(S, 1..n)
    BY <1>1, <1>5, <1>7, FS_Injection
  <1>9. \A k \in 1..n : \E u \in S : r[u] = k
    BY <1>8 DEF Surjection
  <1> DEFINE f == [k \in 1..n |-> CHOOSE u \in S : r[u] = k]
  <1>10. \A k \in 1..n : f[k] \in S /\ r[f[k]] = k
    BY <1>9
  <1>11. f \in [1..n -> S] /\ DOMAIN f = 1..n
    BY <1>10
  <1> HIDE DEF f
  <1>12. ASSUME NEW i \in 1..n, NEW j \in 1..n, i < j PROVE f[i] < f[j]
    <2>1. f[i] \in S /\ f[j] \in S /\ r[f[i]] = i /\ r[f[j]] = j
      BY <1>10
    <2>2. f[i] \in Int /\ f[j] \in Int
      BY <1>0, <2>1
    <2>3. i \in Int /\ j \in Int
      BY <1>5
    <2>4. f[i] # f[j]
      BY <1>12, <2>1, <2>3
    <2>5. ~(f[j] < f[i])
      <3>1. f[j] < f[i] => r[f[j]] < r[f[i]]
        BY <1>3, <2>1
      <3> QED
        BY <1>12, <2>1, <2>3, <3>1
    <2> QED
      BY <2>2, <2>4, <2>5
  <1> HIDE DEF n
  <1> QED
    BY <1>1, <1>11, <1>12 DEF n

\* What a claim's criteria and ages are.
LEMMA CriteriaTyped ==
  ASSUME claim \in Inputs
  PROVE  /\ claim.relaxed \in Nat /\ claim.widen \in Nat
         /\ \A t \in 1..N : /\ claim.entry[t] \in 1..N
                            /\ Crit(t).max \in Nat \ {0}
                            /\ Crit(t).min \in Nat \ {0} /\ Crit(t).min <= Crit(t).max
                            /\ Crit(t).mult \in Nat \ {0}
                            /\ EntryTickets(t) \in SUBSET (1..N) /\ t \in EntryTickets(t)
                            /\ \A u \in EntryTickets(t) : /\ u \in 1..N /\ Crit(u) = Crit(t)
                                                          /\ EntryTickets(u) = EntryTickets(t)
PROOF
  <1>1. claim.relaxed \in Nat /\ claim.widen \in Nat
    BY NAssumption, InputsAssumption
  <1>2. ASSUME NEW t \in 1..N PROVE claim.entry[t] \in 1..N
    BY InputsAssumption
  <1>3. ASSUME NEW t \in 1..N
        PROVE /\ Crit(t).max \in Nat \ {0}
              /\ Crit(t).min \in Nat \ {0} /\ Crit(t).min <= Crit(t).max
              /\ Crit(t).mult \in Nat \ {0}
    <2>1. /\ Crit(t).max \in Nat /\ Crit(t).min \in 1..Crit(t).max
          /\ Crit(t).mult \in Nat \ {0}
      BY <1>2, InputsAssumption DEF Crit
    <2> QED
      BY <2>1
  <1>4. ASSUME NEW t \in 1..N
        PROVE /\ EntryTickets(t) \in SUBSET (1..N) /\ t \in EntryTickets(t)
              /\ \A u \in EntryTickets(t) : /\ u \in 1..N /\ Crit(u) = Crit(t)
                                            /\ EntryTickets(u) = EntryTickets(t)
    BY DEF EntryTickets, Crit
  <1> QED
    BY <1>1, <1>2, <1>3, <1>4

\* entryMembers lists the tickets of an entry, each once.
LEMMA EntryListed ==
  ASSUME claim \in Inputs, NEW t \in 1..N
  PROVE  /\ EntryMembers(t) \in Seq(1..N)
         /\ Len(EntryMembers(t)) = Cardinality(EntryTickets(t))
         /\ Len(EntryMembers(t)) \in Nat \ {0}
         /\ DOMAIN EntryMembers(t) = 1 .. Len(EntryMembers(t))
         /\ ToSet(EntryMembers(t)) = EntryTickets(t)
         /\ \A i \in DOMAIN EntryMembers(t) : EntryMembers(t)[i] \in EntryTickets(t)
         /\ \A i, j \in DOMAIN EntryMembers(t) : i < j => EntryMembers(t)[i] < EntryMembers(t)[j]
PROOF
  <1> DEFINE S == EntryTickets(t)
             n == Cardinality(S)
             F == EntryMembers(t)
  <1>1. S \in SUBSET (1..N) /\ t \in S
    BY CriteriaTyped
  <1>2. /\ IsFiniteSet(S) /\ n \in Nat
        /\ \E f \in [1..n -> S] : \A i, j \in DOMAIN f : i < j => f[i] < f[j]
    BY <1>1, OrderedListing
  <1>3. F \in [1..n -> S] /\ \A i, j \in DOMAIN F : i < j => F[i] < F[j]
    BY <1>2 DEF EntryMembers
  <1> HIDE DEF S, F
  <1>4. n # 0
    BY <1>1, <1>2, FS_EmptySet
  <1> HIDE DEF n
  <1>5. F \in Seq(1..N) /\ Len(F) = n /\ DOMAIN F = 1..n
    <2>1. F \in [1..n -> 1..N]
      BY <1>1, <1>3
    <2> HIDE DEF S, F, n
    <2>2. F \in Seq(1..N)
      BY <1>2, <2>1, SeqDef
    <2>3. DOMAIN F = 1..n
      BY <2>1
    <2>4. Len(F) = n
      BY <1>2, <2>2, <2>3, LenProperties
    <2> QED
      BY <2>2, <2>3, <2>4
  <1>6. ASSUME NEW i \in 1..n, NEW j \in 1..n, F[i] = F[j] PROVE i = j
    <2>1. F[i] \in Int /\ F[j] \in Int
      <3>1. F[i] \in S /\ F[j] \in S
        BY <1>3
      <3>2. \A u \in S : u \in Int
        BY <1>1, NAssumption
      <3> QED
        BY <3>1, <3>2
    <2>2. i \in Int /\ j \in Int
      BY <1>2
    <2> QED
      BY <1>3, <1>5, <1>6, <2>1, <2>2
  <1>7. F \in Injection(1..n, S)
    BY <1>3, <1>6 DEF Injection, IsInjective
  <1>8. IsFiniteSet(1..n) /\ Cardinality(1..n) = n
    BY <1>2, FS_Interval
  <1>9. F \in Surjection(1..n, S)
    BY <1>2, <1>7, <1>8, FS_Injection DEF n
  <1>10. ToSet(F) = S
    <2>1. \A i \in DOMAIN F : F[i] \in S
      BY <1>3, <1>5
    <2>2. \A u \in S : \E i \in DOMAIN F : F[i] = u
      BY <1>5, <1>9 DEF Surjection
    <2> QED
      BY <2>1, <2>2 DEF ToSet
  <1>11. Len(F) = Cardinality(S)
    BY <1>5 DEF n
  <1>12. Len(F) \in Nat \ {0} /\ DOMAIN F = 1..Len(F)
    BY <1>2, <1>4, <1>5
  <1>13. \A i \in DOMAIN F : F[i] \in S
    BY <1>3, <1>5
  <1> QED
    BY <1>3, <1>5, <1>10, <1>11, <1>12, <1>13 DEF S, F

\* jointMax of a group is the max_count of one of them and no larger than any.
LEMMA JointMaxIsLeast ==
  ASSUME claim \in Inputs, NEW g \in Seq(1..N), g # <<>>
  PROVE  /\ JointMax(g) \in Nat \ {0}
         /\ \E i \in DOMAIN g : JointMax(g) = Crit(g[i]).max
         /\ \A i \in DOMAIN g : JointMax(g) <= Crit(g[i]).max
PROOF
  <1> DEFINE T == {Crit(g[i]).max : i \in DOMAIN g}
  <1>1. \A i \in DOMAIN g : g[i] \in 1..N
    BY LenProperties, ElementOfSeq
  <1>2. \A i \in DOMAIN g : Crit(g[i]).max \in Nat \ {0}
    BY <1>1, CriteriaTyped
  <1>3. 1 \in DOMAIN g
    BY LenProperties, EmptySeq
  <1>4. T \in SUBSET Nat /\ T # {}
    BY <1>2, <1>3
  <1>5. PICK x \in T : \A y \in T : x <= y
    <2> HIDE DEF T
    <2> QED
      BY <1>4, LeastNumber
  <1>6. \A i \in DOMAIN g : x <= Crit(g[i]).max
    BY <1>5
  <1>7. JointMax(g) \in T /\ \A i \in DOMAIN g : JointMax(g) <= Crit(g[i]).max
    BY <1>5, <1>6 DEF JointMax
  <1> QED
    BY <1>2, <1>7

\* largestValidSize is 0 or the greatest valid size.
LEMMA LargestIsGreatest ==
  ASSUME NEW g \in Seq(1..N)
  PROVE  /\ LargestValidSize(g) \in 0 .. Len(g)
         /\ LargestValidSize(g) # 0 => LargestValidSize(g) \in ValidSizes(g)
         /\ \A size \in ValidSizes(g) : size <= LargestValidSize(g)
PROOF
  <1>1. Len(g) \in Nat
    OBVIOUS
  <1>2. \A size \in ValidSizes(g) : size \in 1 .. Len(g)
    BY DEF ValidSizes
  <1> DEFINE T == ValidSizes(g) \union {0}
  <1>3. T \in SUBSET (0 .. Len(g)) /\ T # {}
    BY <1>1, <1>2
  <1>4. PICK x \in T : \A y \in T : y <= x
    <2> HIDE DEF T
    <2> QED
      BY <1>1, <1>3, GreatestNumber
  <1>5. \A other \in ValidSizes(g) : other <= x
    BY <1>4
  <1>6. LargestValidSize(g) \in T /\ \A other \in ValidSizes(g) : other <= LargestValidSize(g)
    BY <1>5 DEF LargestValidSize
  <1> QED
    BY <1>3, <1>6

\* Whether two tickets go together does not depend on which of them asks.
LEMMA CompatibleBothWays ==
  ASSUME NEW a, NEW b, Compatible(a, b)
  PROVE  Compatible(b, a)
PROOF
  <1>1. RegionsCompatible(b, a)
    BY DEF Compatible, RegionsCompatible
  <1>2. MutualAccept(b, a)
    BY DEF Compatible, MutualAccept
  <1> QED
    BY <1>1, <1>2 DEF Compatible

\* What an entry's tickets appended to a group make of it.
LEMMA Joined ==
  ASSUME NEW g \in Seq(1..N), NEW e \in Seq(1..N)
  PROVE  /\ g \o e \in Seq(1..N) /\ Len(g \o e) = Len(g) + Len(e)
         /\ Len(g) \in Nat /\ Len(e) \in Nat
         /\ DOMAIN g = 1 .. Len(g) /\ DOMAIN e = 1 .. Len(e)
         /\ DOMAIN (g \o e) = 1 .. Len(g) + Len(e)
         /\ \A i \in DOMAIN g : i \in DOMAIN (g \o e) /\ (g \o e)[i] = g[i]
         /\ \A i \in DOMAIN e : /\ i + Len(g) \in DOMAIN (g \o e)
                                /\ (g \o e)[i + Len(g)] = e[i]
         /\ \A i \in DOMAIN (g \o e) :
              \/ i \in DOMAIN g /\ (g \o e)[i] = g[i]
              \/ i - Len(g) \in DOMAIN e /\ (g \o e)[i] = e[i - Len(g)]
         /\ ToSet(g \o e) = ToSet(g) \union ToSet(e)
PROOF
  <1> DEFINE h == g \o e
             m == Len(g)
             n == Len(e)
  <1>1. /\ h \in Seq(1..N) /\ Len(h) = m + n
        /\ \A i \in 1 .. m + n : h[i] = IF i <= m THEN g[i] ELSE e[i - m]
    BY ConcatProperties
  <1>2. m \in Nat /\ n \in Nat /\ DOMAIN g = 1..m /\ DOMAIN e = 1..n /\ DOMAIN h = 1 .. m + n
    BY <1>1, LenProperties
  <1> HIDE DEF h, m, n
  <1>3. \A i \in DOMAIN g : i \in DOMAIN h /\ h[i] = g[i]
    BY <1>1, <1>2
  <1>4. \A i \in DOMAIN e : i + m \in DOMAIN h /\ h[i + m] = e[i]
    <2> SUFFICES ASSUME NEW i \in 1..n PROVE i + m \in 1 .. m + n /\ h[i + m] = e[i]
      BY <1>2
    <2>1. i + m \in 1 .. m + n /\ ~(i + m <= m) /\ (i + m) - m = i
      BY <1>2
    <2> QED
      BY <1>1, <2>1
  <1>5. \A i \in DOMAIN h : \/ i \in DOMAIN g /\ h[i] = g[i]
                            \/ i - m \in DOMAIN e /\ h[i] = e[i - m]
    <2> SUFFICES ASSUME NEW i \in 1 .. m + n
                 PROVE \/ i \in 1..m /\ h[i] = g[i]
                       \/ i - m \in 1..n /\ h[i] = e[i - m]
      BY <1>2
    <2>1. CASE i <= m
      BY <1>1, <1>2, <2>1
    <2>2. CASE ~(i <= m)
      <3>1. i - m \in 1..n
        BY <1>2, <2>2
      <3> QED
        BY <1>1, <2>2, <3>1
    <2> QED
      BY <2>1, <2>2
  <1>6. ToSet(h) = ToSet(g) \union ToSet(e)
    <2>1. \A x \in ToSet(h) : x \in ToSet(g) \union ToSet(e)
      BY <1>5 DEF ToSet
    <2>2. \A x \in ToSet(g) : x \in ToSet(h)
      BY <1>3 DEF ToSet
    <2>3. \A x \in ToSet(e) : x \in ToSet(h)
      BY <1>4 DEF ToSet
    <2> QED
      BY <2>1, <2>2, <2>3
  <1> QED
    BY <1>1, <1>2, <1>3, <1>4, <1>5, <1>6 DEF h, m, n

\* The seed's own entry is a group to begin with.
LEMMA OwnEntryAssembled ==
  ASSUME claim \in Inputs, NEW s \in 1..N, EntryCompatible(<<>>, EntryMembers(s))
  PROVE  /\ Assembled(EntryMembers(s))
         /\ Len(EntryMembers(s)) <= JointMax(EntryMembers(s))
PROOF
  <1> DEFINE e == EntryMembers(s)
  <1>1. /\ e \in Seq(1..N) /\ Len(e) \in Nat /\ DOMAIN e = 1..Len(e)
        /\ ToSet(e) = EntryTickets(s)
        /\ \A i \in DOMAIN e : e[i] \in EntryTickets(s)
        /\ \A i, j \in DOMAIN e : i < j => e[i] < e[j]
    BY EntryListed
  <1>2. /\ 0 + Len(e) <= JointMax(e)
        /\ \A i \in DOMAIN e : \A j \in 1 .. i - 1 : Compatible(e[j], e[i])
    BY DEF EntryCompatible
  <1> HIDE DEF e
  <1>3. ASSUME NEW i \in DOMAIN e, NEW j \in DOMAIN e, i < j PROVE e[i] # e[j] /\ Compatible(e[i], e[j])
    <2>1. e[i] < e[j] /\ e[i] \in Int /\ e[j] \in Int
      <3>1. \A u \in EntryTickets(s) : u \in Int
        BY NAssumption, CriteriaTyped
      <3> QED
        BY <1>1, <1>3, <3>1
    <2>2. i \in 1 .. j - 1
      BY <1>1, <1>3
    <2> QED
      BY <1>2, <2>1, <2>2
  <1>4. \A t \in ToSet(e) : EntryTickets(t) \subseteq ToSet(e)
    BY <1>1, CriteriaTyped
  <1>5. Assembled(e)
    BY <1>3, <1>4 DEF Assembled
  <1>6. Len(e) <= JointMax(e)
    BY <1>1, <1>2
  <1> QED
    BY <1>5, <1>6 DEF e

\* A candidate that may join brings its whole entry, which is not in the group,
\* and the group stays one.
LEMMA JoinedAssembled ==
  ASSUME claim \in Inputs, NEW g \in Seq(1..N), g # <<>>, Assembled(g),
         NEW c \in 1..N, c \notin ToSet(g),
         EntryCompatible(g, EntryMembers(c)),
         Len(g) + Len(EntryMembers(c)) <= JointMax(g),
         Len(g) + Len(EntryMembers(c)) <= JointMax(EntryMembers(c))
  PROVE  /\ Assembled(g \o EntryMembers(c))
         /\ Len(g \o EntryMembers(c)) <= JointMax(g \o EntryMembers(c))
PROOF
  <1> DEFINE e == EntryMembers(c)
             h == g \o e
             m == Len(g)
  <1>1. /\ e \in Seq(1..N) /\ Len(e) \in Nat \ {0} /\ DOMAIN e = 1..Len(e)
        /\ ToSet(e) = EntryTickets(c)
        /\ \A i \in DOMAIN e : e[i] \in EntryTickets(c)
        /\ \A i, j \in DOMAIN e : i < j => e[i] < e[j]
    BY EntryListed
  <1>2. \A i \in DOMAIN e :
          /\ CompatibleWithAll(g, e[i])
          /\ \A j \in 1 .. i - 1 : Compatible(e[j], e[i])
    BY DEF EntryCompatible
  <1> HIDE DEF e
  <1>3. /\ h \in Seq(1..N) /\ Len(h) = m + Len(e)
        /\ m \in Nat /\ DOMAIN g = 1..m
        /\ DOMAIN h = 1 .. m + Len(e)
        /\ \A i \in DOMAIN h : \/ i \in DOMAIN g /\ h[i] = g[i]
                               \/ i - m \in DOMAIN e /\ h[i] = e[i - m]
        /\ ToSet(h) = ToSet(g) \union ToSet(e)
    BY <1>1, Joined
  <1>4. /\ \A i, j \in DOMAIN g : i < j => g[i] # g[j] /\ Compatible(g[i], g[j])
        /\ \A t \in ToSet(g) : EntryTickets(t) \subseteq ToSet(g)
    BY DEF Assembled
  <1>5. \A u \in EntryTickets(c) : u \notin ToSet(g)
    <2> SUFFICES ASSUME NEW u \in EntryTickets(c), u \in ToSet(g) PROVE FALSE
      OBVIOUS
    <2>1. EntryTickets(u) = EntryTickets(c) /\ c \in EntryTickets(c)
      BY CriteriaTyped
    <2> QED
      BY <1>4, <2>1
  <1>6. \A u \in EntryTickets(c) : u \in Int
    BY NAssumption, CriteriaTyped
  <1> HIDE DEF h, m
  <1>7. ASSUME NEW i \in DOMAIN h, NEW j \in DOMAIN h, i < j PROVE h[i] # h[j] /\ Compatible(h[i], h[j])
    <2>1. CASE i \in DOMAIN g /\ h[i] = g[i] /\ j \in DOMAIN g /\ h[j] = g[j]
      BY <1>4, <1>7, <2>1
    <2>2. CASE i \in DOMAIN g /\ h[i] = g[i] /\ j - m \in DOMAIN e /\ h[j] = e[j - m]
      <3>1. e[j - m] \in EntryTickets(c) /\ g[i] \in ToSet(g)
        BY <1>1, <2>2 DEF ToSet
      <3>2. Compatible(g[i], e[j - m])
        BY <1>2, <2>2 DEF CompatibleWithAll
      <3> QED
        BY <1>5, <2>2, <3>1, <3>2
    <2>3. CASE i - m \in DOMAIN e /\ h[i] = e[i - m] /\ j - m \in DOMAIN e /\ h[j] = e[j - m]
      <3>1. i - m < j - m /\ i - m \in 1 .. (j - m) - 1
        BY <1>1, <1>3, <1>7, <2>3
      <3>2. e[i - m] < e[j - m] /\ e[i - m] \in Int /\ e[j - m] \in Int
        BY <1>1, <1>6, <2>3, <3>1
      <3>3. Compatible(e[i - m], e[j - m])
        BY <1>2, <2>3, <3>1
      <3> QED
        BY <2>3, <3>2, <3>3
    <2>4. CASE i - m \in DOMAIN e /\ j \in DOMAIN g
      BY <1>1, <1>3, <1>7, <2>4
    <2> QED
      BY <1>3, <2>1, <2>2, <2>3, <2>4
  <1>8. \A t \in ToSet(h) : EntryTickets(t) \subseteq ToSet(h)
    <2>1. \A t \in EntryTickets(c) : EntryTickets(t) = EntryTickets(c)
      BY CriteriaTyped
    <2> QED
      BY <1>1, <1>3, <1>4, <2>1
  <1>9. Assembled(h)
    BY <1>7, <1>8 DEF Assembled
  <1>10. Len(h) <= JointMax(h)
    <2>1. h # <<>> /\ e # <<>>
      BY <1>1, <1>3, EmptySeq
    <2>2. PICK i \in DOMAIN h : JointMax(h) = Crit(h[i]).max
      BY <1>3, <2>1, JointMaxIsLeast
    <2>3. /\ \A k \in DOMAIN g : JointMax(g) <= Crit(g[k]).max
          /\ \A k \in DOMAIN e : JointMax(e) <= Crit(e[k]).max
          /\ JointMax(g) \in Nat /\ JointMax(e) \in Nat
      BY <1>1, <2>1, JointMaxIsLeast
    <2>4. Crit(h[i]).max \in Nat
      BY <1>3, CriteriaTyped, ElementOfSeq
    <2>5. m + Len(e) <= JointMax(g) /\ m + Len(e) <= JointMax(e)
      BY DEF e, m
    <2>6. CASE i \in DOMAIN g /\ h[i] = g[i]
      <3>1. JointMax(g) <= Crit(h[i]).max
        BY <2>3, <2>6
      <3> QED
        BY <1>1, <1>3, <2>2, <2>3, <2>4, <2>5, <3>1
    <2>7. CASE i - m \in DOMAIN e /\ h[i] = e[i - m]
      <3>1. JointMax(e) <= Crit(h[i]).max
        BY <2>3, <2>7
      <3> QED
        BY <1>1, <1>3, <2>2, <2>3, <2>4, <2>5, <3>1
    <2> QED
      BY <1>3, <2>6, <2>7
  <1> QED
    BY <1>9, <1>10 DEF h, e

\* A prefix of valid size is a group whose members all accept its size.
LEMMA CutAssembled ==
  ASSUME claim \in Inputs, NEW g \in Seq(1..N), Assembled(g), NEW size \in ValidSizes(g)
  PROVE  /\ size \in 1 .. Len(g)
         /\ SubSeq(g, 1, size) \in Seq(1..N) /\ Len(SubSeq(g, 1, size)) = size
         /\ DOMAIN SubSeq(g, 1, size) = 1..size
         /\ \A i \in 1..size : i \in DOMAIN g /\ SubSeq(g, 1, size)[i] = g[i]
         /\ Assembled(SubSeq(g, 1, size))
         /\ \A t \in ToSet(SubSeq(g, 1, size)) :
              /\ t \in ToSet(g) /\ t \in 1..N
              /\ size \in Crit(t).min .. Crit(t).max /\ size % Crit(t).mult = 0
PROOF
  <1> DEFINE h == SubSeq(g, 1, size)
  <1>1. Len(g) \in Nat /\ DOMAIN g = 1 .. Len(g) /\ \A i \in DOMAIN g : g[i] \in 1..N
    BY LenProperties, ElementOfSeq
  <1>2. size \in 1 .. Len(g) /\ WholeEntryPrefix(g, size) /\ ValidSize(h, size)
    BY DEF ValidSizes
  <1>3. h \in Seq(1..N) /\ Len(h) = size /\ \A i \in 1..size : h[i] = g[i]
    <2>1. \A i \in 1..size : g[i] \in 1..N
      BY <1>1, <1>2
    <2>2. 1 \in Int /\ size \in Int /\ 1 <= size /\ (size - 1) + 1 = size
      BY <1>1, <1>2
    <2>3. /\ h \in Seq(1..N) /\ Len(h) = (size - 1) + 1
          /\ \A i \in 1 .. (size - 1) + 1 : h[i] = g[(1 + i) - 1]
      BY <2>1, <2>2, SubSeqProperties
    <2>4. \A i \in 1..size : (1 + i) - 1 = i
      BY <1>1, <1>2
    <2> QED
      BY <2>2, <2>3, <2>4
  <1> HIDE DEF h
  <1>4. DOMAIN h = 1..size /\ \A i \in 1..size : i \in DOMAIN g
    BY <1>1, <1>2, <1>3, LenProperties
  <1>5. \A i, j \in DOMAIN h : i < j => h[i] # h[j] /\ Compatible(h[i], h[j])
    BY <1>3, <1>4 DEF Assembled
  <1>6. ASSUME NEW t \in ToSet(h), NEW u \in EntryTickets(t) PROVE u \in ToSet(h)
    <2>1. PICK i \in 1..size : t = h[i]
      BY <1>4 DEF ToSet
    <2>2. t = g[i] /\ t \in ToSet(g)
      BY <1>3, <1>4, <2>1 DEF ToSet
    <2>3. PICK j \in DOMAIN g : u = g[j]
      BY <2>2 DEF Assembled, ToSet
    <2>4. claim.entry[u] = claim.entry[t]
      BY DEF EntryTickets
    <2>5. CASE j > size
      <3>1. j \in size + 1 .. Len(g)
        BY <1>1, <1>2, <2>5
      <3> QED
        BY <1>2, <2>2, <2>3, <2>4, <3>1 DEF WholeEntryPrefix
    <2>6. CASE j <= size
      <3>1. j \in 1..size
        BY <1>1, <1>2, <2>6
      <3> QED
        BY <1>3, <1>4, <2>3, <3>1 DEF ToSet
    <2> QED
      BY <1>1, <1>2, <2>5, <2>6
  <1>7. Assembled(h)
    BY <1>5, <1>6 DEF Assembled
  <1>8. ASSUME NEW t \in ToSet(h)
        PROVE  /\ t \in ToSet(g) /\ t \in 1..N
               /\ size \in Crit(t).min .. Crit(t).max /\ size % Crit(t).mult = 0
    <2>1. PICK i \in 1..size : t = h[i]
      BY <1>4 DEF ToSet
    <2> QED
      BY <1>1, <1>2, <1>3, <1>4, <2>1 DEF ToSet, ValidSize
  <1> QED
    BY <1>2, <1>3, <1>4, <1>7, <1>8 DEF h

\* A group without repetitions has as many tickets as it is long.
LEMMA AssembledCount ==
  ASSUME NEW g \in Seq(1..N), Assembled(g)
  PROVE  Cardinality(ToSet(g)) = Len(g) /\ IsFiniteSet(ToSet(g)) /\ ToSet(g) \subseteq 1..N
PROOF
  <1>1. Len(g) \in Nat /\ DOMAIN g = 1 .. Len(g) /\ \A i \in DOMAIN g : g[i] \in 1..N
    BY LenProperties, ElementOfSeq
  <1> DEFINE n == Len(g)
  <1>2. g \in [1..n -> ToSet(g)]
    BY <1>1, LenProperties DEF ToSet
  <1> HIDE DEF n
  <1>3. \A i, j \in 1..n : g[i] = g[j] => i = j
    <2> SUFFICES ASSUME NEW i \in 1..n, NEW j \in 1..n, g[i] = g[j], i # j PROVE FALSE
      OBVIOUS
    <2>1. i \in DOMAIN g /\ j \in DOMAIN g /\ (i < j \/ j < i)
      BY <1>1 DEF n
    <2> QED
      BY <2>1 DEF Assembled
  <1>4. g \in Injection(1..n, ToSet(g)) /\ g \in Surjection(1..n, ToSet(g))
    <2>1. \A t \in ToSet(g) : \E i \in 1..n : g[i] = t
      BY <1>1 DEF ToSet, n
    <2> QED
      BY <1>2, <1>3, <2>1 DEF Injection, Surjection, IsInjective
  <1>5. IsFiniteSet(1..n) /\ Cardinality(1..n) = n
    <2>1. n \in Nat
      BY <1>1 DEF n
    <2> QED
      BY <2>1, FS_Interval
  <1>6. IsFiniteSet(ToSet(g)) /\ Cardinality(ToSet(g)) = Cardinality(1..n)
    BY <1>4, <1>5, FS_Surjection
  <1>7. ToSet(g) \subseteq 1..N
    BY <1>1 DEF ToSet
  <1> QED
    BY <1>5, <1>6, <1>7 DEF n

\* The claim does not change, and so neither does what the operators read of it.
LEMMA ClaimFixed ==
  ASSUME UNCHANGED claim
  PROVE  /\ \A t : Crit(t)' = Crit(t) /\ EntryTickets(t)' = EntryTickets(t)
         /\ \A t : EntryMembers(t)' = EntryMembers(t)
         /\ \A a, b : Compatible(a, b)' = Compatible(a, b)
         /\ \A g : JointMax(g)' = JointMax(g)
PROOF
  <1>1. \A t : Crit(t)' = Crit(t) /\ EntryTickets(t)' = EntryTickets(t)
    BY DEF Crit, EntryTickets
  <1>2. \A t : EntryMembers(t)' = EntryMembers(t)
    BY DEF EntryMembers, EntryTickets
  <1>3. \A a, b : Compatible(a, b)' = Compatible(a, b)
    <2>1. Widened' = Widened
      BY <1>1 DEF Widened
    <2>2. \A a, b : RegionsCompatible(a, b)' = RegionsCompatible(a, b)
      BY <1>1, <2>1 DEF RegionsCompatible
    <2>3. \A a, b : MutualAccept(a, b)' = MutualAccept(a, b)
      BY DEF MutualAccept, Accepts
    <2> QED
      BY <2>2, <2>3 DEF Compatible
  <1>4. \A g : JointMax(g)' = JointMax(g)
    BY DEF JointMax, Crit
  <1> QED
    BY <1>1, <1>2, <1>3, <1>4

\* Closing takes the largest valid prefix or nothing.
LEMMA ClosedHow ==
  ASSUME TypeOK, CloseGroup
  PROVE  \/ /\ used' = used /\ groups' = groups
            /\ \/ LargestValidSize(group) = 0
               \/ /\ ~Full(SubSeq(group, 1, LargestValidSize(group)))
                  /\ ~Relaxed(seed)
         \/ /\ LargestValidSize(group) \in ValidSizes(group)
            /\ LargestValidSize(group) # 0
            /\ used' = used \union ToSet(SubSeq(group, 1, LargestValidSize(group)))
            /\ groups' = Append(groups, SubSeq(group, 1, LargestValidSize(group)))
            /\ \/ Full(SubSeq(group, 1, LargestValidSize(group)))
               \/ Relaxed(seed)
PROOF
  <1>1. group \in Seq(1..N)
    BY DEF TypeOK
  <1>2. LargestValidSize(group) # 0 => LargestValidSize(group) \in ValidSizes(group)
    BY <1>1, LargestIsGreatest
  <1> QED
    BY <1>2 DEF CloseGroup

\* The steps before a group is closed leave the groups alone.
LEMMA FillingIsQuiet ==
  ASSUME Next, ~CloseGroup
  PROVE  UNCHANGED <<used, groups>>
PROOF
  BY DEF Next, PassOver, StartGroup, SkipCandidate, JoinGroup, EndOfPass

\* A step changes no claim.
LEMMA StepKeepsClaim ==
  ASSUME Next
  PROVE  UNCHANGED claim
PROOF
  BY DEF Next, PassOver, StartGroup, SkipCandidate, JoinGroup, EndOfPass, CloseGroup

\* Types are kept.
LEMMA GroupTypesStep ==
  ASSUME GroupsInv, Next
  PROVE  TypeOK'
PROOF
  <1> USE DEF TypeOK
  <1>0. TypeOK /\ FillingSound
    BY DEF GroupsInv
  <1>1. claim' \in Inputs
    BY <1>0, StepKeepsClaim
  <1>2. ASSUME NEW s \in 1..N, PassOver(s) PROVE TypeOK'
    BY <1>0, <1>1, <1>2, NAssumption DEF PassOver
  <1>3. ASSUME NEW s \in 1..N, StartGroup(s) PROVE TypeOK'
    <2>1. EntryMembers(s) \in Seq(1..N)
      BY <1>0, EntryListed
    <2> QED
      BY <1>0, <1>1, <1>3, <2>1, NAssumption DEF StartGroup
  <1>4. ASSUME NEW c \in 1..N, SkipCandidate(c) PROVE TypeOK'
    BY <1>0, <1>1, <1>4, NAssumption DEF SkipCandidate
  <1>5. ASSUME NEW c \in 1..N, JoinGroup(c) PROVE TypeOK'
    <2>1. EntryMembers(c) \in Seq(1..N)
      BY <1>0, EntryListed
    <2>2. group \o EntryMembers(c) \in Seq(1..N)
      BY <1>0, <2>1, ConcatProperties
    <2>3. c + 1 \in 1 .. N + 1
      BY NAssumption
    <2>4. pass' \in {"seed", "same", "other", "filled"}
      BY <1>0, <1>5 DEF JoinGroup
    <2> QED
      BY <1>0, <1>1, <1>5, <2>2, <2>3, <2>4 DEF JoinGroup
  <1>6. ASSUME EndOfPass PROVE TypeOK'
    BY <1>0, <1>1, <1>6, NAssumption DEF EndOfPass
  <1>7. ASSUME CloseGroup PROVE TypeOK'
    <2>1. seed \in 1..N /\ group \in Seq(1..N) /\ Assembled(group)
      BY <1>0, <1>7 DEF CloseGroup, FillingSound
    <2>2. seed' \in 1 .. N + 1 /\ pass' \in {"seed", "same", "other", "filled"} /\ cursor' \in 1 .. N + 1
          /\ group' \in Seq(1..N)
      BY <1>0, <1>7, <2>1, NAssumption DEF CloseGroup
    <2>3. CASE used' = used /\ groups' = groups
      BY <1>0, <1>1, <2>2, <2>3
    <2>4. CASE /\ LargestValidSize(group) \in ValidSizes(group)
               /\ used' = used \union ToSet(SubSeq(group, 1, LargestValidSize(group)))
               /\ groups' = Append(groups, SubSeq(group, 1, LargestValidSize(group)))
      <3> DEFINE cut == SubSeq(group, 1, LargestValidSize(group))
      <3>1. cut \in Seq(1..N) /\ Assembled(cut)
        BY <1>0, <2>1, <2>4, CutAssembled
      <3> HIDE DEF cut
      <3>2. ToSet(cut) \subseteq 1..N
        BY <3>1, AssembledCount
      <3>3. used' = used \union ToSet(cut) /\ groups' = Append(groups, cut)
        BY <2>4 DEF cut
      <3>4. groups' \in Seq(Seq(1..N))
        BY <1>0, <3>1, <3>3, AppendProperties
      <3> QED
        BY <1>0, <1>1, <2>2, <3>2, <3>3, <3>4
    <2> QED
      BY <1>0, <1>7, <2>3, <2>4, ClosedHow
  <1> QED
    BY <1>2, <1>3, <1>4, <1>5, <1>6, <1>7 DEF Next

\* A group taken is the last of the groups.
LEMMA AppendedLast ==
  ASSUME NEW old \in Seq(Seq(1..N)), NEW cut \in Seq(1..N), NEW new, new = Append(old, cut)
  PROVE  /\ Len(old) \in Nat /\ Len(new) = Len(old) + 1
         /\ DOMAIN old = 1 .. Len(old) /\ DOMAIN new = 1 .. Len(old) + 1
         /\ \A i \in DOMAIN old : i \in DOMAIN new /\ new[i] = old[i] /\ i # Len(old) + 1
         /\ Len(old) + 1 \in DOMAIN new /\ new[Len(old) + 1] = cut
         /\ \A i \in DOMAIN new : i \in DOMAIN old \/ i = Len(old) + 1
PROOF
  <1>1. new \in Seq(Seq(1..N)) /\ Len(old) \in Nat /\ DOMAIN old = 1 .. Len(old)
    BY AppendProperties, LenProperties
  <1>2. /\ Len(new) = Len(old) + 1 /\ \A i \in 1 .. Len(old) : new[i] = old[i]
        /\ new[Len(old) + 1] = cut
    BY AppendProperties
  <1>3. DOMAIN new = 1 .. Len(old) + 1
    BY <1>1, <1>2, LenProperties
  <1> QED
    BY <1>1, <1>2, <1>3

\* Two compatible tickets agree to be in one group.
LEMMA CompatibleAgree ==
  ASSUME NEW t, NEW u, Compatible(t, u)
  PROVE  /\ {<<t, u>>, <<u, t>>} \cap claim.rejects = {}
         /\ \/ Cardinality({Crit(t).region, Crit(u).region} \ {NoRegion}) <= 1
            \/ /\ Crit(t).cross /\ Crit(u).cross
               /\ \E v \in 1 .. claim.widen : Crit(v).cross
PROOF
  <1>1. {<<t, u>>, <<u, t>>} \cap claim.rejects = {}
    BY DEF Compatible, MutualAccept, Accepts
  <1>2. RegionsCompatible(t, u)
    BY DEF Compatible
  <1> DEFINE a == Crit(t).region
             b == Crit(u).region
             both == {a, b} \ {NoRegion}
  <1>3. CASE a = b \/ NoRegion \in {a, b}
    <2>1. both = {} \/ both = {a} \/ both = {b}
      BY <1>3
    <2>2. Cardinality({}) = 0 /\ Cardinality({a}) = 1 /\ Cardinality({b}) = 1
      BY FS_EmptySet, FS_Singleton
    <2>3. Cardinality(both) = 0 \/ Cardinality(both) = 1
      BY <2>1, <2>2
    <2>4. Cardinality(both) <= 1
      <3> HIDE DEF both
      <3> QED
        BY <2>3
    <2> QED
      BY <1>1, <2>4
  <1>4. CASE Widened /\ Crit(t).cross /\ Crit(u).cross
    BY <1>1, <1>4 DEF Widened
  <1> QED
    BY <1>2, <1>3, <1>4 DEF RegionsCompatible

\* A cut of valid size is agreed to.
LEMMA CutAgreed ==
  ASSUME claim \in Inputs, NEW g \in Seq(1..N), Assembled(g), NEW size \in ValidSizes(g)
  PROVE  Agreed(SubSeq(g, 1, size))
PROOF
  <1> DEFINE h == SubSeq(g, 1, size)
  <1>1. /\ h \in Seq(1..N) /\ Len(h) = size /\ DOMAIN h = 1..size /\ Assembled(h)
        /\ size \in 1 .. Len(g)
        /\ \A t \in ToSet(h) : t \in 1..N /\ size \in Crit(t).min .. Crit(t).max /\ size % Crit(t).mult = 0
    BY CutAssembled
  <1> HIDE DEF h
  <1>2. ASSUME NEW t \in ToSet(h)
        PROVE Len(h) >= Crit(t).min /\ Len(h) <= Crit(t).max /\ Len(h) % Crit(t).mult = 0
    <2>1. Crit(t).min \in Nat /\ Crit(t).max \in Nat /\ size \in Crit(t).min .. Crit(t).max
      BY <1>1, CriteriaTyped
    <2> QED
      BY <1>1, <2>1
  <1>3. ASSUME NEW t \in ToSet(h), NEW u \in ToSet(h), t # u PROVE Compatible(t, u)
    <2>1. PICK i \in DOMAIN h : t = h[i]
      BY DEF ToSet
    <2>2. PICK j \in DOMAIN h : u = h[j]
      BY DEF ToSet
    <2>3. i < j \/ j < i
      <3>1. size \in Nat
        BY <1>1, LenProperties
      <3> QED
        BY <1>1, <1>3, <2>1, <2>2, <3>1
    <2>4. Compatible(t, u) \/ Compatible(u, t)
      BY <1>1, <2>1, <2>2, <2>3 DEF Assembled
    <2> QED
      BY <2>4, CompatibleBothWays
  <1> QED
    BY <1>2, <1>3, CompatibleAgree DEF Agreed, h

\* A step leaves the groups formed so far, and a group it adds is apart from
\* them and agreed to.
LEMMA GroupsApartStep ==
  ASSUME GroupsInv, Next
  PROVE  UsedIsGrouped' /\ GroupsPartition' /\ GroupsAgree'
PROOF
  <1>0. /\ TypeOK /\ UsedIsGrouped /\ GroupsPartition /\ GroupsAgree /\ FillingSound
        /\ claim \in Inputs /\ group \in Seq(1..N) /\ groups \in Seq(Seq(1..N))
    BY DEF GroupsInv, TypeOK
  <1>1. /\ UNCHANGED claim
        /\ \A t : Crit(t)' = Crit(t) /\ EntryTickets(t)' = EntryTickets(t)
        /\ \A g : Agreed(g)' = Agreed(g)
    <2>1. UNCHANGED claim /\ \A t : Crit(t)' = Crit(t) /\ EntryTickets(t)' = EntryTickets(t)
      BY StepKeepsClaim, ClaimFixed
    <2>2. \A g : Agreed(g)' = Agreed(g)
      BY <2>1 DEF Agreed
    <2> QED
      BY <2>1, <2>2
  <1>2. CASE UNCHANGED <<used, groups>>
    <2>1. UsedIsGrouped'
      BY <1>0, <1>2 DEF UsedIsGrouped
    <2>2. GroupsPartition'
      BY <1>0, <1>1, <1>2 DEF GroupsPartition, Groups
    <2>3. GroupsAgree'
      BY <1>0, <1>1, <1>2 DEF GroupsAgree, Groups
    <2> QED
      BY <2>1, <2>2, <2>3
  <1>3. CASE /\ CloseGroup
             /\ LargestValidSize(group) \in ValidSizes(group)
             /\ used' = used \union ToSet(SubSeq(group, 1, LargestValidSize(group)))
             /\ groups' = Append(groups, SubSeq(group, 1, LargestValidSize(group)))
    <2> DEFINE cut == SubSeq(group, 1, LargestValidSize(group))
               k == Len(groups) + 1
    <2>1. Assembled(group) /\ ToSet(group) \cap used = {}
      BY <1>0, <1>3 DEF CloseGroup, FillingSound
    <2>2. /\ cut \in Seq(1..N) /\ Assembled(cut) /\ Agreed(cut)
          /\ \A t \in ToSet(cut) : t \in ToSet(group)
      BY <1>0, <1>3, <2>1, CutAssembled, CutAgreed
    <2>3. used' = used \union ToSet(cut) /\ groups' = Append(groups, cut)
      BY <1>3
    <2> HIDE DEF cut
    <2>4. /\ \A i \in DOMAIN groups : i \in DOMAIN groups' /\ groups'[i] = groups[i] /\ i # k
          /\ k \in DOMAIN groups' /\ groups'[k] = cut
          /\ \A i \in DOMAIN groups' : i \in DOMAIN groups \/ i = k
      BY <1>0, <2>2, <2>3, AppendedLast
    <2> HIDE DEF k
    <2>5. \A i \in DOMAIN groups : ToSet(groups[i]) \subseteq used
      BY <1>0 DEF UsedIsGrouped
    <2>6. \A i \in DOMAIN groups : ToSet(groups[i]) \cap ToSet(cut) = {}
      BY <2>1, <2>2, <2>5
    <2>7. UsedIsGrouped'
      <3>1. \A t \in used' : \E i \in DOMAIN groups' : t \in ToSet(groups'[i])
        BY <1>0, <2>3, <2>4 DEF UsedIsGrouped
      <3>2. \A i \in DOMAIN groups' : ToSet(groups'[i]) \subseteq used'
        BY <2>3, <2>4, <2>5
      <3> QED
        BY <3>1, <3>2 DEF UsedIsGrouped
    <2>8. GroupsPartition'
      <3>1. ASSUME NEW i \in DOMAIN groups', NEW j \in DOMAIN groups', i # j
            PROVE ToSet(groups'[i]) \cap ToSet(groups'[j]) = {}
        <4>1. CASE i \in DOMAIN groups /\ j \in DOMAIN groups
          BY <1>0, <2>4, <3>1, <4>1 DEF GroupsPartition
        <4>2. CASE i = k \/ j = k
          BY <2>4, <2>6, <3>1, <4>2
        <4> QED
          BY <2>4, <4>1, <4>2
      <3>2. Cardinality(ToSet(cut)) = Len(cut) /\ \A t \in ToSet(cut) : EntryTickets(t) \subseteq ToSet(cut)
        BY <2>2, AssembledCount DEF Assembled
      <3>3. ASSUME NEW i \in DOMAIN groups'
            PROVE /\ Cardinality(ToSet(groups'[i])) = Len(groups'[i])
                  /\ \A t \in ToSet(groups'[i]) : EntryTickets(t) \subseteq ToSet(groups'[i])
        <4>1. CASE i \in DOMAIN groups
          BY <1>0, <2>4, <4>1 DEF GroupsPartition, Groups
        <4>2. CASE i = k
          BY <2>4, <3>2, <4>2
        <4> QED
          BY <2>4, <4>1, <4>2
      <3>4. ASSUME NEW g \in Groups'
            PROVE Cardinality(ToSet(g)) = Len(g) /\ \A t \in ToSet(g) : EntryTickets(t)' \subseteq ToSet(g)
        <4>1. PICK i \in DOMAIN groups' : g = groups'[i]
          BY DEF Groups
        <4> QED
          BY <1>1, <3>3, <4>1
      <3> QED
        BY <3>1, <3>4 DEF GroupsPartition
    <2>9. GroupsAgree'
      <3>1. \A g \in Groups' : Agreed(g)
        <4> SUFFICES ASSUME NEW i \in DOMAIN groups' PROVE Agreed(groups'[i])
          BY DEF Groups
        <4>1. CASE i \in DOMAIN groups
          BY <1>0, <2>4, <4>1 DEF GroupsAgree, Groups
        <4>2. CASE i = k
          BY <2>2, <2>4, <4>2
        <4> QED
          BY <2>4, <4>1, <4>2
      <3> QED
        BY <1>1, <3>1 DEF GroupsAgree
    <2> QED
      BY <2>7, <2>8, <2>9
  <1> QED
    BY <1>0, <1>2, <1>3, ClosedHow, FillingIsQuiet

\* The same for the predicates of the invariant.
LEMMA ClaimFixedToo ==
  ASSUME UNCHANGED claim
  PROVE  /\ \A g : Assembled(g)' = Assembled(g)
         /\ \A t : DoesAlone(t)' = DoesAlone(t)
PROOF
  <1>1. \A g : Assembled(g)' = Assembled(g)
    BY ClaimFixed DEF Assembled
  <1>2. \A t : DoesAlone(t)' = DoesAlone(t)
    BY ClaimFixed DEF DoesAlone
  <1> QED
    BY <1>1, <1>2

\* Entries are used as a whole.
LEMMA UsedWhole ==
  ASSUME GroupsInv
  PROVE  \A t \in used : EntryTickets(t) \subseteq used
PROOF
  <1> SUFFICES ASSUME NEW t \in used PROVE EntryTickets(t) \subseteq used
    OBVIOUS
  <1>1. PICK i \in DOMAIN groups : t \in ToSet(groups[i])
    BY DEF GroupsInv, UsedIsGrouped
  <1>2. EntryTickets(t) \subseteq ToSet(groups[i])
    BY <1>1 DEF GroupsInv, GroupsPartition, Groups
  <1> QED
    BY <1>1, <1>2 DEF GroupsInv, UsedIsGrouped

\* No ticket of a free entry is used.
LEMMA FreeWhole ==
  ASSUME GroupsInv, NEW c \in 1..N, c \notin used
  PROVE  EntryTickets(c) \cap used = {}
PROOF
  <1> SUFFICES ASSUME NEW u \in EntryTickets(c), u \in used PROVE FALSE
    OBVIOUS
  <1>1. claim \in Inputs
    BY DEF GroupsInv, TypeOK
  <1>2. c \in EntryTickets(u)
    BY <1>1, CriteriaTyped
  <1> QED
    BY <1>2, UsedWhole

\* fillGroup keeps the group in order.
LEMMA FillingStep ==
  ASSUME GroupsInv, Next
  PROVE  FillingSound'
PROOF
  <1>0. /\ TypeOK /\ FillingSound
        /\ claim \in Inputs /\ group \in Seq(1..N) /\ seed \in 1 .. N + 1
    BY DEF GroupsInv, TypeOK
  <1>1. /\ UNCHANGED claim
        /\ \A t : EntryMembers(t)' = EntryMembers(t)
        /\ \A g : JointMax(g)' = JointMax(g)
        /\ \A g : Assembled(g)' = Assembled(g)
    BY StepKeepsClaim, ClaimFixed, ClaimFixedToo
  <1> SUFFICES ASSUME pass' # "seed" PROVE FillingSound'
    BY DEF FillingSound
  <1> DEFINE Fine(g, s) ==
        /\ s \in (1..N) \ used'
        /\ Len(EntryMembers(s)) <= Len(g)
        /\ \A k \in DOMAIN EntryMembers(s) : g[k] = EntryMembers(s)[k]
        /\ Assembled(g)
        /\ ToSet(g) \cap used' = {}
        /\ Len(g) <= JointMax(g)
  <1>2. Fine(group', seed') => FillingSound'
    <2> SUFFICES ASSUME Fine(group', seed') PROVE FillingSound'
      OBVIOUS
    <2>1. EntryMembers(seed)' = EntryMembers(seed') /\ Assembled(group)' = Assembled(group')
          /\ JointMax(group)' = JointMax(group')
      BY <1>1
    <2> QED
      BY <2>1 DEF FillingSound
  <1>3. ASSUME NEW s \in 1..N, StartGroup(s) PROVE Fine(group', seed')
    <2>1. /\ group' = EntryMembers(s) /\ seed' = s /\ used' = used /\ s \notin used
          /\ EntryCompatible(<<>>, EntryMembers(s))
      BY <1>3 DEF StartGroup
    <2>2. /\ Assembled(EntryMembers(s)) /\ Len(EntryMembers(s)) <= JointMax(EntryMembers(s))
      BY <1>0, <2>1, OwnEntryAssembled
    <2>3. ToSet(EntryMembers(s)) \cap used = {} /\ Len(EntryMembers(s)) \in Nat
      BY <1>0, <2>1, EntryListed, FreeWhole
    <2>4. Len(EntryMembers(s)) <= Len(EntryMembers(s))
      BY <2>3
    <2> QED
      BY <2>1, <2>2, <2>3, <2>4
  <1>4. ASSUME pass # "seed", UNCHANGED <<seed, used, group>> PROVE Fine(group', seed')
    BY <1>0, <1>4 DEF FillingSound
  <1>5. ASSUME NEW c \in 1..N, JoinGroup(c) PROVE Fine(group', seed')
    <2> DEFINE e == EntryMembers(c)
               o == EntryMembers(seed)
    <2>1. /\ group' = group \o e /\ seed' = seed /\ used' = used
          /\ pass # "seed" /\ Joins(c)
      BY <1>5 DEF JoinGroup
    <2>2. /\ c \notin used /\ c \notin ToSet(group)
          /\ Len(group) + Len(e) <= JointMax(group) /\ Len(group) + Len(e) <= JointMax(e)
          /\ EntryCompatible(group, e)
      BY <2>1 DEF Joins
    <2>3. /\ seed \in (1..N) \ used /\ Len(o) <= Len(group)
          /\ \A k \in DOMAIN o : group[k] = o[k]
          /\ Assembled(group) /\ ToSet(group) \cap used = {}
      BY <1>0, <2>1 DEF FillingSound
    <2>4. /\ e \in Seq(1..N) /\ ToSet(e) = EntryTickets(c)
          /\ o \in Seq(1..N) /\ Len(o) \in Nat \ {0} /\ DOMAIN o = 1 .. Len(o)
      BY <1>0, <2>3, EntryListed
    <2>5. group # <<>>
      BY <1>0, <2>3, <2>4, EmptySeq
    <2>6. Assembled(group \o e) /\ Len(group \o e) <= JointMax(group \o e)
      BY <1>0, <2>2, <2>3, <2>5, JoinedAssembled
    <2>7. ToSet(e) \cap used = {}
      BY <2>2, <2>4, FreeWhole
    <2> HIDE DEF e, o
    <2>8. /\ Len(group \o e) = Len(group) + Len(e) /\ Len(group) \in Nat /\ Len(e) \in Nat
          /\ DOMAIN group = 1 .. Len(group)
          /\ \A i \in DOMAIN group : (group \o e)[i] = group[i]
          /\ ToSet(group \o e) = ToSet(group) \union ToSet(e)
      BY <1>0, <2>4, Joined
    <2>9. Len(o) <= Len(group \o e)
      BY <2>3, <2>4, <2>8
    <2>10. \A k \in DOMAIN o : (group \o e)[k] = o[k]
      <3>1. \A k \in DOMAIN o : k \in DOMAIN group
        BY <2>3, <2>4, <2>8
      <3> QED
        BY <2>3, <2>8, <3>1
    <2>11. ToSet(group \o e) \cap used = {}
      BY <2>3, <2>7, <2>8
    <2> QED
      BY <2>1, <2>3, <2>6, <2>9, <2>10, <2>11 DEF o
  <1> HIDE DEF Fine
  <1>6. ASSUME NEW s \in 1..N, PassOver(s) PROVE FALSE
    BY <1>6 DEF PassOver
  <1>7. ASSUME NEW c \in 1..N, SkipCandidate(c) PROVE Fine(group', seed')
    BY <1>4, <1>7 DEF SkipCandidate
  <1>8. ASSUME EndOfPass PROVE Fine(group', seed')
    BY <1>4, <1>8 DEF EndOfPass
  <1>9. ASSUME CloseGroup PROVE FALSE
    BY <1>9 DEF CloseGroup
  <1> QED
    BY <1>2, <1>3, <1>5, <1>6, <1>7, <1>8, <1>9 DEF Next

\* An entry that would do by itself is a group to begin with.
LEMMA AloneStarts ==
  ASSUME claim \in Inputs, NEW s \in 1..N, DoesAlone(s)
  PROVE  EntryCompatible(<<>>, EntryMembers(s))
PROOF
  <1> DEFINE e == EntryMembers(s)
             n == Cardinality(EntryTickets(s))
  <1>1. /\ e \in Seq(1..N) /\ Len(e) = n /\ n \in Nat \ {0} /\ DOMAIN e = 1..n
        /\ \A i \in DOMAIN e : e[i] \in EntryTickets(s)
        /\ \A i, j \in DOMAIN e : i < j => e[i] < e[j]
    BY EntryListed
  <1>2. /\ n \in Crit(s).min .. Crit(s).max
        /\ \A u, v \in EntryTickets(s) : u # v => <<u, v>> \notin claim.rejects
    BY DEF DoesAlone
  <1>3. \A u \in EntryTickets(s) : Crit(u) = Crit(s) /\ u \in Int
    BY NAssumption, CriteriaTyped
  <1>4. Crit(s).max \in Nat /\ Crit(s).min \in Nat
    BY CriteriaTyped
  <1> HIDE DEF e, n
  <1>5. Len(<<>>) + Len(e) <= JointMax(e)
    <2>1. e # <<>>
      BY <1>1, EmptySeq
    <2>2. PICK i \in DOMAIN e : JointMax(e) = Crit(e[i]).max
      BY <1>1, <2>1, JointMaxIsLeast
    <2>3. JointMax(e) = Crit(s).max
      BY <1>1, <1>3, <2>2
    <2>4. Len(<<>>) = 0
      OBVIOUS
    <2>5. n <= Crit(s).max
      BY <1>1, <1>2, <1>4
    <2> QED
      BY <1>1, <2>3, <2>4, <2>5
  <1>6. ASSUME NEW i \in DOMAIN e PROVE CompatibleWithAll(<<>>, e[i])
    BY DEF CompatibleWithAll
  <1>7. ASSUME NEW i \in DOMAIN e, NEW j \in 1 .. i - 1 PROVE Compatible(e[j], e[i])
    <2>1. j \in DOMAIN e /\ j < i
      BY <1>1
    <2>2. e[j] \in EntryTickets(s) /\ e[i] \in EntryTickets(s) /\ e[j] < e[i]
      BY <1>1, <2>1
    <2>3. e[j] # e[i]
      BY <1>3, <2>2
    <2>4. Crit(e[j]).region = Crit(e[i]).region
      BY <1>3, <2>2
    <2>5. <<e[j], e[i]>> \notin claim.rejects /\ <<e[i], e[j]>> \notin claim.rejects
      BY <1>2, <2>2, <2>3
    <2> QED
      BY <2>4, <2>5 DEF Compatible, RegionsCompatible, MutualAccept, Accepts
  <1> QED
    BY <1>5, <1>6, <1>7 DEF EntryCompatible, e

\* When the group of a seed whose entry would do by itself is closed, the
\* entry's own size is a valid one.
LEMMA AloneIsValid ==
  ASSUME GroupsInv, pass # "seed", DoesAlone(seed)
  PROVE  Cardinality(EntryTickets(seed)) \in ValidSizes(group) /\ Cardinality(EntryTickets(seed)) # 0
PROOF
  <1>0. /\ claim \in Inputs /\ group \in Seq(1..N)
        /\ seed \in 1..N /\ Assembled(group)
        /\ Len(EntryMembers(seed)) <= Len(group)
        /\ \A k \in DOMAIN EntryMembers(seed) : group[k] = EntryMembers(seed)[k]
    BY DEF GroupsInv, TypeOK, FillingSound
  <1> DEFINE e == EntryMembers(seed)
             n == Cardinality(EntryTickets(seed))
  <1>1. /\ e \in Seq(1..N) /\ Len(e) = n /\ n \in Nat \ {0} /\ DOMAIN e = 1..n
        /\ ToSet(e) = EntryTickets(seed)
        /\ \A i \in DOMAIN e : e[i] \in EntryTickets(seed)
    BY <1>0, EntryListed
  <1>2. n <= Len(group) /\ \A k \in 1..n : group[k] = e[k]
    BY <1>0, <1>1
  <1>3. Len(group) \in Nat /\ DOMAIN group = 1 .. Len(group) /\ \A i \in DOMAIN group : group[i] \in 1..N
    BY <1>0, LenProperties, ElementOfSeq
  <1>4. n \in Crit(seed).min .. Crit(seed).max /\ n % Crit(seed).mult = 0
    BY DEF DoesAlone
  <1> HIDE DEF e, n
  <1>5. n \in 1 .. Len(group)
    BY <1>1, <1>2, <1>3
  <1>6. WholeEntryPrefix(group, n)
    <2> SUFFICES ASSUME NEW i \in 1..n, NEW j \in n + 1 .. Len(group),
                        claim.entry[group[i]] = claim.entry[group[j]]
                 PROVE FALSE
      BY DEF WholeEntryPrefix
    <2>1. j \in DOMAIN group /\ j > n
      BY <1>1, <1>3
    <2>2. group[i] \in EntryTickets(seed)
      BY <1>1, <1>2
    <2>3. group[j] \in EntryTickets(seed)
      BY <1>3, <2>1, <2>2 DEF EntryTickets
    <2>4. PICK k \in 1..n : group[j] = e[k]
      BY <1>1, <2>3 DEF ToSet
    <2>5. k \in DOMAIN group /\ k < j /\ group[k] = group[j]
      BY <1>1, <1>2, <1>3, <2>1, <2>4
    <2> QED
      BY <1>0, <2>1, <2>5 DEF Assembled
  <1>7. ValidSize(SubSeq(group, 1, n), n)
    <2>1. \A i \in 1..n : group[i] \in 1..N
      BY <1>1, <1>2, <1>3
    <2>2. 1 \in Int /\ n \in Int /\ 1 <= n /\ (n - 1) + 1 = n
      BY <1>1
    <2>3. /\ SubSeq(group, 1, n) \in Seq(1..N) /\ Len(SubSeq(group, 1, n)) = n
          /\ \A i \in 1..n : SubSeq(group, 1, n)[i] = group[(1 + i) - 1]
      BY <2>1, <2>2, SubSeqProperties
    <2>4. DOMAIN SubSeq(group, 1, n) = 1..n
      BY <2>3, LenProperties
    <2>5. ASSUME NEW i \in 1..n
          PROVE Crit(SubSeq(group, 1, n)[i]) = Crit(seed)
      <3>1. (1 + i) - 1 = i
        BY <1>1
      <3>2. SubSeq(group, 1, n)[i] \in EntryTickets(seed)
        BY <1>1, <1>2, <2>3, <3>1
      <3> QED
        BY <1>0, <3>2, CriteriaTyped
    <2> QED
      BY <1>4, <2>4, <2>5 DEF ValidSize
  <1> QED
    BY <1>1, <1>5, <1>6, <1>7 DEF ValidSizes, n

\* A seed that is passed over or given up could not have been matched alone.
LEMMA LeftoversStep ==
  ASSUME GroupsInv, Next
  PROVE  LeftoversSeen'
PROOF
  <1>0. /\ TypeOK /\ FillingSound /\ LeftoversSeen
        /\ claim \in Inputs /\ group \in Seq(1..N) /\ seed \in 1 .. N + 1
    BY DEF GroupsInv, TypeOK
  <1>1. /\ UNCHANGED claim /\ \A t : DoesAlone(t)' = DoesAlone(t)
    BY StepKeepsClaim, ClaimFixedToo
  <1>2. used \subseteq used'
    BY DEF Next, PassOver, StartGroup, SkipCandidate, JoinGroup, EndOfPass, CloseGroup
  <1>3. ASSUME seed' = seed PROVE LeftoversSeen'
    BY <1>0, <1>1, <1>2, <1>3 DEF LeftoversSeen
  <1>4. ASSUME seed' = seed + 1, seed \in used' \/ ~DoesAlone(seed) PROVE LeftoversSeen'
    <2> SUFFICES ASSUME NEW t \in 1 .. seed' - 1 PROVE t \in used' \/ ~DoesAlone(t)
      BY <1>1 DEF LeftoversSeen
    <2>1. t = seed \/ t \in 1 .. seed - 1
      BY <1>0, <1>4, NAssumption
    <2> QED
      BY <1>0, <1>2, <1>4, <2>1 DEF LeftoversSeen
  <1>5. ASSUME NEW s \in 1..N, PassOver(s) PROVE LeftoversSeen'
    <2>1. seed = s /\ seed' = seed + 1 /\ used' = used
          /\ (s \in used \/ ~EntryCompatible(<<>>, EntryMembers(s)))
      BY <1>5 DEF PassOver
    <2> QED
      BY <1>0, <1>4, <2>1, AloneStarts
  <1>6. ASSUME CloseGroup PROVE LeftoversSeen'
    <2> DEFINE n == Cardinality(EntryTickets(seed))
               k == LargestValidSize(group)
               cut == SubSeq(group, 1, k)
               o == EntryMembers(seed)
    <2>1. seed' = seed + 1 /\ pass # "seed"
      BY <1>6 DEF CloseGroup
    <2>2. /\ seed \in 1..N /\ Assembled(group) /\ Len(group) <= JointMax(group)
          /\ Len(o) <= Len(group)
          /\ \A j \in DOMAIN o : group[j] = o[j]
      BY <1>0, <2>1 DEF FillingSound
    <2>3. /\ o \in Seq(1..N) /\ Len(o) \in Nat \ {0} /\ DOMAIN o = 1 .. Len(o)
          /\ \A i \in DOMAIN o : o[i] \in EntryTickets(seed)
      BY <1>0, <2>2, EntryListed
    <2>4. 1 \in DOMAIN o /\ group[1] \in EntryTickets(seed) /\ group # <<>>
          /\ Len(group) \in Nat /\ DOMAIN group = 1 .. Len(group)
      <3>1. 1 \in DOMAIN o
        BY <2>3
      <3>2. Len(group) \in Nat /\ DOMAIN group = 1 .. Len(group)
        BY <1>0, LenProperties
      <3>3. group # <<>>
        BY <2>2, <2>3, <3>2, EmptySeq
      <3> QED
        BY <2>2, <2>3, <3>1, <3>2, <3>3
    <2>5. CASE k \in ValidSizes(group) /\ used' = used \union ToSet(cut)
      <3>1. /\ k \in 1 .. Len(group) /\ DOMAIN cut = 1..k
            /\ \A i \in 1..k : cut[i] = group[i]
            /\ Assembled(cut)
        BY <1>0, <2>2, <2>5, CutAssembled
      <3>2. 1 \in 1..k
        BY <2>4, <3>1
      <3>3. group[1] \in ToSet(cut)
        BY <3>1, <3>2 DEF ToSet
      <3>4. EntryTickets(group[1]) = EntryTickets(seed) /\ seed \in EntryTickets(seed)
        BY <1>0, <2>2, <2>4, CriteriaTyped
      <3>5. seed \in ToSet(cut)
        BY <3>1, <3>3, <3>4 DEF Assembled
      <3> QED
        BY <1>4, <2>1, <2>5, <3>5
    <2>6. CASE k = 0
      <3>1. ~DoesAlone(seed)
        <4> SUFFICES ASSUME DoesAlone(seed) PROVE FALSE
          OBVIOUS
        <4>1. n \in ValidSizes(group) /\ n # 0
          BY <2>1, AloneIsValid
        <4>2. n <= k /\ n \in 1 .. Len(group)
          BY <1>0, <4>1, LargestIsGreatest DEF ValidSizes
        <4> HIDE DEF n, k
        <4> QED
          BY <2>4, <2>6, <4>1, <4>2
      <3> QED
        BY <1>4, <2>1, <3>1
    <2>7. CASE ~Full(cut) /\ ~Relaxed(seed)
      <3>1. ~DoesAlone(seed)
        <4> SUFFICES ASSUME DoesAlone(seed) PROVE FALSE
          OBVIOUS
        <4>1. n \in ValidSizes(group) /\ n # 0
          BY <2>1, AloneIsValid
        <4>2. n <= k /\ n \in 1 .. Len(group) /\ k \in 0 .. Len(group)
          BY <1>0, <4>1, LargestIsGreatest DEF ValidSizes
        <4>3. n = Crit(seed).max
          BY <2>7 DEF DoesAlone, Relaxed
        <4>4. JointMax(group) <= Crit(seed).max
          <5>1. 1 \in DOMAIN group
            BY <2>4, EmptySeq, <4>2
          <5>2. JointMax(group) <= Crit(group[1]).max
            BY <1>0, <2>4, <5>1, JointMaxIsLeast
          <5>3. Crit(group[1]) = Crit(seed)
            BY <1>0, <2>2, <2>4, CriteriaTyped
          <5> QED
            BY <5>2, <5>3
        <4>5. JointMax(group) \in Nat
          BY <1>0, <2>4, JointMaxIsLeast
        <4> HIDE DEF n, k, cut
        <4>6. k = Len(group) /\ Len(group) = JointMax(group)
          <5>1. JointMax(group) <= n
            BY <4>3, <4>4
          <5>2. n \in Nat /\ n <= k /\ k \in Nat /\ k <= Len(group)
            BY <2>4, <4>2
          <5>3. Len(group) <= JointMax(group) /\ Len(group) \in Nat
            BY <2>2, <2>4
          <5> QED
            BY <4>5, <5>1, <5>2, <5>3
        <4>7. cut = group
          BY <1>0, <4>6, SubSeqFull DEF cut
        <4> QED
          BY <2>7, <4>6, <4>7 DEF Full
      <3> QED
        BY <1>4, <2>1, <3>1
    <2> QED
      BY <1>0, <1>6, <2>5, <2>6, <2>7, ClosedHow
  <1> QED
    BY <1>3, <1>5, <1>6 DEF Next, StartGroup, SkipCandidate, JoinGroup, EndOfPass

\* A suitable ticket that is not in the group, and for which there is room, joins
\* in the pass for the seed's region.
LEMMA SuitableJoins ==
  ASSUME GroupsInv, pass = "same", NEW u \in 1..N, Suits(u), u \notin ToSet(group), ~Full(group)
  PROVE  Joins(u)
PROOF
  <1>0. /\ claim \in Inputs /\ group \in Seq(1..N)
        /\ seed \in 1..N /\ MatesOnly
        /\ Len(EntryMembers(seed)) <= Len(group)
        /\ \A k \in DOMAIN EntryMembers(seed) : group[k] = EntryMembers(seed)[k]
        /\ Len(group) <= JointMax(group)
    BY DEF GroupsInv, TypeOK, FillingSound, RegionsInOrder
  <1> DEFINE e == EntryMembers(u)
             o == EntryMembers(seed)
             J == JointMax(group)
  <1>1. /\ o \in Seq(1..N) /\ Len(o) \in Nat \ {0} /\ DOMAIN o = 1 .. Len(o)
        /\ \A i \in DOMAIN o : o[i] \in EntryTickets(seed)
    BY <1>0, EntryListed
  <1>2. /\ e \in Seq(1..N) /\ Len(e) = Cardinality(EntryTickets(u)) /\ DOMAIN e = 1 .. Len(e)
        /\ \A i \in DOMAIN e : e[i] \in EntryTickets(u)
    BY <1>0, EntryListed
  <1>3. EntryTickets(u) = {u} /\ Cardinality(EntryTickets(u)) = 1
    BY FS_Singleton DEF Suits
  <1>4. Len(e) = 1 /\ DOMAIN e = 1..1 /\ e[1] = u
    <2>1. Len(e) = 1
      BY <1>2, <1>3
    <2>2. 1 \in DOMAIN e
      BY <1>2, <2>1
    <2> QED
      BY <1>2, <1>3, <2>1, <2>2
  <1>5. Len(group) \in Nat /\ DOMAIN group = 1 .. Len(group) /\ \A i \in DOMAIN group : group[i] \in 1..N
    BY <1>0, LenProperties, ElementOfSeq
  <1>6. group # <<>> /\ 1 \in DOMAIN group /\ group[1] \in EntryTickets(seed)
    <2>1. 1 \in DOMAIN o /\ Len(group) >= 1
      BY <1>0, <1>1, <1>5
    <2>2. group # <<>>
      BY <2>1
    <2> QED
      BY <1>0, <1>1, <1>5, <2>1, <2>2
  <1>7. J \in Nat /\ J <= Crit(seed).max
    BY <1>0, <1>6, JointMaxIsLeast, CriteriaTyped
  <1>8. JointMax(e) = Crit(u).max
    <2>1. e # <<>>
      BY <1>2, <1>4, EmptySeq
    <2>2. PICK i \in DOMAIN e : JointMax(e) = Crit(e[i]).max
      BY <1>0, <1>2, <2>1, JointMaxIsLeast
    <2> QED
      BY <1>4, <2>2
  <1>9. Crit(u).max \in Nat /\ Crit(seed).max \in Nat /\ Crit(u).max >= Crit(seed).max
    BY <1>0, CriteriaTyped DEF Suits
  <1>10. Len(group) <= J /\ Len(group) # J
    BY <1>0 DEF Full
  <1> HIDE DEF e, o, J
  <1>11. Len(group) + Len(e) <= J /\ Len(group) + Len(e) <= Crit(u).max
    <2>1. Len(e) = 1 /\ Len(group) \in Nat /\ J \in Nat
      BY <1>4, <1>5, <1>7
    <2>2. Len(group) + Len(e) <= J
      BY <1>10, <2>1
    <2>3. J <= Crit(seed).max /\ Crit(seed).max \in Nat /\ Crit(u).max \in Nat /\ Crit(u).max >= Crit(seed).max
      BY <1>7, <1>9
    <2>4. J <= Crit(u).max
      BY <2>1, <2>3
    <2> QED
      BY <2>1, <2>2, <2>3, <2>4
  <1>12. EntryCompatible(group, e)
    <2>1. ASSUME NEW i \in DOMAIN group PROVE Compatible(group[i], u)
      <3>1. group[i] \in ToSet(group)
        BY DEF ToSet
      <3>2. Mate(group[i]) /\ Mate(u)
        BY <1>0, <3>1 DEF MatesOnly, Suits
      <3>3. <<u, group[i]>> \notin claim.rejects /\ <<group[i], u>> \notin claim.rejects
        BY <3>1, <3>2 DEF Suits
      <3> QED
        BY <3>2, <3>3 DEF Mate, Compatible, RegionsCompatible, MutualAccept, Accepts
    <2>2. ASSUME NEW i \in DOMAIN e
          PROVE CompatibleWithAll(group, e[i]) /\ \A j \in 1 .. i - 1 : Compatible(e[j], e[i])
      <3>1. i = 1
        BY <1>4
      <3>2. 1 .. i - 1 = {}
        BY <3>1
      <3> QED
        BY <1>4, <2>1, <3>1, <3>2 DEF CompatibleWithAll
    <2> QED
      BY <1>8, <1>11, <2>2 DEF EntryCompatible
  <1>13. u \notin used /\ Crit(u).region = Crit(seed).region
    BY DEF Suits, Mate
  <1> QED
    BY <1>8, <1>11, <1>12, <1>13 DEF Joins, e, J

\* Region-mates come first in the group.
LEMMA RegionsStep ==
  ASSUME GroupsInv, Next
  PROVE  RegionsInOrder'
PROOF
  <1>0. /\ TypeOK /\ FillingSound /\ RegionsInOrder
        /\ claim \in Inputs /\ group \in Seq(1..N) /\ cursor \in 1 .. N + 1
        /\ pass \in {"seed", "same", "other", "filled"}
    BY DEF GroupsInv, TypeOK
  <1>1. /\ UNCHANGED claim
        /\ \A t : Crit(t)' = Crit(t) /\ EntryTickets(t)' = EntryTickets(t)
        /\ \A g : JointMax(g)' = JointMax(g)
    BY StepKeepsClaim, ClaimFixed
  <1>2. ASSUME pass' = "seed" PROVE RegionsInOrder'
    BY <1>2 DEF RegionsInOrder
  <1>3. ASSUME NEW s \in 1..N, StartGroup(s) PROVE RegionsInOrder'
    <2>1. group' = EntryMembers(s) /\ seed' = s /\ pass' = "same" /\ cursor' = 1
      BY <1>3 DEF StartGroup
    <2>2. \A t \in ToSet(EntryMembers(s)) : Crit(t) = Crit(s)
      BY <1>0, EntryListed, CriteriaTyped
    <2>3. MatesOnly'
      BY <1>1, <2>1, <2>2 DEF MatesOnly, Mate
    <2>4. 1 .. cursor' - 1 = {}
      BY <2>1
    <2> QED
      BY <2>1, <2>3, <2>4 DEF RegionsInOrder
  <1>4. ASSUME UNCHANGED <<seed, used, group>>
        PROVE /\ MatesOnly' = MatesOnly /\ MatesTaken' = MatesTaken
              /\ \A u : Suits(u)' = Suits(u)
              /\ Full(group)' = Full(group)
    <2>1. \A t : Mate(t)' = Mate(t)
      BY <1>1, <1>4 DEF Mate
    <2>2. \A u : Suits(u)' = Suits(u)
      BY <1>1, <1>4, <2>1 DEF Suits
    <2>3. MatesOnly' = MatesOnly
      BY <1>4, <2>1 DEF MatesOnly
    <2>4. MatesTaken' = MatesTaken
      BY <1>4, <2>1, <2>2 DEF MatesTaken
    <2>5. Full(group)' = Full(group)
      BY <1>1, <1>4 DEF Full
    <2> QED
      BY <2>2, <2>3, <2>4, <2>5
  <1>5. ASSUME NEW c \in 1..N, SkipCandidate(c) PROVE RegionsInOrder'
    <2>1. UNCHANGED <<seed, used, group, pass>> /\ cursor = c /\ cursor' = c + 1 /\ ~Joins(c)
          /\ pass \in {"same", "other"}
      BY <1>5 DEF SkipCandidate
    <2>2. CASE pass = "same"
      <3>1. MatesOnly /\ \A u \in 1 .. cursor - 1 : Suits(u) => u \in ToSet(group) \/ Full(group)
        BY <1>0, <2>2 DEF RegionsInOrder
      <3>2. ASSUME NEW u \in 1 .. cursor' - 1, Suits(u) PROVE u \in ToSet(group) \/ Full(group)
        <4>1. u \in 1 .. cursor - 1 \/ u = c
          BY <2>1, NAssumption
        <4>2. CASE u = c
          BY <2>1, <2>2, <3>2, <4>2, SuitableJoins
        <4> QED
          BY <3>1, <3>2, <4>1, <4>2
      <3> QED
        BY <1>4, <2>1, <2>2, <3>1, <3>2 DEF RegionsInOrder
    <2>3. CASE pass = "other"
      BY <1>0, <1>4, <2>1, <2>3 DEF RegionsInOrder
    <2> QED
      BY <2>1, <2>2, <2>3
  <1>6. ASSUME NEW c \in 1..N, JoinGroup(c) PROVE RegionsInOrder'
    <2> DEFINE e == EntryMembers(c)
    <2>1. /\ group' = group \o e /\ UNCHANGED <<seed, used>>
          /\ pass \in {"same", "other"} /\ Joins(c) /\ cursor = c /\ cursor' = c + 1
          /\ pass' \in {pass, "filled"}
      BY <1>6 DEF JoinGroup
    <2>2. /\ c \notin used /\ c \notin ToSet(group)
          /\ (pass = "same") = (Crit(c).region = Crit(seed).region)
          /\ Len(group) + Len(e) <= JointMax(group)
      BY <2>1 DEF Joins
    <2>3. /\ e \in Seq(1..N) /\ ToSet(e) = EntryTickets(c) /\ Len(e) \in Nat \ {0}
          /\ c \in EntryTickets(c)
          /\ \A t \in EntryTickets(c) : Crit(t) = Crit(c)
          /\ \A i \in DOMAIN e : e[i] \in EntryTickets(c)
      BY <1>0, EntryListed, CriteriaTyped
    <2> HIDE DEF e
    <2>4. /\ Len(group) \in Nat /\ DOMAIN group = 1 .. Len(group) /\ DOMAIN e = 1 .. Len(e)
          /\ DOMAIN group' = 1 .. Len(group) + Len(e)
          /\ \A i \in DOMAIN group' : \/ i \in DOMAIN group /\ group'[i] = group[i]
                                      \/ i - Len(group) \in DOMAIN e /\ group'[i] = e[i - Len(group)]
          /\ ToSet(group') = ToSet(group) \union ToSet(e)
      BY <1>0, <2>1, <2>3, Joined
    <2>5. \A t : Mate(t)' = Mate(t)
      BY <1>1, <2>1 DEF Mate
    <2>6. \A u : Suits(u)' => Suits(u)
      BY <1>1, <2>1, <2>4, <2>5 DEF Suits
    <2>7. CASE pass = "same"
      <3>1. MatesOnly /\ \A u \in 1 .. cursor - 1 : Suits(u) => u \in ToSet(group) \/ Full(group)
        BY <1>0, <2>7 DEF RegionsInOrder
      <3>2. \A t \in ToSet(e) : Mate(t)
        BY <2>2, <2>3, <2>7 DEF Mate
      <3>3. MatesOnly'
        BY <2>4, <2>5, <3>1, <3>2 DEF MatesOnly
      <3>4. ~Full(group)
        <4>1. group # <<>>
          <5>1. Len(EntryMembers(seed)) \in Nat \ {0} /\ Len(EntryMembers(seed)) <= Len(group)
            BY <1>0, <2>7, EntryListed DEF FillingSound
          <5> QED
            BY <2>4, <5>1
        <4>2. JointMax(group) \in Nat
          BY <1>0, <4>1, JointMaxIsLeast
        <4> QED
          BY <2>2, <2>3, <2>4, <4>2 DEF Full
      <3>5. ASSUME NEW u \in 1 .. cursor' - 1, Suits(u)' PROVE u \in ToSet(group')
        <4>1. u \in 1 .. cursor - 1 \/ u = c
          BY <2>1, NAssumption
        <4> QED
          BY <2>3, <2>4, <2>6, <3>1, <3>4, <3>5, <4>1
      <3> QED
        BY <2>1, <2>7, <3>3, <3>5 DEF RegionsInOrder
    <2>8. CASE pass = "other"
      <3>1. MatesTaken
        BY <1>0, <2>8 DEF RegionsInOrder
      <3>2. \A t \in ToSet(e) : ~Mate(t)
        BY <2>2, <2>3, <2>8 DEF Mate
      <3>3. ASSUME NEW i \in DOMAIN group', NEW j \in DOMAIN group', i < j, Mate(group'[j]) PROVE Mate(group'[i])
        <4>1. j \in DOMAIN group /\ group'[j] = group[j]
          BY <2>3, <2>4, <3>2, <3>3
        <4>2. i \in DOMAIN group /\ group'[i] = group[i]
          <5>1. i \in DOMAIN group
            BY <2>3, <2>4, <3>3, <4>1
          <5>2. ~(i - Len(group) \in DOMAIN e)
            BY <2>3, <2>4, <5>1
          <5> QED
            BY <2>4, <5>1, <5>2
        <4> QED
          BY <3>1, <3>3, <4>1, <4>2 DEF MatesTaken
      <3>4. \A u \in 1..N : Suits(u)' => u \in ToSet(group')
        BY <2>4, <2>6, <3>1 DEF MatesTaken
      <3>5. MatesTaken'
        BY <2>5, <3>3, <3>4 DEF MatesTaken
      <3> QED
        BY <2>1, <2>8, <3>5 DEF RegionsInOrder
    <2> QED
      BY <2>1, <2>7, <2>8
  <1>7. ASSUME EndOfPass PROVE RegionsInOrder'
    <2>1. /\ UNCHANGED <<seed, used, group>> /\ pass \in {"same", "other"} /\ cursor = N + 1
          /\ pass' = IF pass = "same" /\ Len(group) < JointMax(group) THEN "other" ELSE "filled"
      BY <1>7 DEF EndOfPass
    <2>2. CASE pass = "other"
      BY <1>0, <1>4, <2>1, <2>2 DEF RegionsInOrder
    <2>3. CASE pass = "same"
      <3>1. MatesOnly /\ \A u \in 1 .. cursor - 1 : Suits(u) => u \in ToSet(group) \/ Full(group)
        BY <1>0, <2>3 DEF RegionsInOrder
      <3>2. CASE pass' = "filled"
        BY <1>4, <2>1, <3>1, <3>2 DEF RegionsInOrder
      <3>3. CASE pass' = "other"
        <4>1. ~Full(group)
          <5>1. Len(group) < JointMax(group)
            BY <2>1, <3>3
          <5>2. Len(group) \in Nat
            BY <1>0, LenProperties
          <5> QED
            BY <5>1, <5>2 DEF Full
        <4>2. 1 .. cursor - 1 = 1..N
          BY <2>1, NAssumption
        <4>3. \A u \in 1..N : Suits(u) => u \in ToSet(group)
          BY <3>1, <4>1, <4>2
        <4>4. \A i \in DOMAIN group : Mate(group[i])
          BY <3>1 DEF MatesOnly, ToSet
        <4>5. MatesTaken
          BY <4>3, <4>4 DEF MatesTaken
        <4> QED
          BY <1>4, <2>1, <3>3, <4>5 DEF RegionsInOrder
      <3> QED
        BY <2>1, <3>2, <3>3
    <2> QED
      BY <2>1, <2>2, <2>3
  <1>8. ASSUME CloseGroup PROVE RegionsInOrder'
    BY <1>2, <1>8 DEF CloseGroup
  <1>9. ASSUME NEW s \in 1..N, PassOver(s) PROVE RegionsInOrder'
    BY <1>2, <1>9 DEF PassOver
  <1> QED
    BY <1>3, <1>5, <1>6, <1>7, <1>8, <1>9 DEF Next

\* A group that has somebody of another region has every region-mate it could.
LEMMA CutPrefersMates ==
  ASSUME GroupsInv, pass = "filled", NEW size \in ValidSizes(group),
         NEW cut, cut = SubSeq(group, 1, size),
         NEW out \in ToSet(cut), Crit(out).region # Crit(cut[1]).region,
         NEW u \in 1..N, u \notin used, u \notin ToSet(cut),
         Crit(u).region = Crit(cut[1]).region, EntryTickets(u) = {u}, Crit(u).max >= Crit(cut[1]).max
  PROVE  \E m \in ToSet(cut) : /\ Crit(m).region = Crit(cut[1]).region
                               /\ {<<u, m>>, <<m, u>>} \cap claim.rejects # {}
PROOF
  <1>0. /\ claim \in Inputs /\ group \in Seq(1..N)
        /\ seed \in 1..N /\ Assembled(group)
        /\ Len(EntryMembers(seed)) <= Len(group)
        /\ \A k \in DOMAIN EntryMembers(seed) : group[k] = EntryMembers(seed)[k]
        /\ MatesOnly \/ MatesTaken
    BY DEF GroupsInv, TypeOK, FillingSound, RegionsInOrder
  <1>1. /\ size \in 1 .. Len(group) /\ DOMAIN cut = 1..size
        /\ \A i \in 1..size : i \in DOMAIN group /\ cut[i] = group[i]
        /\ \A t \in ToSet(cut) : t \in ToSet(group)
    BY <1>0, CutAssembled
  <1>2. Len(group) \in Nat /\ DOMAIN group = 1 .. Len(group)
    BY <1>0, LenProperties
  <1>3. 1 \in 1..size /\ size \in Nat
    BY <1>1, <1>2
  <1>4. Crit(cut[1]) = Crit(seed)
    <2>1. /\ Len(EntryMembers(seed)) \in Nat \ {0}
          /\ DOMAIN EntryMembers(seed) = 1 .. Len(EntryMembers(seed))
          /\ \A i \in DOMAIN EntryMembers(seed) : EntryMembers(seed)[i] \in EntryTickets(seed)
      BY <1>0, EntryListed
    <2>2. 1 \in DOMAIN EntryMembers(seed)
      BY <2>1
    <2>3. cut[1] \in EntryTickets(seed)
      BY <1>0, <1>1, <1>3, <2>1, <2>2
    <2> QED
      BY <1>0, <2>3, CriteriaTyped
  <1>5. ~Mate(out) /\ out \in ToSet(group)
    BY <1>1, <1>4 DEF Mate
  <1>6. MatesTaken
    BY <1>0, <1>5 DEF MatesOnly
  <1>7. PICK j \in 1..size : out = group[j] /\ j \in DOMAIN group
    BY <1>1 DEF ToSet
  <1>8. ASSUME NEW m \in ToSet(group), Mate(m) PROVE m \in ToSet(cut)
    <2>1. PICK i \in DOMAIN group : m = group[i]
      BY DEF ToSet
    <2>2. ~(j < i) /\ i # j
      BY <1>5, <1>6, <1>7, <1>8, <2>1 DEF MatesTaken
    <2>3. i \in 1..size
      BY <1>2, <1>3, <2>2
    <2> QED
      BY <1>1, <2>1, <2>3 DEF ToSet
  <1>9. ASSUME NEW m \in ToSet(cut), Mate(m)
        PROVE  Crit(m).region = Crit(cut[1]).region
    BY <1>4, <1>9 DEF Mate
  <1> SUFFICES ASSUME \A m \in ToSet(cut) : Mate(m) => {<<u, m>>, <<m, u>>} \cap claim.rejects = {}
               PROVE FALSE
    BY <1>9
  <1>10. Mate(u) /\ Crit(u).max >= Crit(seed).max
    BY <1>4 DEF Mate
  <1>11. Suits(u)
    <2>1. ASSUME NEW m \in ToSet(group), Mate(m)
          PROVE <<u, m>> \notin claim.rejects /\ <<m, u>> \notin claim.rejects
      <3>1. {<<u, m>>, <<m, u>>} \cap claim.rejects = {}
        BY <1>8, <2>1
      <3> QED
        BY <3>1
    <2> QED
      BY <1>10, <2>1 DEF Suits
  <1>12. u \in ToSet(group)
    BY <1>6, <1>11 DEF MatesTaken
  <1> QED
    BY <1>8, <1>10, <1>12

\* A group taken prefers region-mates, and those taken before still do.
LEMMA RegionsFirstStep ==
  ASSUME GroupsInv, Next
  PROVE  SameRegionFirst'
PROOF
  <1>0. /\ TypeOK /\ FillingSound /\ SameRegionFirst
        /\ claim \in Inputs /\ group \in Seq(1..N) /\ groups \in Seq(Seq(1..N))
    BY DEF GroupsInv, TypeOK
  <1>1. /\ UNCHANGED claim
        /\ \A t : Crit(t)' = Crit(t) /\ EntryTickets(t)' = EntryTickets(t)
    BY StepKeepsClaim, ClaimFixed
  <1>2. \A i \in DOMAIN groups : PrefersMates(groups, i)
    BY <1>0 DEF SameRegionFirst
  <1>3. (\A i \in DOMAIN groups' : PrefersMates(groups', i)) => SameRegionFirst'
    <2>1. \A gs, i : PrefersMates(gs, i)' = PrefersMates(gs, i)
      BY <1>1 DEF PrefersMates
    <2>2. \A i \in DOMAIN groups' : PrefersMates(groups, i)' = PrefersMates(groups', i)
      BY <2>1
    <2> QED
      BY <2>2 DEF SameRegionFirst
  <1>4. CASE UNCHANGED <<used, groups>>
    BY <1>2, <1>3, <1>4
  <1>5. CASE /\ CloseGroup
             /\ LargestValidSize(group) \in ValidSizes(group)
             /\ used' = used \union ToSet(SubSeq(group, 1, LargestValidSize(group)))
             /\ groups' = Append(groups, SubSeq(group, 1, LargestValidSize(group)))
    <2> DEFINE cut == SubSeq(group, 1, LargestValidSize(group))
               k == Len(groups) + 1
    <2>1. Assembled(group) /\ pass = "filled"
      BY <1>0, <1>5 DEF CloseGroup, FillingSound
    <2>2. cut \in Seq(1..N)
      BY <1>0, <1>5, <2>1, CutAssembled
    <2>3. used' = used \union ToSet(cut) /\ groups' = Append(groups, cut)
      BY <1>5
    <2>4. \A out \in ToSet(cut), u \in (1..N) \ used' :
            (/\ Crit(out).region # Crit(cut[1]).region
             /\ Crit(u).region = Crit(cut[1]).region /\ EntryTickets(u) = {u}
             /\ Crit(u).max >= Crit(cut[1]).max)
            => \E m \in ToSet(cut) : /\ Crit(m).region = Crit(cut[1]).region
                                     /\ {<<u, m>>, <<m, u>>} \cap claim.rejects # {}
      <3> HIDE DEF cut
      <3> SUFFICES ASSUME NEW out \in ToSet(cut), NEW u \in (1..N) \ used',
                          Crit(out).region # Crit(cut[1]).region,
                          Crit(u).region = Crit(cut[1]).region, EntryTickets(u) = {u},
                          Crit(u).max >= Crit(cut[1]).max
                   PROVE  \E m \in ToSet(cut) : /\ Crit(m).region = Crit(cut[1]).region
                                                /\ {<<u, m>>, <<m, u>>} \cap claim.rejects # {}
        OBVIOUS
      <3>1. PICK size \in ValidSizes(group) : cut = SubSeq(group, 1, size)
        BY <1>5 DEF cut
      <3>2. u \in 1..N /\ u \notin used /\ u \notin ToSet(cut)
        BY <2>3
      <3> QED
        BY <2>1, <3>1, <3>2, CutPrefersMates
    <2> HIDE DEF cut
    <2>5. /\ Len(groups) \in Nat /\ DOMAIN groups = 1 .. Len(groups) /\ DOMAIN groups' = 1..k
          /\ \A i \in DOMAIN groups : i \in DOMAIN groups' /\ groups'[i] = groups[i] /\ i # k
          /\ k \in DOMAIN groups' /\ groups'[k] = cut
          /\ \A i \in DOMAIN groups' : i \in DOMAIN groups \/ i = k
      BY <1>0, <2>2, <2>3, AppendedLast
    <2>6. ASSUME NEW i \in DOMAIN groups PROVE PrefersMates(groups', i)
      <3>1. 1..i \subseteq DOMAIN groups
        BY <2>5
      <3>2. UNION {ToSet(groups'[j]) : j \in 1..i} = UNION {ToSet(groups[j]) : j \in 1..i}
        BY <2>5, <3>1
      <3>3. PrefersMates(groups, i) /\ groups'[i] = groups[i]
        BY <1>2, <2>5
      <3> QED
        BY <3>2, <3>3 DEF PrefersMates
    <2>7. PrefersMates(groups', k)
      <3>1. UNION {ToSet(groups'[j]) : j \in 1..k} = used'
        <4>1. UsedIsGrouped'
          BY GroupsApartStep
        <4> QED
          BY <2>5, <4>1 DEF UsedIsGrouped
      <3> QED
        BY <2>4, <2>5, <3>1 DEF PrefersMates
    <2> QED
      BY <1>3, <2>5, <2>6, <2>7
  <1> QED
    BY <1>0, <1>4, <1>5, ClosedHow, FillingIsQuiet

\* Whole numbers of groups.
LEMMA WholeGroups ==
  ASSUME NEW m \in Nat \ {0}, NEW k \in Nat, NEW L \in Nat, L < m, NEW n \in Nat, n = k * m + L
  PROVE  n \div m = k /\ n % m = L
PROOF
  <1>1. k * m \in Nat
    OBVIOUS
  <1> QED
    BY <1>1

\* One group more.
LEMMA OneGroupMore ==
  ASSUME NEW m \in Nat \ {0}, NEW k \in Nat
  PROVE  (k + 1) * m = k * m + m /\ k * m \in Nat
PROOF
  OBVIOUS

\* Multiples add up.
LEMMA MultiplesAddUp ==
  ASSUME NEW d \in Nat \ {0}, NEW a \in Nat, NEW b \in Nat, a % d = 0, b % d = 0
  PROVE  (a + b) % d = 0
PROOF
  <1>1. a = (a \div d) * d /\ b = (b \div d) * d /\ a \div d \in Nat /\ b \div d \in Nat
    OBVIOUS
  <1>2. PICK p \in Nat : a = p * d
    BY <1>1
  <1>3. PICK q \in Nat : b = q * d
    BY <1>1
  <1>4. a + b = (p + q) * d + 0
    BY <1>2, <1>3
  <1>5. PICK r \in Nat : r = p + q
    OBVIOUS
  <1>6. PICK n \in Nat : n = a + b
    OBVIOUS
  <1>7. PICK L \in Nat : L = 0 /\ L < d
    OBVIOUS
  <1>8. n = r * d + L
    BY <1>4, <1>5, <1>6, <1>7
  <1>9. n % d = L
    BY <1>7, <1>8, WholeGroups
  <1> QED
    BY <1>6, <1>7, <1>9

\* In a pool of equals every ticket is an entry of its own that goes with every
\* other, and every group has the same largest size.
LEMMA EqualsAlike ==
  ASSUME claim \in Inputs, Uniform
  PROVE  /\ Most \in Nat \ {0} /\ claim.crit[1].min \in Nat \ {0} /\ claim.crit[1].mult \in Nat \ {0}
         /\ claim.crit[1].min <= Most
         /\ \A t \in 1..N : /\ Crit(t) = claim.crit[1] /\ EntryTickets(t) = {t}
                            /\ Len(EntryMembers(t)) = 1 /\ DOMAIN EntryMembers(t) = 1..1
                            /\ EntryMembers(t)[1] = t
         /\ \A a, b \in 1..N : Compatible(a, b)
         /\ \A g \in Seq(1..N) : g # <<>> => JointMax(g) = Most
PROOF
  <1>1. 1 \in 1..N
    BY NAssumption
  <1>2. \A t \in 1..N : claim.entry[t] \in 1..N
    BY CriteriaTyped
  <1>3. \A t \in 1..N : Crit(t) = claim.crit[1]
    BY <1>2 DEF Uniform, Crit
  <1>4. /\ Most \in Nat \ {0} /\ claim.crit[1].min \in Nat \ {0} /\ claim.crit[1].mult \in Nat \ {0}
        /\ claim.crit[1].min <= Most
    BY <1>1, <1>3, CriteriaTyped DEF Most
  <1>5. \A t \in 1..N : EntryTickets(t) = {t}
    BY DEF EntryTickets, Uniform
  <1>6. ASSUME NEW t \in 1..N
        PROVE Len(EntryMembers(t)) = 1 /\ DOMAIN EntryMembers(t) = 1..1 /\ EntryMembers(t)[1] = t
    <2>1. /\ Len(EntryMembers(t)) = Cardinality({t})
          /\ DOMAIN EntryMembers(t) = 1 .. Len(EntryMembers(t))
          /\ \A i \in DOMAIN EntryMembers(t) : EntryMembers(t)[i] \in {t}
      BY <1>5, EntryListed
    <2>2. Len(EntryMembers(t)) = 1
      BY <2>1, FS_Singleton
    <2>3. 1 \in DOMAIN EntryMembers(t)
      BY <2>1, <2>2
    <2> QED
      BY <2>1, <2>2, <2>3
  <1>7. \A a, b \in 1..N : Compatible(a, b)
    BY <1>3 DEF Compatible, RegionsCompatible, MutualAccept, Accepts, Uniform
  <1>8. ASSUME NEW g \in Seq(1..N), g # <<>> PROVE JointMax(g) = Most
    <2>1. PICK i \in DOMAIN g : JointMax(g) = Crit(g[i]).max
      BY <1>8, JointMaxIsLeast
    <2>2. g[i] \in 1..N
      BY LenProperties, ElementOfSeq
    <2> QED
      BY <1>3, <2>1, <2>2 DEF Most
  <1> QED
    BY <1>3, <1>4, <1>5, <1>6, <1>7, <1>8

\* There, the valid sizes are the numbers the criteria name.
LEMMA EqualsValid ==
  ASSUME claim \in Inputs, Uniform, NEW g \in Seq(1..N), Assembled(g)
  PROVE  ValidSizes(g) = {z \in 1 .. Len(g) : /\ z \in claim.crit[1].min .. Most
                                              /\ z % claim.crit[1].mult = 0}
PROOF
  <1>1. Len(g) \in Nat /\ DOMAIN g = 1 .. Len(g) /\ \A i \in DOMAIN g : g[i] \in 1..N
    BY LenProperties, ElementOfSeq
  <1>2. ASSUME NEW z \in 1 .. Len(g)
        PROVE /\ WholeEntryPrefix(g, z)
              /\ ValidSize(SubSeq(g, 1, z), z) <=> /\ z \in claim.crit[1].min .. Most
                                                   /\ z % claim.crit[1].mult = 0
    <2>1. WholeEntryPrefix(g, z)
      <3> SUFFICES ASSUME NEW i \in 1..z, NEW j \in z + 1 .. Len(g)
                   PROVE claim.entry[g[i]] # claim.entry[g[j]]
        BY DEF WholeEntryPrefix
      <3>1. i \in DOMAIN g /\ j \in DOMAIN g /\ i < j
        BY <1>1
      <3>2. g[i] # g[j] /\ g[i] \in 1..N /\ g[j] \in 1..N
        BY <1>1, <3>1 DEF Assembled
      <3> QED
        BY <3>2 DEF Uniform
    <2>2. \A i \in 1..z : g[i] \in 1..N
      BY <1>1
    <2>3. 1 \in Int /\ z \in Int /\ 1 <= z /\ (z - 1) + 1 = z
      BY <1>1
    <2>4. /\ SubSeq(g, 1, z) \in Seq(1..N) /\ Len(SubSeq(g, 1, z)) = z
      BY <2>2, <2>3, SubSeqProperties
    <2>5. DOMAIN SubSeq(g, 1, z) = 1..z /\ 1 \in 1..z
      BY <2>3, <2>4, LenProperties
    <2>6. \A i \in 1..z : SubSeq(g, 1, z)[i] \in 1..N
      BY <2>4, <2>5, ElementOfSeq
    <2>7. \A i \in 1..z : Crit(SubSeq(g, 1, z)[i]) = claim.crit[1]
      BY <2>6, EqualsAlike
    <2> QED
      BY <2>1, <2>5, <2>7 DEF ValidSize, Most
  <1> QED
    BY <1>2 DEF ValidSizes

\* The reference when k groups are full and L tickets are left.
LEMMA ReferenceIs ==
  ASSUME claim \in Inputs, Uniform, NEW k \in Nat, NEW L \in Nat, L < Most, N = k * Most + L,
         NEW valid, valid = {z \in claim.crit[1].min .. L : z % claim.crit[1].mult = 0}
  PROVE  ReferenceSizes(claim.crit[1]) =
           [i \in 1..k |-> Most]
             \o IF k * Most + 1 <= claim.relaxed /\ valid # {}
                THEN <<CHOOSE z \in valid : \A j \in valid : j <= z>> ELSE <<>>
PROOF
  <1>1. Most \in Nat \ {0}
    BY EqualsAlike
  <1>2. N \div Most = k /\ N % Most = L
    <2>1. PICK m \in Nat \ {0} : m = Most
      BY <1>1
    <2>2. PICK n \in Nat : n = N
      BY NAssumption
    <2>3. L < m /\ n = k * m + L
      BY <2>1, <2>2
    <2>4. n \div m = k /\ n % m = L
      BY <2>3, WholeGroups
    <2> QED
      BY <2>1, <2>2, <2>4
  <1> DEFINE Valid(rest) == {z \in claim.crit[1].min .. rest : z % claim.crit[1].mult = 0}
             Sizes(fulls, set) ==
               [i \in 1 .. fulls |-> Most]
                 \o IF fulls * Most + 1 <= claim.relaxed /\ set # {}
                    THEN <<CHOOSE z \in set : \A j \in set : j <= z>> ELSE <<>>
  <1>3. ReferenceSizes(claim.crit[1]) = Sizes(N \div Most, Valid(N % Most))
    BY DEF ReferenceSizes, Most
  <1>4. Valid(N % Most) = valid
    BY <1>2
  <1> HIDE DEF Valid, Sizes
  <1>5. ReferenceSizes(claim.crit[1]) = Sizes(k, valid)
    BY <1>2, <1>3, <1>4
  <1> QED
    BY <1>5 DEF Sizes

\* The sizes of full groups.
LEMMA FullSizes ==
  ASSUME groups \in Seq(Seq(1..N)), \A i \in DOMAIN groups : Len(groups[i]) = Most, Most \in Nat
  PROVE  /\ [i \in DOMAIN groups |-> Len(groups[i])] = [i \in 1 .. Len(groups) |-> Most]
         /\ [i \in 1 .. Len(groups) |-> Most] \in Seq(Nat)
         /\ Len([i \in 1 .. Len(groups) |-> Most]) = Len(groups)
         /\ [i \in 1 .. Len(groups) |-> Most] \o <<>> = [i \in 1 .. Len(groups) |-> Most]
PROOF
  <1>1. Len(groups) \in Nat /\ DOMAIN groups = 1 .. Len(groups)
    BY LenProperties
  <1> DEFINE n == Len(groups)
             f == [i \in 1..n |-> Most]
  <1>2. [i \in DOMAIN groups |-> Len(groups[i])] = f
    BY <1>1
  <1>3. f \in [1..n -> Nat]
    OBVIOUS
  <1> HIDE DEF n, f
  <1>4. n \in Nat
    BY <1>1 DEF n
  <1>5. f \in Seq(Nat)
    BY <1>3, <1>4, SeqDef
  <1>6. Len(f) = n
    <2>1. DOMAIN f = 1..n
      BY <1>3
    <2> QED
      BY <1>4, <1>5, <2>1, LenProperties
  <1>7. f \o <<>> = f
    BY <1>5, ConcatEmptySeq
  <1> QED
    BY <1>2, <1>5, <1>6, <1>7 DEF f, n

\* What is known of a group of equals that is being filled.
LEMMA FrontFacts ==
  ASSUME GroupsInv, Uniform, FrontTaken, NEW F, F = Len(groups) * Most
  PROVE  /\ claim \in Inputs /\ group \in Seq(1..N) /\ groups \in Seq(Seq(1..N))
         /\ Len(groups) \in Nat /\ F \in Nat /\ F <= N
         /\ used = 1..F /\ seed \in Nat /\ seed <= F + 1
         /\ Len(group) \in Nat /\ DOMAIN group = 1 .. Len(group)
         /\ pass # "seed" =>
              /\ seed = F + 1 /\ seed \in 1..N
              /\ Len(group) \in Nat \ {0} /\ group # <<>> /\ JointMax(group) = Most
              /\ Len(group) <= Most
              /\ Assembled(group)
              /\ \A i \in 1 .. Len(group) : group[i] = (seed + i) - 1
              /\ ToSet(group) = seed .. (seed + Len(group)) - 1
              /\ F + Len(group) <= N
PROOF
  <1>1. claim \in Inputs /\ group \in Seq(1..N) /\ groups \in Seq(Seq(1..N)) /\ seed \in Nat /\ seed >= 1
    BY NAssumption DEF GroupsInv, TypeOK
  <1>2. Len(groups) \in Nat /\ Len(group) \in Nat /\ DOMAIN group = 1 .. Len(group)
    BY <1>1, LenProperties
  <1>3. Most \in Nat
    BY <1>1, EqualsAlike
  <1>4. F \in Nat
    BY <1>2, <1>3
  <1>5. used = 1..F /\ seed <= F + 1
    BY DEF FrontTaken
  <1>6. F <= N
    <2>1. \A t \in used : t <= N
      BY NAssumption DEF GroupsInv, TypeOK
    <2>2. F # 0 => F \in used
      BY <1>4, <1>5
    <2> QED
      BY <1>4, <2>1, <2>2, NAssumption
  <1>7. ASSUME pass # "seed"
        PROVE /\ seed = F + 1 /\ seed \in 1..N
              /\ Len(group) \in Nat \ {0} /\ group # <<>> /\ JointMax(group) = Most
              /\ Len(group) <= Most
              /\ Assembled(group)
              /\ \A i \in 1 .. Len(group) : group[i] = (seed + i) - 1
              /\ ToSet(group) = seed .. (seed + Len(group)) - 1
              /\ F + Len(group) <= N
    <2>1. /\ seed \in 1..N /\ seed \notin used /\ Assembled(group)
          /\ Len(EntryMembers(seed)) <= Len(group) /\ Len(group) <= JointMax(group)
      BY <1>7 DEF GroupsInv, FillingSound
    <2>2. seed = F + 1
      BY <1>1, <1>4, <1>5, <2>1
    <2>3. Len(group) \in Nat \ {0} /\ group # <<>>
      <3>1. Len(EntryMembers(seed)) = 1
        BY <1>1, <2>1, EqualsAlike
      <3>2. 1 <= Len(group)
        BY <2>1, <3>1
      <3> QED
        BY <1>2, <3>2
    <2>4. JointMax(group) = Most /\ Len(group) <= Most
      BY <1>1, <2>1, <2>3, EqualsAlike
    <2>5. \A i \in 1 .. Len(group) : group[i] = (seed + i) - 1
      BY <1>2, <1>7 DEF FrontTaken
    <2>6. ToSet(group) = seed .. (seed + Len(group)) - 1
      <3>1. \A i \in 1 .. Len(group) : group[i] \in seed .. (seed + Len(group)) - 1
        BY <1>1, <1>2, <2>5
      <3>2. ASSUME NEW t \in seed .. (seed + Len(group)) - 1
            PROVE \E i \in 1 .. Len(group) : group[i] = t
        <4>1. (t - seed) + 1 \in 1 .. Len(group) /\ (seed + ((t - seed) + 1)) - 1 = t
          BY <1>1, <1>2
        <4> QED
          BY <2>5, <4>1
      <3> QED
        BY <1>2, <3>1, <3>2 DEF ToSet
    <2>7. F + Len(group) <= N
      <3>1. Len(group) \in DOMAIN group
        BY <1>2, <2>3
      <3>2. group[Len(group)] \in 1..N /\ group[Len(group)] = (seed + Len(group)) - 1
        BY <1>1, <1>2, <2>5, <3>1, ElementOfSeq
      <3>3. (seed + Len(group)) - 1 <= N
        BY <3>2, NAssumption
      <3> QED
        BY <1>2, <1>4, <2>2, <3>3, NAssumption
    <2> QED
      BY <2>1, <2>2, <2>3, <2>4, <2>5, <2>6, <2>7
  <1> QED
    BY <1>1, <1>2, <1>4, <1>5, <1>6, <1>7

\* The next ticket of a pool of equals joins a group that is not full.
LEMMA NextEqualJoins ==
  ASSUME GroupsInv, Uniform, FrontTaken, pass = "same", NEW c \in 1..N,
         c = seed + Len(group), Len(group) < Most
  PROVE  Joins(c)
PROOF
  <1> DEFINE F == Len(groups) * Most
             e == EntryMembers(c)
  <1>1. /\ claim \in Inputs /\ group \in Seq(1..N) /\ used = 1..F /\ F \in Nat
        /\ seed = F + 1 /\ seed \in 1..N /\ Len(group) \in Nat /\ JointMax(group) = Most
        /\ ToSet(group) = seed .. (seed + Len(group)) - 1
    BY FrontFacts
  <1>2. /\ Len(e) = 1 /\ DOMAIN e = 1..1 /\ e[1] = c /\ Most \in Nat
        /\ Crit(c) = Crit(seed)
        /\ \A a, b \in 1..N : Compatible(a, b)
    BY <1>1, EqualsAlike
  <1>3. e \in Seq(1..N) /\ e # <<>>
    <2>1. e \in Seq(1..N)
      BY <1>1, EntryListed
    <2> QED
      BY <1>2, <2>1, EmptySeq
  <1>4. JointMax(e) = Most
    BY <1>1, <1>3, EqualsAlike
  <1> HIDE DEF F, e
  <1>5. c \notin used /\ c \notin ToSet(group)
    BY <1>1
  <1>6. Len(group) + Len(e) <= Most
    BY <1>1, <1>2
  <1>7. EntryCompatible(group, e)
    <2>1. \A i \in DOMAIN group : group[i] \in 1..N
      BY <1>1, LenProperties, ElementOfSeq
    <2>2. \A i \in DOMAIN e : e[i] = c /\ 1 .. i - 1 = {}
      BY <1>2
    <2>3. \A i \in DOMAIN e : CompatibleWithAll(group, e[i])
      BY <1>2, <2>1, <2>2 DEF CompatibleWithAll
    <2> QED
      BY <1>4, <1>6, <2>2, <2>3 DEF EntryCompatible
  <1> QED
    BY <1>1, <1>2, <1>4, <1>5, <1>6, <1>7 DEF Joins, e

\* Filling goes through the pool from the front.
LEMMA FrontFillingStep ==
  ASSUME GroupsInv, Uniform, FrontTaken, Next, ~CloseGroup
  PROVE  FrontTaken'
PROOF
  <1> DEFINE F == Len(groups) * Most
  <1>1. /\ claim \in Inputs /\ group \in Seq(1..N) /\ groups \in Seq(Seq(1..N))
        /\ Len(groups) \in Nat /\ F \in Nat /\ F <= N
        /\ used = 1..F /\ seed \in Nat /\ seed <= F + 1
        /\ Len(group) \in Nat /\ DOMAIN group = 1 .. Len(group)
    BY FrontFacts
  <1>2. /\ UNCHANGED <<used, groups, claim>> /\ Most' = Most
    BY FillingIsQuiet, StepKeepsClaim DEF Most
  <1>3. /\ \A i \in DOMAIN groups : Len(groups[i]) = Most
        /\ pass # "seed" =>
             /\ \A i \in DOMAIN group : group[i] = (seed + i) - 1
             /\ Len(group) < Most =>
                  seed + Len(group) = IF pass # "same" THEN N + 1
                                      ELSE IF cursor > seed THEN cursor ELSE seed + 1
    BY DEF FrontTaken
  <1>4. Most \in Nat \ {0}
    BY <1>1, EqualsAlike
  <1>5. ASSUME seed' \in Nat, seed' <= F + 1,
               pass' # "seed" =>
                 /\ \A i \in DOMAIN group' : group'[i] = (seed' + i) - 1
                 /\ Len(group') < Most =>
                      seed' + Len(group') = IF pass' # "same" THEN N + 1
                                            ELSE IF cursor' > seed' THEN cursor' ELSE seed' + 1
        PROVE FrontTaken'
    BY <1>1, <1>2, <1>3, <1>5 DEF FrontTaken
  <1> HIDE DEF F
  <1>6. ASSUME NEW s \in 1..N, PassOver(s) PROVE FrontTaken'
    <2>1. pass' = "seed" /\ seed = s /\ seed' = s + 1
          /\ (s \in used \/ ~EntryCompatible(<<>>, EntryMembers(s)))
      BY <1>6 DEF PassOver
    <2>2. EntryCompatible(<<>>, EntryMembers(s))
      <3>1. /\ Len(EntryMembers(s)) = 1 /\ DOMAIN EntryMembers(s) = 1..1
        BY <1>1, EqualsAlike
      <3>2. EntryMembers(s) \in Seq(1..N) /\ EntryMembers(s) # <<>>
        BY <1>1, <3>1, EntryListed, EmptySeq
      <3>3. JointMax(EntryMembers(s)) = Most
        BY <1>1, <3>2, EqualsAlike
      <3>4. Len(<<>>) + Len(EntryMembers(s)) <= Most
        BY <1>4, <3>1
      <3>5. \A i \in DOMAIN EntryMembers(s) : 1 .. i - 1 = {} /\ CompatibleWithAll(<<>>, EntryMembers(s)[i])
        BY <3>1 DEF CompatibleWithAll
      <3> QED
        BY <3>3, <3>4, <3>5 DEF EntryCompatible
    <2>3. s <= F /\ s \in Nat
      BY <1>1, <2>1, <2>2
    <2>4. seed' \in Nat /\ seed' <= F + 1
      BY <1>1, <2>1, <2>3
    <2> QED
      BY <1>5, <2>1, <2>4
  <1>7. ASSUME NEW s \in 1..N, StartGroup(s) PROVE FrontTaken'
    <2>1. group' = EntryMembers(s) /\ seed = s /\ seed' = s /\ pass' = "same" /\ cursor' = 1
      BY <1>7 DEF StartGroup
    <2>2. Len(group') = 1 /\ DOMAIN group' = 1..1 /\ group'[1] = s
      BY <1>1, <2>1, EqualsAlike
    <2>3. \A i \in DOMAIN group' : group'[i] = (seed' + i) - 1
      BY <1>1, <2>1, <2>2
    <2>4. ~(cursor' > seed')
      BY <2>1, NAssumption
    <2> QED
      BY <1>1, <1>5, <2>1, <2>2, <2>3, <2>4
  <1>8. ASSUME NEW c \in 1..N, SkipCandidate(c) PROVE FrontTaken'
    <2>1. UNCHANGED <<seed, group, pass>> /\ cursor = c /\ cursor' = c + 1 /\ ~Joins(c)
          /\ pass \in {"same", "other"}
      BY <1>8 DEF SkipCandidate
    <2>2. ASSUME pass = "same", Len(group) < Most
          PROVE  seed + Len(group) = IF c + 1 > seed THEN c + 1 ELSE seed + 1
      <3>1. seed + Len(group) = IF c > seed THEN c ELSE seed + 1
        BY <1>3, <2>1, <2>2
      <3>2. ~(c > seed)
        BY <2>1, <2>2, <3>1, NextEqualJoins
      <3>3. c \in Nat
        BY NAssumption
      <3> QED
        BY <1>1, <3>1, <3>2, <3>3
    <2>3. ASSUME Len(group) < Most
          PROVE  seed + Len(group) = IF pass # "same" THEN N + 1
                                     ELSE IF cursor' > seed THEN cursor' ELSE seed + 1
      BY <1>3, <2>1, <2>2, <2>3
    <2> QED
      BY <1>1, <1>3, <1>5, <2>1, <2>3
  <1>9. ASSUME NEW c \in 1..N, JoinGroup(c) PROVE FrontTaken'
    <2> DEFINE e == EntryMembers(c)
    <2>1. /\ group' = group \o e /\ seed' = seed /\ pass \in {"same", "other"} /\ Joins(c)
          /\ cursor = c /\ cursor' = c + 1
          /\ pass' = IF Full(group') THEN "filled" ELSE pass
      BY <1>9 DEF JoinGroup
    <2>2. /\ seed = F + 1 /\ seed \in 1..N /\ Len(group) \in Nat \ {0} /\ JointMax(group) = Most
          /\ ToSet(group) = seed .. (seed + Len(group)) - 1
      BY <2>1, FrontFacts DEF F
    <2>3. /\ Len(e) = 1 /\ DOMAIN e = 1..1 /\ e[1] = c /\ Crit(c) = Crit(seed) /\ e \in Seq(1..N)
      BY <1>1, <2>2, EqualsAlike, EntryListed
    <2>4. /\ pass = "same" /\ c \notin used /\ c \notin ToSet(group)
          /\ Len(group) + Len(e) <= JointMax(group)
      BY <2>1, <2>3 DEF Joins
    <2> HIDE DEF e
    <2>5. Len(group) < Most
      BY <1>1, <1>4, <2>2, <2>3, <2>4
    <2>6. seed + Len(group) = IF c > seed THEN c ELSE seed + 1
      BY <1>3, <2>1, <2>4, <2>5
    <2>7. c > seed /\ c \in Nat
      <3>1. c \in Nat /\ c >= 1
        BY NAssumption
      <3>2. ~(c <= F)
        BY <1>1, <2>4, <3>1
      <3>3. c # seed
        BY <1>1, <2>2, <2>4
      <3> QED
        BY <1>1, <2>2, <3>1, <3>2, <3>3
    <2>8. c = seed + Len(group)
      BY <2>6, <2>7
    <2>9. /\ Len(group') = Len(group) + 1 /\ DOMAIN group' = 1 .. Len(group) + 1 /\ group' \in Seq(1..N)
          /\ \A i \in DOMAIN group' : \/ i \in DOMAIN group /\ group'[i] = group[i]
                                      \/ i - Len(group) \in DOMAIN e /\ group'[i] = e[i - Len(group)]
      <3>1. /\ group \o e \in Seq(1..N) /\ Len(group \o e) = Len(group) + Len(e)
            /\ DOMAIN (group \o e) = 1 .. Len(group) + Len(e)
            /\ \A i \in DOMAIN (group \o e) :
                 \/ i \in DOMAIN group /\ (group \o e)[i] = group[i]
                 \/ i - Len(group) \in DOMAIN e /\ (group \o e)[i] = e[i - Len(group)]
        BY <1>1, <2>3, Joined
      <3> QED
        BY <2>1, <2>3, <3>1
    <2>10. ASSUME NEW i \in DOMAIN group' PROVE group'[i] = (seed' + i) - 1
      <3>1. CASE i \in DOMAIN group /\ group'[i] = group[i]
        BY <1>3, <2>1, <2>4, <3>1
      <3>2. CASE i - Len(group) \in DOMAIN e /\ group'[i] = e[i - Len(group)]
        <4>1. i - Len(group) = 1 /\ i \in Int
          BY <1>1, <2>3, <2>9, <3>2
        <4>2. group'[i] = c /\ i = Len(group) + 1
          BY <1>1, <2>3, <3>2, <4>1
        <4> QED
          BY <1>1, <2>1, <2>8, <4>2
      <3> QED
        BY <2>9, <3>1, <3>2
    <2>11. ASSUME Len(group') < Most
           PROVE  seed' + Len(group') = IF pass' # "same" THEN N + 1
                                        ELSE IF cursor' > seed' THEN cursor' ELSE seed' + 1
      <3>1. group' # <<>>
        BY <1>1, <2>9
      <3>2. JointMax(group') = Most
        BY <1>1, <2>9, <3>1, EqualsAlike
      <3>3. ~Full(group')
        <4>1. Len(group') # Most
          BY <1>1, <1>4, <2>9, <2>11
        <4> QED
          BY <3>2, <4>1 DEF Full
      <3>4. pass' = "same"
        BY <2>1, <2>4, <3>3
      <3>5. cursor' > seed' /\ cursor' = seed' + Len(group')
        BY <1>1, <2>1, <2>7, <2>8, <2>9
      <3> QED
        BY <3>4, <3>5
    <2> QED
      BY <1>1, <1>5, <2>1, <2>10, <2>11
  <1>10. ASSUME EndOfPass PROVE FrontTaken'
    <2>1. /\ UNCHANGED <<seed, group>> /\ pass \in {"same", "other"} /\ cursor = N + 1
          /\ pass' \in {"other", "filled"}
      BY <1>10 DEF EndOfPass
    <2>2. seed \in 1..N
      BY <2>1, FrontFacts
    <2>3. N + 1 > seed
      BY <2>2, NAssumption
    <2>4. Len(group) < Most => seed + Len(group) = N + 1
      BY <1>3, <2>1, <2>3
    <2> QED
      BY <1>1, <1>3, <1>5, <2>1, <2>4
  <1> QED
    BY <1>6, <1>7, <1>8, <1>9, <1>10 DEF Next

\* A full group of equals is taken as it is.
LEMMA FrontFullClose ==
  ASSUME GroupsInv, Uniform, FrontTaken, CloseGroup, Len(group) = Most
  PROVE  FrontTaken'
PROOF
  <1> DEFINE k == Len(groups)
             F == k * Most
             z == LargestValidSize(group)
             cut == SubSeq(group, 1, z)
  <1>1. pass = "filled" /\ seed' = seed + 1 /\ pass' = "seed" /\ UNCHANGED claim
    BY DEF CloseGroup
  <1>2. /\ claim \in Inputs /\ group \in Seq(1..N) /\ groups \in Seq(Seq(1..N))
        /\ k \in Nat /\ F \in Nat /\ used = 1..F
        /\ seed = F + 1 /\ Len(group) \in Nat \ {0} /\ group # <<>> /\ JointMax(group) = Most
        /\ Assembled(group) /\ ToSet(group) = seed .. (seed + Len(group)) - 1
    BY <1>1, FrontFacts
  <1>3. /\ Most \in Nat \ {0} /\ claim.crit[1].min \in Nat /\ claim.crit[1].min <= Most
        /\ Most % claim.crit[1].mult = 0
    BY <1>2, EqualsAlike DEF Uniform, Most
  <1>4. Most \in ValidSizes(group)
    <2>1. Most \in 1 .. Len(group) /\ Most \in claim.crit[1].min .. Most
      BY <1>3
    <2> QED
      BY <1>2, <1>3, <2>1, EqualsValid
  <1>5. z \in 0 .. Len(group) /\ Most <= z
    BY <1>2, <1>4, LargestIsGreatest
  <1> HIDE DEF z, F, k, cut
  <1>6. z = Most
    BY <1>3, <1>5
  <1>7. cut = group
    BY <1>2, <1>6, SubSeqFull DEF cut
  <1>8. Full(cut) /\ z # 0
    BY <1>2, <1>3, <1>6, <1>7 DEF Full
  <1>9. used' = used \union ToSet(group) /\ groups' = Append(groups, group)
    <2>1. TypeOK
      BY DEF GroupsInv
    <2> QED
      BY <1>7, <1>8, <2>1, ClosedHow DEF cut, z
  <1>10. /\ Len(groups') = k + 1
         /\ \A i \in DOMAIN groups : i \in DOMAIN groups' /\ groups'[i] = groups[i]
         /\ groups'[k + 1] = group
         /\ \A i \in DOMAIN groups' : i \in DOMAIN groups \/ i = k + 1
    BY <1>2, <1>9, AppendedLast DEF k
  <1>11. \A i \in DOMAIN groups' : Len(groups'[i]) = Most
    BY <1>10 DEF FrontTaken
  <1>12. (k + 1) * Most = F + Most
    <2>1. PICK m \in Nat \ {0} : m = Most
      BY <1>3
    <2>2. (k + 1) * m = k * m + m
      BY <1>2, OneGroupMore
    <2> QED
      BY <2>1, <2>2 DEF F
  <1>13. used' = 1 .. F + Most
    <2>1. ToSet(group) = F + 1 .. F + Most
      <3>1. (seed + Len(group)) - 1 = F + Most
        BY <1>2, <1>3
      <3> QED
        BY <1>2, <3>1
    <2>2. (1..F) \union (F + 1 .. F + Most) = 1 .. F + Most
      BY <1>2, <1>3
    <2> QED
      BY <1>2, <1>9, <2>1, <2>2
  <1>14. seed' <= (F + Most) + 1
    BY <1>1, <1>2, <1>3
  <1>15. Most' = Most
    BY <1>1 DEF Most
  <1>16. Len(groups)' * Most' = F + Most
    BY <1>10, <1>12, <1>15
  <1> QED
    BY <1>1, <1>11, <1>13, <1>14, <1>15, <1>16 DEF FrontTaken

\* When fewer are left than make a full group, the last group is the largest
\* valid one, if its seed has waited, and nothing after it is.
LEMMA FrontRestClose ==
  ASSUME GroupsInv, Uniform, FrontTaken, CloseGroup, Len(group) < Most
  PROVE  RestDecided'
PROOF
  <1> DEFINE k == Len(groups)
             F == k * Most
             L == Len(group)
             z == LargestValidSize(group)
             cut == SubSeq(group, 1, z)
             c == claim.crit[1]
             valid == {x \in c.min .. L : x % c.mult = 0}
             fulls == [i \in 1..k |-> Most]
  <1>1. pass = "filled" /\ seed' = seed + 1 /\ UNCHANGED claim
    BY DEF CloseGroup
  <1>2. /\ claim \in Inputs /\ group \in Seq(1..N) /\ groups \in Seq(Seq(1..N))
        /\ k \in Nat /\ F \in Nat /\ used = 1..F
        /\ seed = F + 1 /\ L \in Nat \ {0}
        /\ Assembled(group)
        /\ \A i \in 1..L : group[i] = (seed + i) - 1
    BY <1>1, FrontFacts
  <1>3. Most \in Nat \ {0} /\ c.min \in Nat \ {0} /\ c.mult \in Nat \ {0}
    BY <1>2, EqualsAlike
  <1>4. N = F + L
    <2>1. seed + L = N + 1
      BY <1>1 DEF FrontTaken
    <2> HIDE DEF F, L
    <2> QED
      BY <1>2, <2>1, NAssumption
  <1>5. ValidSizes(group) = valid
    <2>1. ValidSizes(group) = {x \in 1..L : x \in c.min .. Most /\ x % c.mult = 0}
      BY <1>2, EqualsValid
    <2>2. L < Most
      OBVIOUS
    <2> HIDE DEF L, c
    <2>3. \A x : x \in 1..L /\ x \in c.min .. Most <=> x \in c.min .. L
      BY <1>2, <1>3, <2>2
    <2> QED
      BY <2>1, <2>3
  <1>6. /\ z \in 0..L /\ (z # 0 => z \in valid)
        /\ \A x \in valid : x <= z
    BY <1>2, <1>5, LargestIsGreatest
  <1>7. ReferenceSizes(c) =
          fulls \o IF F + 1 <= claim.relaxed /\ valid # {}
                   THEN <<CHOOSE x \in valid : \A j \in valid : j <= x>> ELSE <<>>
    <2>1. L \in Nat /\ L < Most /\ N = k * Most + L
      BY <1>2, <1>4
    <2> HIDE DEF L, k, valid
    <2> QED
      BY <1>2, <2>1, ReferenceIs DEF valid, k, L
  <1>8. /\ [i \in DOMAIN groups |-> Len(groups[i])] = fulls
        /\ fulls \in Seq(Nat) /\ Len(fulls) = k /\ fulls \o <<>> = fulls
    BY <1>2, <1>3, FullSizes DEF FrontTaken
  <1>9. /\ claim' = claim /\ Most' = Most /\ ReferenceSizes(c)' = ReferenceSizes(c)
    <2>1. claim' = claim
      BY <1>1
    <2> QED
      BY <2>1 DEF Most, ReferenceSizes
  <1>10. TypeOK
    BY DEF GroupsInv
  <1>11. CASE /\ z = 0 \/ ~Relaxed(seed)
              /\ used' = used /\ groups' = groups
    <2>1. ReferenceSizes(c) = fulls
      <3>1. ~(F + 1 <= claim.relaxed /\ valid # {})
        <4>1. CASE z = 0
          <5>1. \A x \in valid : x >= 1
            <6> HIDE DEF L, c
            <6>1. \A x \in c.min .. L : x >= 1
              BY <1>2, <1>3
            <6> QED
              BY <6>1
          <5>2. \A x \in valid : x <= 0
            BY <1>6, <4>1
          <5>3. \A x \in valid : x \in Nat
            <6> HIDE DEF L, c
            <6>1. \A x \in c.min .. L : x \in Nat
              BY <1>2, <1>3
            <6> QED
              BY <6>1
          <5> HIDE DEF valid
          <5>4. valid = {}
            BY <5>1, <5>2, <5>3
          <5> QED
            BY <5>4
        <4>2. CASE ~Relaxed(seed)
          BY <1>2, <4>2 DEF Relaxed
        <4> QED
          BY <1>11, <4>1, <4>2
      <3> HIDE DEF valid, fulls, F, c
      <3> QED
        BY <1>7, <1>8, <3>1
    <2>2. N - F = L /\ F \in 0..N /\ L < Most
      <3> HIDE DEF F
      <3> QED
        BY <1>2, <1>4, NAssumption
    <2>3. seed' > claim.relaxed \/ \A x \in c.min .. N - F : x % c.mult # 0
      <3>1. CASE z = 0
        <4>1. \A x \in c.min .. L : x >= 1 /\ x \in Nat
          <5> HIDE DEF L, c
          <5> QED
            BY <1>2, <1>3
        <4>2. \A x \in c.min .. L : x % c.mult = 0 => x <= 0
          BY <1>6, <3>1
        <4> HIDE DEF c, L
        <4>3. \A x \in c.min .. L : ~(x <= 0)
          BY <4>1
        <4> QED
          BY <2>2, <4>2, <4>3
      <3>2. CASE ~Relaxed(seed)
        <4>1. claim.relaxed \in Nat
          BY <1>2, CriteriaTyped
        <4>2. seed \in Nat
          BY <1>2
        <4> QED
          BY <1>1, <3>2, <4>1, <4>2 DEF Relaxed
      <3> QED
        BY <1>11, <3>1, <3>2
    <2>4. [i \in DOMAIN groups' |-> Len(groups'[i])] = ReferenceSizes(c)
      BY <1>8, <1>11, <2>1
    <2>5. used' = 1..F
      BY <1>2, <1>11
    <2> HIDE DEF F, L
    <2>6. N - F < Most'
      BY <1>9, <2>2
    <2> QED
      BY <1>9, <2>2, <2>3, <2>4, <2>5, <2>6 DEF RestDecided
  <1>12. CASE /\ z # 0 /\ Relaxed(seed) /\ z \in ValidSizes(group)
              /\ used' = used \union ToSet(cut)
              /\ groups' = Append(groups, cut)
    <2>1. /\ cut \in Seq(1..N) /\ Len(cut) = z /\ DOMAIN cut = 1..z
          /\ \A i \in 1..z : cut[i] = group[i]
      BY <1>2, <1>12, CutAssembled
    <2>2. z \in 1..L /\ z \in Nat
      <3> HIDE DEF z, L
      <3> QED
        BY <1>2, <1>6, <1>12
    <2>3. ToSet(cut) = F + 1 .. F + z
      <3> HIDE DEF F, L, z, cut
      <3>1. \A i \in 1..z : cut[i] = F + i
        <4>1. \A i \in 1..z : i \in 1..L /\ (seed + i) - 1 = F + i
          BY <1>2, <2>2
        <4> QED
          BY <1>2, <2>1, <4>1
      <3>2. \A i \in 1..z : cut[i] \in F + 1 .. F + z
        BY <1>2, <2>2, <3>1
      <3>3. ASSUME NEW t \in F + 1 .. F + z PROVE \E i \in 1..z : cut[i] = t
        <4>1. t - F \in 1..z /\ F + (t - F) = t
          BY <1>2, <2>2
        <4> QED
          BY <3>1, <4>1
      <3> QED
        BY <2>1, <3>2, <3>3 DEF ToSet
    <2>4. used' = 1 .. F + z
      <3> HIDE DEF F, z, cut
      <3>1. (1..F) \union (F + 1 .. F + z) = 1 .. F + z
        BY <1>2, <2>2
      <3> QED
        BY <1>2, <1>12, <2>3, <3>1
    <2>5. F + z \in 0..N /\ N - (F + z) = L - z /\ L - z < Most
      <3>1. L < Most /\ L \in Nat
        BY <1>2
      <3> HIDE DEF F, z, L
      <3> QED
        BY <1>2, <1>3, <1>4, <2>2, <3>1, NAssumption
    <2>6. \A x \in c.min .. L - z : x % c.mult # 0
      <3> SUFFICES ASSUME NEW x \in c.min .. L - z, x % c.mult = 0 PROVE FALSE
        OBVIOUS
      <3>1. z \in valid
        BY <1>6, <1>12
      <3>2. z % c.mult = 0 /\ z \in c.min .. L
        BY <3>1
      <3>3. x \in Nat /\ x >= 1
        <4> HIDE DEF c, L, z
        <4> QED
          BY <1>2, <1>3, <2>2
      <3>4. (x + z) % c.mult = 0
        <4>1. PICK d \in Nat \ {0} : d = c.mult
          BY <1>3
        <4> HIDE DEF c, L, z
        <4>2. (x + z) % d = 0
          BY <2>2, <3>2, <3>3, <4>1, MultiplesAddUp
        <4> QED
          BY <4>1, <4>2
      <3>5. x + z \in c.min .. L
        <4> HIDE DEF c, L, z
        <4> QED
          BY <1>2, <1>3, <2>2, <3>2, <3>3
      <3>6. x + z <= z
        BY <1>6, <3>4, <3>5
      <3> HIDE DEF z, L, c
      <3> QED
        BY <2>2, <3>3, <3>6
    <2>7. ReferenceSizes(c) = fulls \o <<z>>
      <3>1. z \in valid /\ \A x \in valid : x <= z
        BY <1>6, <1>12
      <3>2. \A x \in valid : x \in Nat
        <4> HIDE DEF c, L
        <4>1. \A x \in c.min .. L : x \in Nat
          BY <1>2, <1>3
        <4> QED
          BY <4>1
      <3>3. F + 1 <= claim.relaxed
        BY <1>2, <1>12 DEF Relaxed
      <3> HIDE DEF valid, z, F, fulls, c
      <3>4. (CHOOSE x \in valid : \A j \in valid : j <= x) = z
        <4>1. \A x \in valid : (\A j \in valid : j <= x) => x = z
          <5> SUFFICES ASSUME NEW x \in valid, \A j \in valid : j <= x PROVE x = z
            OBVIOUS
          <5>1. x <= z /\ z <= x /\ x \in Nat /\ z \in Nat
            BY <3>1, <3>2
          <5> QED
            BY <5>1
        <4> QED
          BY <3>1, <4>1
      <3> QED
        BY <1>7, <3>1, <3>3, <3>4
    <2>8. [i \in DOMAIN groups' |-> Len(groups'[i])] = fulls \o <<z>>
      <3>1. groups' = Append(groups, cut)
        BY <1>12
      <3>2. /\ DOMAIN groups' = 1 .. k + 1
            /\ DOMAIN groups = 1..k
            /\ \A i \in DOMAIN groups : groups'[i] = groups[i]
            /\ groups'[k + 1] = cut
        <4> HIDE DEF z, cut, fulls, c, valid, F
        <4>1. groups \in Seq(Seq(1..N)) /\ cut \in Seq(1..N)
          BY <1>2, <2>1
        <4> QED
          BY <3>1, <4>1, AppendedLast
      <3>3. \A i \in 1..k : fulls[i] = Most
        OBVIOUS
      <3>4. \A i \in 1..k : Len(groups[i]) = Most
        BY <3>2 DEF FrontTaken
      <3> HIDE DEF fulls, z, cut, k
      <3>5. <<z>> \in Seq(Nat) /\ Len(<<z>>) = 1 /\ <<z>>[1] = z
        BY <2>2
      <3>6. /\ fulls \o <<z>> \in Seq(Nat) /\ Len(fulls \o <<z>>) = k + 1
            /\ \A i \in 1 .. k + 1 : (fulls \o <<z>>)[i] = IF i <= k THEN fulls[i] ELSE <<z>>[i - k]
        BY <1>2, <1>8, <3>5, ConcatProperties
      <3>7. ASSUME NEW i \in 1 .. k + 1 PROVE (fulls \o <<z>>)[i] = Len(groups'[i])
        <4>1. CASE i <= k
          <5>1. i \in 1..k
            BY <1>2, <4>1
          <5> QED
            BY <3>2, <3>3, <3>4, <3>6, <4>1, <5>1
        <4>2. CASE ~(i <= k)
          <5>1. i = k + 1 /\ i - k = 1
            BY <1>2, <4>2
          <5> QED
            BY <2>1, <3>2, <3>5, <3>6, <4>2, <5>1
        <4> QED
          BY <4>1, <4>2
      <3>8. DOMAIN (fulls \o <<z>>) = 1 .. k + 1
        BY <3>6, LenProperties
      <3>9. fulls \o <<z>> = [i \in 1 .. k + 1 |-> (fulls \o <<z>>)[i]]
        BY <3>6, <3>8, LenProperties
      <3> QED
        BY <3>2, <3>7, <3>9
    <2>9. [i \in DOMAIN groups' |-> Len(groups'[i])] = ReferenceSizes(c)
      BY <2>7, <2>8
    <2> HIDE DEF F, L, z
    <2>10. PICK w \in 0..N : w = F + z
      BY <2>5
    <2>11. used' = 1..w /\ N - w < Most' /\ \A x \in c.min .. N - w : x % c.mult # 0
      BY <1>9, <2>4, <2>5, <2>6, <2>10
    <2> QED
      BY <1>9, <2>9, <2>11 DEF RestDecided
  <1>13. ~Full(cut) \/ z = 0
    <2> SUFFICES ASSUME z # 0 PROVE ~Full(cut)
      OBVIOUS
    <2>1. cut \in Seq(1..N) /\ Len(cut) = z /\ z \in 1 .. L
      BY <1>2, <1>5, <1>6, CutAssembled
    <2>2. L < Most /\ L \in Nat
      BY <1>2
    <2> HIDE DEF cut, z, L
    <2>3. cut # <<>>
      BY <2>1, <2>2, EmptySeq
    <2>4. JointMax(cut) = Most
      BY <1>2, <2>1, <2>3, EqualsAlike
    <2>5. z # Most
      BY <1>3, <2>1, <2>2
    <2> QED
      BY <2>1, <2>4, <2>5 DEF Full
  <1> QED
    BY <1>10, <1>11, <1>12, <1>13, ClosedHow

\* Once the sizes are decided no group is taken any more.
LEMMA RestStep ==
  ASSUME GroupsInv, Uniform, RestDecided, Next
  PROVE  RestDecided'
PROOF
  <1> DEFINE c == claim.crit[1]
  <1>1. /\ claim \in Inputs /\ group \in Seq(1..N) /\ TypeOK /\ FillingSound /\ seed \in Nat
    BY NAssumption DEF GroupsInv, TypeOK
  <1>2. /\ claim' = claim /\ Most' = Most /\ ReferenceSizes(c)' = ReferenceSizes(c)
    <2>1. claim' = claim
      BY StepKeepsClaim
    <2> QED
      BY <2>1 DEF Most, ReferenceSizes
  <1>3. Most \in Nat \ {0} /\ c.min \in Nat \ {0} /\ c.mult \in Nat \ {0}
    BY <1>1, EqualsAlike
  <1>4. PICK w \in 0..N :
          /\ used = 1..w /\ N - w < Most
          /\ seed > claim.relaxed \/ \A k \in c.min .. N - w : k % c.mult # 0
    BY DEF RestDecided
  <1>5. claim.relaxed \in Nat
    BY <1>1, CriteriaTyped
  <1>6. seed' = seed \/ seed' = seed + 1
    BY DEF Next, PassOver, StartGroup, SkipCandidate, JoinGroup, EndOfPass, CloseGroup
  <1>7. seed > claim.relaxed => seed' > claim.relaxed
    BY <1>1, <1>5, <1>6
  <1>8. ASSUME UNCHANGED <<used, groups>> PROVE RestDecided'
    <2>1. [i \in DOMAIN groups' |-> Len(groups'[i])] = ReferenceSizes(c)
      BY <1>8 DEF RestDecided
    <2>2. used' = 1..w /\ N - w < Most'
      BY <1>2, <1>4, <1>8
    <2>3. seed' > claim.relaxed \/ \A k \in c.min .. N - w : k % c.mult # 0
      BY <1>4, <1>7
    <2> HIDE DEF c
    <2> QED
      BY <1>2, <2>1, <2>2, <2>3 DEF RestDecided, c
  <1>9. ASSUME CloseGroup,
               LargestValidSize(group) \in ValidSizes(group),
               Full(SubSeq(group, 1, LargestValidSize(group))) \/ Relaxed(seed)
        PROVE FALSE
    <2> DEFINE z == LargestValidSize(group)
               cut == SubSeq(group, 1, z)
    <2>1. Assembled(group) /\ ToSet(group) \cap used = {}
      BY <1>1, <1>9 DEF CloseGroup, FillingSound
    <2>2. /\ z \in 1 .. Len(group) /\ cut \in Seq(1..N) /\ Len(cut) = z
      BY <1>1, <1>9, <2>1, CutAssembled
    <2>3. z \in c.min .. Most /\ z % c.mult = 0
      BY <1>1, <1>9, <2>1, EqualsValid
    <2>4. Len(group) <= N - w
      <3>1. Cardinality(ToSet(group)) = Len(group) /\ ToSet(group) \subseteq 1..N
        BY <1>1, <2>1, AssembledCount
      <3>2. ToSet(group) \subseteq w + 1 .. N
        BY <1>4, <2>1, <3>1, NAssumption
      <3>3. IsFiniteSet(w + 1 .. N) /\ Cardinality(w + 1 .. N) = N - w
        <4>1. w + 1 \in Int /\ N \in Int /\ (w + 1 > N => N - w = 0) /\ (N - (w + 1)) + 1 = N - w
          BY <1>4, NAssumption
        <4>2. /\ IsFiniteSet(w + 1 .. N)
              /\ Cardinality(w + 1 .. N) = IF w + 1 > N THEN 0 ELSE (N - (w + 1)) + 1
          BY <4>1, FS_Interval
        <4> QED
          BY <4>1, <4>2
      <3>4. Cardinality(ToSet(group)) <= Cardinality(w + 1 .. N)
        BY <3>2, <3>3, FS_Subset
      <3> QED
        BY <3>1, <3>3, <3>4
    <2>5. Len(group) \in Nat
      BY <1>1, LenProperties
    <2> HIDE DEF z, cut, c
    <2>6. z \in Nat /\ z <= N - w /\ z < Most /\ z \in c.min .. N - w
      <3>1. N - w \in Int
        BY <1>4, NAssumption
      <3> QED
        BY <1>3, <1>4, <2>2, <2>3, <2>4, <2>5, <3>1
    <2>7. seed > claim.relaxed
      BY <1>4, <2>3, <2>6
    <2>8. ~Relaxed(seed)
      BY <1>1, <1>5, <2>7 DEF Relaxed
    <2>9. cut # <<>>
      BY <2>2, <2>5, EmptySeq
    <2>10. JointMax(cut) = Most
      BY <1>1, <2>2, <2>9, EqualsAlike
    <2>11. z # Most
      BY <1>3, <2>6
    <2>12. ~Full(cut)
      BY <2>2, <2>10, <2>11 DEF Full
    <2> QED
      BY <1>9, <2>8, <2>12 DEF z, cut
  <1>10. CASE CloseGroup
    BY <1>1, <1>8, <1>9, <1>10, ClosedHow
  <1>11. CASE ~CloseGroup
    BY <1>8, <1>11, FillingIsQuiet
  <1> QED
    BY <1>10, <1>11

\* A pool of equals is split from the front.
LEMMA EqualsStep ==
  ASSUME GroupsInv, Next
  PROVE  EqualsInOrder'
PROOF
  <1>1. Uniform' = Uniform
    BY StepKeepsClaim DEF Uniform
  <1> SUFFICES ASSUME Uniform PROVE FrontTaken' \/ RestDecided'
    BY <1>1 DEF EqualsInOrder
  <1>2. CASE FrontTaken /\ CloseGroup
    <2>1. Len(group) <= Most /\ Len(group) \in Nat
      BY <1>2, FrontFacts DEF CloseGroup
    <2>2. Most \in Nat
      BY EqualsAlike DEF GroupsInv, TypeOK
    <2>3. Len(group) = Most \/ Len(group) < Most
      BY <2>1, <2>2
    <2> QED
      BY <1>2, <2>3, FrontFullClose, FrontRestClose
  <1>3. CASE FrontTaken /\ ~CloseGroup
    BY <1>3, FrontFillingStep
  <1>4. CASE RestDecided
    BY <1>4, RestStep
  <1> QED
    BY <1>2, <1>3, <1>4 DEF GroupsInv, EqualsInOrder

\* Before the first seed there is nothing to say.
LEMMA GroupsInitial == Init => GroupsInv
PROOF
  <1> SUFFICES ASSUME Init PROVE GroupsInv
    OBVIOUS
  <1>1. /\ claim \in Inputs /\ seed = 1 /\ used = {} /\ groups = <<>> /\ pass = "seed"
        /\ cursor = 1 /\ group = <<>>
    BY DEF Init
  <1>2. TypeOK
    <2>1. groups \in Seq(Seq(1..N)) /\ group \in Seq(1..N)
      BY <1>1, EmptySeq
    <2>2. 1 \in 1 .. N + 1
      BY NAssumption
    <2> QED
      BY <1>1, <2>1, <2>2 DEF TypeOK
  <1>3. DOMAIN groups = {} /\ Groups = {} /\ Len(groups) = 0
    BY <1>1 DEF Groups
  <1>4. UsedIsGrouped /\ GroupsPartition /\ GroupsAgree /\ SameRegionFirst
    <2>1. UsedIsGrouped
      BY <1>1, <1>3 DEF UsedIsGrouped
    <2>2. GroupsPartition
      BY <1>3 DEF GroupsPartition
    <2>3. GroupsAgree /\ SameRegionFirst
      BY <1>3 DEF GroupsAgree, SameRegionFirst
    <2> QED
      BY <2>1, <2>2, <2>3
  <1>5. FillingSound /\ RegionsInOrder
    BY <1>1 DEF FillingSound, RegionsInOrder
  <1>6. LeftoversSeen
    <2>1. 1 .. seed - 1 = {}
      BY <1>1
    <2> QED
      BY <2>1 DEF LeftoversSeen
  <1>7. EqualsInOrder
    <2> SUFFICES ASSUME Uniform PROVE FrontTaken
      BY DEF EqualsInOrder
    <2>1. Most \in Nat
      BY <1>1, EqualsAlike
    <2>2. Len(groups) * Most = 0
      BY <1>3, <2>1
    <2>3. 1 .. 0 = {} /\ 1 <= 0 + 1
      OBVIOUS
    <2> QED
      BY <1>1, <1>3, <2>2, <2>3 DEF FrontTaken
  <1> QED
    BY <1>2, <1>4, <1>5, <1>6, <1>7 DEF GroupsInv

\* Every step keeps the invariant.
LEMMA GroupsKept == GroupsInv /\ [Next]_vars => GroupsInv'
PROOF
  <1> SUFFICES ASSUME GroupsInv, [Next]_vars PROVE GroupsInv'
    OBVIOUS
  <1>1. CASE Next
    BY <1>1, GroupTypesStep, GroupsApartStep, FillingStep, LeftoversStep, RegionsStep,
       RegionsFirstStep, EqualsStep DEF GroupsInv
  <1>2. CASE UNCHANGED vars
    <2>1. UNCHANGED <<claim, seed, used, groups, pass, cursor, group>>
      BY <1>2 DEF vars
    <2>2. TypeOK' /\ UsedIsGrouped'
      BY <2>1 DEF GroupsInv, TypeOK, UsedIsGrouped
    <2>3. GroupsPartition'
      BY <2>1, ClaimFixed DEF GroupsInv, GroupsPartition, Groups
    <2>4. GroupsAgree'
      <3>1. \A g : Agreed(g)' = Agreed(g)
        <4>1. UNCHANGED claim /\ \A t : Crit(t)' = Crit(t)
          BY <2>1, ClaimFixed
        <4> QED
          BY <4>1 DEF Agreed
      <3> QED
        BY <2>1, <3>1 DEF GroupsInv, GroupsAgree, Groups
    <2>5. FillingSound'
      BY <2>1, ClaimFixed, ClaimFixedToo DEF GroupsInv, FillingSound
    <2>6. LeftoversSeen'
      BY <2>1, ClaimFixedToo DEF GroupsInv, LeftoversSeen
    <2>7. RegionsInOrder'
      <3>1. \A t : Mate(t)' = Mate(t)
        BY <2>1, ClaimFixed DEF Mate
      <3>2. \A u : Suits(u)' = Suits(u)
        BY <2>1, <3>1, ClaimFixed DEF Suits
      <3>3. MatesOnly' = MatesOnly /\ MatesTaken' = MatesTaken
        BY <2>1, <3>1, <3>2 DEF MatesOnly, MatesTaken
      <3>4. Full(group)' = Full(group)
        BY <2>1, ClaimFixed DEF Full
      <3> QED
        BY <2>1, <3>2, <3>3, <3>4 DEF GroupsInv, RegionsInOrder
    <2>8. SameRegionFirst'
      <3>1. \A gs, i : PrefersMates(gs, i)' = PrefersMates(gs, i)
        BY <2>1, ClaimFixed DEF PrefersMates
      <3> QED
        BY <2>1, <3>1 DEF GroupsInv, SameRegionFirst
    <2>9. EqualsInOrder'
      <3>1. Uniform' = Uniform /\ Most' = Most
        BY <2>1 DEF Uniform, Most
      <3>2. ReferenceSizes(claim.crit[1])' = ReferenceSizes(claim.crit[1])
        BY <2>1 DEF ReferenceSizes
      <3>3. FrontTaken' = FrontTaken
        BY <2>1, <3>1 DEF FrontTaken
      <3>4. RestDecided' = RestDecided
        BY <2>1, <3>1, <3>2 DEF RestDecided
      <3> QED
        BY <3>1, <3>3, <3>4 DEF GroupsInv, EqualsInOrder
    <2> QED
      BY <2>2, <2>3, <2>4, <2>5, <2>6, <2>7, <2>8, <2>9 DEF GroupsInv
  <1> QED
    BY <1>1, <1>2

\* After the last seed the invariant says what the pass promises.
LEMMA GroupsPromise == GroupsInv => GroupsSound
PROOF
  <1> SUFFICES ASSUME GroupsInv PROVE GroupsSound
    OBVIOUS
  <1>0. /\ claim \in Inputs /\ groups \in Seq(Seq(1..N)) /\ used \subseteq 1..N
    BY DEF GroupsInv, TypeOK
  <1>1. LeftoversNeedOthers
    <2> SUFFICES ASSUME Done, NEW t \in (1..N) \ used PROVE ~DoesAlone(t)
      BY DEF LeftoversNeedOthers, DoesAlone
    <2>1. t \in 1 .. seed - 1
      BY NAssumption DEF Done
    <2> QED
      BY <2>1 DEF GroupsInv, LeftoversSeen
  <1>2. UniformPoolsFill
    <2> DEFINE c == claim.crit[1]
               k == Len(groups)
    <2> SUFFICES ASSUME Done, Uniform PROVE [i \in DOMAIN groups |-> Len(groups[i])] = ReferenceSizes(c)
      BY DEF UniformPoolsFill, Uniform
    <2>1. CASE RestDecided
      BY <2>1 DEF RestDecided
    <2>2. CASE FrontTaken
      <3>1. Most \in Nat \ {0} /\ c.min \in Nat \ {0}
        BY <1>0, EqualsAlike
      <3>2. /\ k \in Nat /\ k * Most \in Nat /\ k * Most <= N /\ seed <= k * Most + 1
        BY <2>2, FrontFacts
      <3>3. N = k * Most + 0
        BY <3>2, NAssumption DEF Done
      <3> DEFINE valid == {z \in c.min .. 0 : z % c.mult = 0}
      <3>4. valid = {}
        <4> HIDE DEF c
        <4>1. c.min .. 0 = {}
          BY <3>1
        <4> QED
          BY <4>1
      <3> DEFINE fulls == [i \in 1..k |-> Most]
      <3>5. ReferenceSizes(c) =
              fulls \o IF k * Most + 1 <= claim.relaxed /\ valid # {}
                       THEN <<CHOOSE z \in valid : \A j \in valid : j <= z>> ELSE <<>>
        <4>1. 0 \in Nat /\ 0 < Most
          BY <3>1
        <4> HIDE DEF valid, k
        <4> QED
          BY <1>0, <3>2, <3>3, <4>1, ReferenceIs DEF valid
      <3>6. [i \in DOMAIN groups |-> Len(groups[i])] = fulls /\ fulls \o <<>> = fulls
        BY <1>0, <2>2, <3>1, FullSizes DEF FrontTaken
      <3> HIDE DEF valid, fulls, k, c
      <3> QED
        BY <3>4, <3>5, <3>6
    <2> QED
      BY <2>1, <2>2 DEF GroupsInv, EqualsInOrder
  <1> QED
    BY <1>1, <1>2 DEF GroupsInv, GroupsSound

\* GroupTypesHold: the pass keeps its variables in their types: groups are of
\* tickets of the claim, and seed and candidate stay within the pool.
THEOREM GroupTypesHold == Spec => []TypeOK
PROOF
  <1>1. GroupsInv => TypeOK
    BY DEF GroupsInv
  <1> QED
    BY GroupsInitial, GroupsKept, <1>1, PTL DEF Spec

\* GroupsHold: for any number of tickets, any split of them into entries, any
\* criteria, rejections and ages, formGroups puts no ticket into two groups and
\* no part of an entry into one, makes only groups every member agrees to,
\* leaves over nothing that would do by itself, splits a pool of equals into as
\* many full groups as there are, and prefers region-mates.
THEOREM GroupsHold == Spec => []GroupsSound
PROOF
  BY GroupsInitial, GroupsKept, GroupsPromise, PTL DEF Spec
=============================================================================
