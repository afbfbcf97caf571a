---------------------------- MODULE AccountAccess ----------------------------
(***************************************************************************)
(* How a player signs in to an account of the portal, and what ends that:  *)
(* internal/players account.go, account_password_reset.go, sso.go and      *)
(* twofactor.go, with the admin's switch in controlpanel.  One account,    *)
(* which has a password, or the providers linked to it, or both; requests  *)
(* read its row, wait, and write later.                                    *)
(***************************************************************************)
EXTENDS Naturals, Sequences

CONSTANTS
  SignIns,      \* sign-ins, each with the session it opens
  Resets,       \* requests that present a reset link
  Unlinks,      \* requests that unlink a provider
  Providers,    \* sign-in providers
  MaxLinks,     \* bound: reset links mailed
  MaxChanges    \* bound: changes of the password and disablements

ASSUME AccessAssumption == {MaxLinks, MaxChanges} \subseteq Nat

VARIABLES
  account,    \* the row: a password is set, disabled, session_epoch
  linked,     \* player_account_connections
  signin,     \* sign-ins and their sessions
  resetLink,  \* player_account_password_resets in the order they were inserted
  reset,      \* transactions of accountResetPassword
  unlink,     \* transactions of accountSSOUnlink
  changes     \* history: how often the sessions were ended, and how many links
              \* had been inserted when the last reset burnt them

aaVars == <<account, linked, signin, resetLink, reset, unlink, changes>>

NotYet == [at |-> "none"]
Links == DOMAIN resetLink

AccessTypeOK ==
  /\ account \in [password : BOOLEAN, disabled : BOOLEAN, epoch : 0..MaxChanges]
  /\ linked \subseteq Providers
  /\ \A i \in SignIns : signin[i].at \in {"none", "read", "challenged", "open", "over"}
  /\ resetLink \in [Links -> {"live", "used"}]
  /\ \A x \in Resets : reset[x].at \in {"none", "consumed", "set", "burning"}
  /\ \A u \in Unlinks : unlink[u].at \in {"none", "locked", "counted"}
  /\ changes \in [burnt : 0..MaxLinks, all : 0..MaxChanges]

\* Signed up with a password, or with a provider.
AccessInit ==
  /\ account \in [password : BOOLEAN, disabled : {FALSE}, epoch : {0}]
  /\ linked \in {{}} \union {{p} : p \in Providers}
  /\ account.password = (linked = {})
  /\ signin = [i \in SignIns |-> NotYet]
  /\ resetLink = <<>>
  /\ reset = [x \in Resets |-> NotYet]
  /\ unlink = [u \in Unlinks |-> NotYet]
  /\ changes = [burnt |-> 0, all |-> 0]

\* The account's row is locked by no transaction.
RowFree == /\ \A x \in Resets : reset[x].at \notin {"set", "burning"}
           /\ \A u \in Unlinks : unlink[u].at = "none"

\* The sessions that exist.
Open == {i \in SignIns : signin[i].at = "open"}

\* Those of S are revoked.
Revoked(S) == [i \in SignIns |-> IF i \in S THEN [at |-> "over"] ELSE signin[i]]

-----------------------------------------------------------------------------
(* Sign-in: accountLogin or ssoSignIn, then finishAccountLogin.            *)

\* The row with its epoch is read and the password or the provider accepted.
\* What the row went through so far is kept beside the epoch.
Seen == [at |-> "read", epoch |-> account.epoch, after |-> changes.all]

SignInReads(i) ==
  /\ signin[i] = NotYet /\ ~account.disabled
  /\ account.password \/ linked # {}
  /\ signin' = [signin EXCEPT ![i] = Seen]
  /\ UNCHANGED <<account, linked, resetLink, reset, unlink, changes>>

\* The account has a second factor: what was read is forgotten.
SignInChallenged(i) ==
  /\ signin[i].at = "read"
  /\ signin' = [signin EXCEPT ![i] = [at |-> "challenged"]]
  /\ UNCHANGED <<account, linked, resetLink, reset, unlink, changes>>

\* accountTwoFactorChallenge reads the row again after the code.
ChallengePassed(i) ==
  /\ signin[i].at = "challenged" /\ ~account.disabled
  /\ signin' = [signin EXCEPT ![i] = Seen]
  /\ UNCHANGED <<account, linked, resetLink, reset, unlink, changes>>

\* issueAccountSession, with the epoch read earlier.
SessionOpens(i) ==
  /\ signin[i].at = "read"
  /\ signin' = [signin EXCEPT ![i].at = "open"]
  /\ UNCHANGED <<account, linked, resetLink, reset, unlink, changes>>

\* accountLogout, or the session expires.
SessionEnds(i) ==
  /\ signin[i].at = "open"
  /\ signin' = [signin EXCEPT ![i] = [at |-> "over"]]
  /\ UNCHANGED <<account, linked, resetLink, reset, unlink, changes>>

\* A session accepted by its row alone.
AdmitsUnrevoked(i) == signin[i].at = "open" /\ ~account.disabled

\* accountSessionFromRequest
Admits(i) == signin[i].at = "open" /\ ~account.disabled /\ signin[i].epoch = account.epoch

-----------------------------------------------------------------------------
(* The password *)

\* sendPlayerAccountPasswordReset.  The row was read earlier and not disabled
\* then; the insert asks nothing of it and waits for nobody.
LinkMailed ==
  /\ Len(resetLink) < MaxLinks
  /\ resetLink' = Append(resetLink, "live")
  /\ UNCHANGED <<account, linked, signin, reset, unlink, changes>>

\* A transaction has consumed the link and may still be rolled back.
Held(l) == \E x \in Resets : reset[x] # NotYet /\ reset[x].link = l

LinkExpires(l) ==
  /\ resetLink[l] = "live" /\ ~Held(l)
  /\ resetLink' = [resetLink EXCEPT ![l] = "used"]
  /\ UNCHANGED <<account, linked, signin, reset, unlink, changes>>

\* ConsumePlayerAccountPasswordReset locks the link's row.
ResetConsumes(x, l) ==
  /\ reset[x] = NotYet /\ resetLink[l] = "live" /\ ~Held(l)
  /\ reset' = [reset EXCEPT ![x] = [at |-> "consumed", link |-> l, sessions |-> {}, upTo |-> 0]]
  /\ UNCHANGED <<account, linked, signin, resetLink, unlink, changes>>

\* SetPlayerAccountPassword locks the account's row, and
\* RevokeAllPlayerAccountSessions takes the sessions there are.
ResetSets(x) ==
  /\ reset[x].at = "consumed" /\ RowFree
  /\ reset' = [reset EXCEPT ![x] = [at |-> "set", link |-> @.link, sessions |-> Open, upTo |-> 0]]
  /\ UNCHANGED <<account, linked, signin, resetLink, unlink, changes>>

\* InvalidatePlayerAccountPasswordResets begins: it sees the links inserted
\* before it, and no later one.
ResetBurns(x) ==
  /\ reset[x].at = "set"
  /\ reset' = [reset EXCEPT ![x] = [at |-> "burning", link |-> @.link, sessions |-> @.sessions,
                                    upTo |-> Len(resetLink)]]
  /\ UNCHANGED <<account, linked, signin, resetLink, unlink, changes>>

\* Only the link that was followed is used up.
BurntOwn(x) == [resetLink EXCEPT ![reset[x].link] = "used"]

\* Every link the statement saw is used up.
Burnt(x) == [l \in Links |-> IF l <= reset[x].upTo THEN "used" ELSE resetLink[l]]

\* What the transaction did shows with the commit.  The burning waits for the
\* links that other transactions hold: two of them may wait for each other, and
\* one is then aborted.
ResetCommits(x) ==
  /\ reset[x].at = "burning" /\ changes.all < MaxChanges
  /\ \A y \in Resets \ {x} : reset[y] # NotYet => reset[y].link > reset[x].upTo
  /\ account' = [account EXCEPT !.password = TRUE, !.epoch = @ + 1]
  /\ signin' = Revoked(reset[x].sessions \cap Open)
  /\ resetLink' = Burnt(x)
  /\ reset' = [reset EXCEPT ![x] = NotYet]
  /\ changes' = [burnt |-> reset[x].upTo, all |-> changes.all + 1]
  /\ UNCHANGED <<linked, unlink>>

\* A deadlock or a failure: all of it is rolled back.
ResetAborts(x) ==
  /\ reset[x] # NotYet
  /\ reset' = [reset EXCEPT ![x] = NotYet]
  /\ UNCHANGED <<account, linked, signin, resetLink, unlink, changes>>

\* togglePlayerAccountDisabled
Disable ==
  /\ RowFree /\ ~account.disabled /\ changes.all < MaxChanges
  /\ account' = [account EXCEPT !.disabled = TRUE, !.epoch = @ + 1]
  /\ signin' = Revoked(Open)
  /\ changes' = [changes EXCEPT !.all = @ + 1]
  /\ UNCHANGED <<linked, resetLink, reset, unlink>>

EnableAgain ==
  /\ RowFree /\ account.disabled
  /\ account' = [account EXCEPT !.disabled = FALSE]
  /\ UNCHANGED <<linked, signin, resetLink, reset, unlink, changes>>

-----------------------------------------------------------------------------
(* The providers, changed from an accepted session *)

\* linkAccountConnection
LinkProvider(p) ==
  /\ \E i \in SignIns : Admits(i)
  /\ p \notin linked /\ linked' = linked \union {p}
  /\ UNCHANGED <<account, signin, resetLink, reset, unlink, changes>>

\* Nobody waits for the row.
RowShared == TRUE

\* LockPlayerAccountSignInMethods takes the row's lock.
RowLocks == RowFree

UnlinkLocks(u, p) ==
  /\ unlink[u] = NotYet /\ RowLocks /\ \E i \in SignIns : Admits(i)
  /\ unlink' = [unlink EXCEPT ![u] = [at |-> "locked", provider |-> p, password |-> account.password]]
  /\ UNCHANGED <<account, linked, signin, resetLink, reset, changes>>

\* The provider is deleted and the others counted, in a transaction nobody
\* else sees yet; with none left and no password it is rolled back.
UnlinkCounts(u) ==
  LET p == unlink[u].provider
      refused == p \notin linked \/ (~unlink[u].password /\ linked = {p})
  IN  /\ unlink[u].at = "locked"
      /\ unlink' = [unlink EXCEPT ![u] = IF refused THEN NotYet ELSE [@ EXCEPT !.at = "counted"]]
      /\ UNCHANGED <<account, linked, signin, resetLink, reset, changes>>

UnlinkCommits(u) ==
  /\ unlink[u].at = "counted"
  /\ linked' = linked \ {unlink[u].provider}
  /\ unlink' = [unlink EXCEPT ![u] = NotYet]
  /\ UNCHANGED <<account, signin, resetLink, reset, changes>>

AccessNext ==
  \/ \E i \in SignIns : \/ SignInReads(i) \/ SignInChallenged(i) \/ ChallengePassed(i)
                        \/ SessionOpens(i) \/ SessionEnds(i)
  \/ LinkMailed \/ \E l \in Links : LinkExpires(l)
  \/ \E x \in Resets : \/ \E l \in Links : ResetConsumes(x, l)
                       \/ ResetSets(x) \/ ResetBurns(x)
                       \/ ResetCommits(x) \/ ResetAborts(x)
  \/ Disable \/ EnableAgain
  \/ \E p \in Providers : LinkProvider(p) \/ \E u \in Unlinks : UnlinkLocks(u, p)
  \/ \E u \in Unlinks : UnlinkCounts(u) \/ UnlinkCommits(u)

AccessSpec == AccessInit /\ [][AccessNext]_aaVars

-----------------------------------------------------------------------------
(* What the account's owner can count on. *)

\* SignInRemains: there is always a way to sign in, a password or a provider,
\* also while several providers are unlinked at once.
SignInRemains == account.password \/ linked # {}

\* SessionsCurrent: a session that is accepted goes back to a look at the
\* account made after its last change of password or disablement, also if the
\* sign-in was under way when that happened.
SessionsCurrent == \A i \in SignIns : Admits(i) => signin[i].after = changes.all

\* LinksCurrent: a reset link that could still change the password, or is
\* about to, was mailed after the last reset that changed it had burnt the
\* links, also if two of them are followed at once.  One mailed between that
\* statement and its commit is spared: account_password_reset.go calls it "every
\* other outstanding link", and it is every link of the statement's snapshot.
LinksCurrent ==
  /\ \A l \in Links : resetLink[l] = "live" => l > changes.burnt
  /\ \A x \in Resets : reset[x] # NotYet => reset[x].link > changes.burnt

\* AccessSound: the three together.
AccessSound == SignInRemains /\ SessionsCurrent /\ LinksCurrent
=============================================================================
