---------------------------- MODULE TenantRequests ----------------------------
(***************************************************************************)
(* What outsiders and tenants ask of the platform's admins: public sign-up *)
(* of a tenant (controlpanel/signup_requests.go, the sweep of              *)
(* jobs/tenant_signup_expiry.go) and a higher tier for a tenant            *)
(* (change_requests.go; settings.go sets a tier outright).                 *)
(*                                                                         *)
(* A handler that looks first does so in a statement or a transaction of   *)
(* its own, and then writes under the conditions its statement and the     *)
(* unique indexes state: two steps, and `handler' is what it saw.  Quota   *)
(* overrides take the path of the tier with an unconditional write at its  *)
(* end and are left out; Entitlements has the features.                    *)
(***************************************************************************)
EXTENDS Naturals, FiniteSets

CONSTANTS
  Signups,      \* bound: sign-up requests, by the id of their row
  Emails,       \* who asks
  Names,        \* tenant names, up to case
  Upgrades,     \* bound: change requests of the one tenant whose tier is kept
  TopTier,      \* tiers 0..TopTier
  Handlers,     \* requests that may be under way at a time
  MaxTenants    \* bound: tenants created

\* A tenant nobody signed up for.
NoSignup == "no request"

ASSUME RequestsAssumption ==
  TopTier \in Nat /\ MaxTenants \in Nat /\ NoSignup \notin Signups

VARIABLES
  signup,     \* tenant_signup_requests
  tenant,     \* tenants made: name and the request it was made for
  upgrade,    \* tenant_change_requests of kind tier_upgrade
  tier,       \* tenants.tier
  handler

trVars == <<signup, tenant, upgrade, tier, handler>>

NoRequest == [status |-> "none"]
Swept == [status |-> "swept"]
NoUpgrade == [status |-> "none"]
Resting == [doing |-> "none"]
Tiers == 0..TopTier

RequestsTypeOK ==
  /\ \A r \in Signups :
       \/ signup[r] \in {NoRequest, Swept}
       \/ signup[r] \in [status : {"pending", "approved", "denied", "accepted"},
                         email : Emails, name : Names, expired : BOOLEAN]
  /\ tenant \subseteq [name : Names, signup : Signups \union {NoSignup}]
  /\ \A u \in Upgrades :
       upgrade[u] = NoUpgrade \/ upgrade[u] \in [status : {"pending", "approved", "denied"}, tier : Tiers]
  /\ tier \in Tiers

RequestsInit ==
  /\ signup = [r \in Signups |-> NoRequest]
  /\ tenant = {}
  /\ upgrade = [u \in Upgrades |-> NoUpgrade]
  /\ tier = 0
  /\ handler = [h \in Handlers |-> Resting]

Begin(h, what) == handler[h] = Resting /\ handler' = [handler EXCEPT ![h] = what]
End(h, what) == handler[h].doing = what /\ handler' = [handler EXCEPT ![h] = Resting]

\* A guard refused the write, or it failed.
GiveUp(h) ==
  /\ handler[h] # Resting
  /\ handler' = [handler EXCEPT ![h] = Resting]
  /\ UNCHANGED <<signup, tenant, upgrade, tier>>

-----------------------------------------------------------------------------
(* Names *)

IsLive(r) == signup[r].status \in {"pending", "approved"}
Exists(r) == signup[r] \notin {NoRequest, Swept}

\* tenants_name_unique_idx
TenantNamed(name) == \E t \in tenant : t.name = name

\* The look before the write, taken for the index.
NameFreeAlways(name, r) == TRUE

\* tenant_signup_requests_live_name_key
NameFree(name, r) == \A q \in Signups \ {r} : IsLive(q) => signup[q].name # name

\* tenantNameTaken
NameTaken(name, r) == TenantNamed(name) \/ \E q \in Signups \ {r} : IsLive(q) /\ signup[q].name = name

-----------------------------------------------------------------------------
(* Signing up *)

SignupCheck(h, e, name) ==
  /\ ~NameTaken(name, NoSignup)
  /\ Begin(h, [doing |-> "signup", email |-> e, name |-> name])
  /\ UNCHANGED <<signup, tenant, upgrade, tier>>

\* createTenantSignupRequest: one row per address.
SignupCreate(h, r) ==
  /\ End(h, "signup")
  /\ signup[r] = NoRequest
  /\ \A q \in Signups : Exists(q) => signup[q].email # handler[h].email
  /\ NameFree(handler[h].name, r)
  /\ signup' = [signup EXCEPT ![r] = [status |-> "pending", email |-> handler[h].email,
                                     name |-> handler[h].name, expired |-> FALSE]]
  /\ UNCHANGED <<tenant, upgrade, tier>>

\* approveTenantSignupHandler: the admin may change the name.
ApproveCheck(h, r, name) ==
  /\ signup[r] # NoRequest
  /\ ~NameTaken(name, r)
  /\ Begin(h, [doing |-> "approve", request |-> r, name |-> name])
  /\ UNCHANGED <<signup, tenant, upgrade, tier>>

Approve(h) ==
  LET r == handler[h].request IN
  /\ End(h, "approve")
  /\ signup[r].status = "pending"
  /\ NameFree(handler[h].name, r)
  /\ signup' = [signup EXCEPT ![r].status = "approved", ![r].name = handler[h].name]
  /\ UNCHANGED <<tenant, upgrade, tier>>

\* denyTenantSignupHandler
Deny(r) ==
  /\ signup[r].status = "pending"
  /\ signup' = [signup EXCEPT ![r].status = "denied"]
  /\ UNCHANGED <<tenant, upgrade, tier, handler>>

\* acceptTenantSignup up to its first write.
AcceptFind(h, r) ==
  /\ signup[r].status = "approved" /\ ~signup[r].expired
  /\ Begin(h, [doing |-> "accept", request |-> r, name |-> signup[r].name])
  /\ UNCHANGED <<signup, tenant, upgrade, tier>>

\* The request is not looked at again.
MarksAnyway(r) == TRUE

\* MarkTenantSignupAccepted: one row.
Marks(r) == signup[r].status = "approved"

\* The tenant is made and the request marked, or neither.
Accept(h) ==
  LET r == handler[h].request IN
  /\ End(h, "accept")
  /\ ~TenantNamed(handler[h].name) /\ Cardinality(tenant) < MaxTenants
  /\ Marks(r)
  /\ tenant' = tenant \union {[name |-> handler[h].name, signup |-> r]}
  /\ signup' = [signup EXCEPT ![r] = IF @.status = "approved" THEN [@ EXCEPT !.status = "accepted"] ELSE @]
  /\ UNCHANGED <<upgrade, tier>>

CodeExpires(r) ==
  /\ signup[r].status = "approved" /\ ~signup[r].expired
  /\ signup' = [signup EXCEPT ![r].expired = TRUE]
  /\ UNCHANGED <<tenant, upgrade, tier, handler>>

\* SweepExpiredTenantSignups
SweepSignups ==
  LET over == {r \in Signups : signup[r].status = "approved" /\ signup[r].expired} IN
  /\ over # {}
  /\ signup' = [r \in Signups |-> IF r \in over THEN Swept ELSE signup[r]]
  /\ UNCHANGED <<tenant, upgrade, tier, handler>>

\* A tenant made by an operator.
CreateTenant(name) ==
  /\ ~TenantNamed(name) /\ Cardinality(tenant) < MaxTenants
  /\ tenant' = tenant \union {[name |-> name, signup |-> NoSignup]}
  /\ UNCHANGED <<signup, upgrade, tier, handler>>

-----------------------------------------------------------------------------
(* Tiers *)

\* submitChangeRequestHandler: above the current tier when it looks,
SubmitCheck(h, t) ==
  /\ t > tier
  /\ Begin(h, [doing |-> "submit", tier |-> t])
  /\ UNCHANGED <<signup, tenant, upgrade, tier>>

\* and the only one pending when it writes.
Submit(h, u) ==
  /\ End(h, "submit")
  /\ upgrade[u] = NoUpgrade
  /\ \A v \in Upgrades : upgrade[v].status # "pending"
  /\ upgrade' = [upgrade EXCEPT ![u] = [status |-> "pending", tier |-> handler[h].tier]]
  /\ UNCHANGED <<signup, tenant, tier>>

\* approveChangeRequestHandler: the request is read in a transaction of its own.
UpgradeRead(h, u) ==
  /\ upgrade[u].status = "pending"
  /\ Begin(h, [doing |-> "upgrade", request |-> u, tier |-> upgrade[u].tier])
  /\ UNCHANGED <<signup, tenant, upgrade, tier>>

\* A write of the tier asked for.
RaisesAlways(t) == TRUE

\* SetTenantTierIfUpgrade
Raises(t) == tier < t

UpgradeApply(h) ==
  LET u == handler[h].request IN
  /\ End(h, "upgrade")
  /\ upgrade[u].status = "pending"
  /\ Raises(handler[h].tier)
  /\ upgrade' = [upgrade EXCEPT ![u].status = "approved"]
  /\ tier' = handler[h].tier
  /\ UNCHANGED <<signup, tenant>>

\* denyChangeRequestHandler
DenyUpgrade(u) ==
  /\ upgrade[u].status = "pending"
  /\ upgrade' = [upgrade EXCEPT ![u].status = "denied"]
  /\ UNCHANGED <<signup, tenant, tier, handler>>

\* setTenantTier
SetTier(t) ==
  /\ t # tier
  /\ tier' = t
  /\ UNCHANGED <<signup, tenant, upgrade, handler>>

SignupNext ==
  \/ \E h \in Handlers :
       \/ \E e \in Emails, name \in Names : SignupCheck(h, e, name)
       \/ \E r \in Signups, name \in Names : ApproveCheck(h, r, name)
       \/ \E r \in Signups : SignupCreate(h, r) \/ AcceptFind(h, r)
       \/ Approve(h) \/ Accept(h) \/ GiveUp(h)
  \/ \E r \in Signups : Deny(r) \/ CodeExpires(r)
  \/ SweepSignups
  \/ \E name \in Names : CreateTenant(name)

TierNext ==
  \/ \E h \in Handlers :
       \/ \E t \in Tiers : SubmitCheck(h, t)
       \/ \E u \in Upgrades : Submit(h, u) \/ UpgradeRead(h, u)
       \/ UpgradeApply(h) \/ GiveUp(h)
  \/ \E u \in Upgrades : DenyUpgrade(u)
  \/ \E t \in Tiers : SetTier(t)

RequestsNext == SignupNext \/ TierNext

RequestsSpec == RequestsInit /\ [][RequestsNext]_trVars

-----------------------------------------------------------------------------
(* What the admins' pages promise. *)

\* OneTenantPerSignup: the tenants signed up for are those of the accepted
\* requests, one each, although a code is answered twice at once or its request
\* is swept under the answer and its address asks again.
OneTenantPerSignup ==
  \A r \in Signups :
    {t \in tenant : t.signup = r} =
      IF signup[r].status = "accepted" THEN {[name |-> signup[r].name, signup |-> r]} ELSE {}

\* LiveNamesDiffer: no two live requests claim one name, although each handler
\* looks before it writes and an admin may rename.
LiveNamesDiffer ==
  \A q, r \in Signups : q # r /\ IsLive(q) /\ IsLive(r) => signup[q].name # signup[r].name

\* ApprovalRaisesTier: a request that is approved, however old, raises the tier
\* to what it asked for, and a request is decided once.
ApprovalRaisesTier ==
  \A u \in Upgrades :
    /\ upgrade[u].status = "pending" /\ upgrade'[u].status = "approved"
         => tier' = upgrade[u].tier /\ tier' > tier
    /\ upgrade[u].status \in {"approved", "denied"} => upgrade'[u] = upgrade[u]

\* RequestsSound: the tenants are what was accepted, no name is promised twice,
\* and every decision about a tier stands.
RequestsSound ==
  [][OneTenantPerSignup' /\ LiveNamesDiffer' /\ ApprovalRaisesTier]_trVars
=============================================================================
