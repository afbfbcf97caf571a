---------------------------- MODULE Entitlements ----------------------------
(***************************************************************************)
(* What one tenant may use: its class and the features it holds.  They are *)
(* written by the billing service (internal/entitlement), by platform      *)
(* admins (controlpanel/settings.go) and by the approval of a tenant's     *)
(* request (controlpanel/change_requests.go), and read through the cache   *)
(* of each API server (FeatureEnabled of internal/rbac).                   *)
(*                                                                         *)
(* A writer that looks first does so without a lock, so its look and its   *)
(* commit are steps of their own.  What one commit writes is one step: the *)
(* rows stay locked until it, and none of the writes depends on a row that *)
(* it does not lock.  Time is counted in ticks; what is stamped in the     *)
(* code has its age here.  Project-level grants override these and nothing *)
(* writes one.                                                             *)
(***************************************************************************)
EXTENDS Naturals

CONSTANTS
  Features,    \* managedFeatures, which are also the requestable ones
  TopClass,    \* classes 0..TopClass
  Applies,     \* declarative PUTs that may be under way
  Admins,      \* requests of the control panel that may be under way
  Checks,      \* calls of FeatureEnabled that may be under way, on one server
  GrantTTL     \* featureGrantCacheTTL

ASSUME EntitlementsAssumption == TopClass \in Nat /\ GrantTTL \in Nat \ {0}

VARIABLES
  class,       \* tenants.tier
  held,        \* features with an enabled row in feature_grants
  wanted,      \* features with a pending request
  apply,       \* each PUT
  admin,       \* each request of the control panel
  check,       \* each call of FeatureEnabled
  remembered,  \* featureCache: the answer per feature, and its age
  since        \* history: ticks since the database last gave each answer

enVars == <<class, held, wanted, apply, admin, check, remembered, since>>

Classes == 0..TopClass
Axes == Features \union {"class"}
Ages == 0..GrantTTL       \* at GrantTTL an entry has expired: older is not told apart
Desired == [class : Classes, features : SUBSET Features]

AtRest == [at |-> "rest"]
Unknown == [on |-> FALSE, age |-> GrantTTL]

EntitlementsTypeOK ==
  /\ class \in Classes /\ held \subseteq Features /\ wanted \subseteq Features
  /\ \A a \in Applies :
       \/ apply[a] = AtRest
       \/ apply[a] \in [at : {"facts"}, desired : Desired, oldClass : Classes, others : SUBSET Axes]
       \/ apply[a] \in [at : {"features"}, desired : Desired, oldClass : Classes, enable : SUBSET Features,
                      disable : SUBSET Features, others : SUBSET Axes]
       \/ apply[a] \in [at : {"answering"}, desired : Desired, others : SUBSET Axes]
  /\ \A c \in Checks :
       check[c] = AtRest \/ check[c] \in [at : {"asking", "answered"}, feature : Features, on : BOOLEAN, age : Ages]
  /\ remembered \in [Features -> [on : BOOLEAN, age : Ages]]
  /\ since \in [Features -> [BOOLEAN -> Ages]]

EntitlementsInit ==
  /\ class = 0 /\ held = {} /\ wanted = {}
  /\ apply = [a \in Applies |-> AtRest]
  /\ admin = [h \in Admins |-> AtRest]
  /\ check = [c \in Checks |-> AtRest]
  /\ remembered = [f \in Features |-> Unknown]
  /\ since = [f \in Features |-> [v \in BOOLEAN |-> IF v THEN GrantTTL ELSE 0]]

\* A commit: what it writes, and what the PUTs under way, `puts', note of it as
\* another's.
Commits(newClass, newHeld, puts) ==
  LET wrote == (IF newClass # class THEN {"class"} ELSE {})
                 \union {f \in Features : (f \in held) # (f \in newHeld)} IN
  /\ class' = newClass /\ held' = newHeld
  /\ since' = [f \in Features |-> [since[f] EXCEPT ![f \in newHeld] = 0]]
  /\ apply' = [a \in Applies |-> IF a \in puts THEN [apply[a] EXCEPT !.others = @ \union wrote]
                               ELSE IF apply[a] = AtRest THEN AtRest
                               ELSE [at |-> "answering", desired |-> apply[a].desired, others |-> apply[a].others]]

UnderWay == {a \in Applies : apply[a] # AtRest}

-----------------------------------------------------------------------------
(* The billing service *)

\* putEntitlements, and loadStateTx's first statement.
ApplyFacts(a, d) ==
  /\ apply[a] = AtRest
  /\ apply' = [apply EXCEPT ![a] = [at |-> "facts", desired |-> d, oldClass |-> class,
                                others |-> {}]]
  /\ UNCHANGED <<class, held, wanted, admin, check, remembered, since>>

\* The grants that are switched off are forgotten.
EnableOnly(has, wants) == [enable |-> wants \ has, disable |-> {}]

\* diffStates
DiffStates(has, wants) == [enable |-> wants \ has, disable |-> has \ wants]

\* loadStateTx's second statement, and the difference.
ApplyFeatures(a) ==
  /\ apply[a].at = "facts"
  /\ LET diff == DiffStates(held, apply[a].desired.features) IN
       apply' = [apply EXCEPT ![a] = [at |-> "features", desired |-> @.desired, oldClass |-> @.oldClass,
                                  enable |-> diff.enable, disable |-> diff.disable, others |-> @.others]]
  /\ UNCHANGED <<class, held, wanted, admin, check, remembered, since>>

\* The writes of apply and its commit; nothing is written where nothing differs.
ApplyCommit(a) ==
  LET p == apply[a] IN
  /\ p.at = "features"
  /\ Commits(IF p.oldClass # p.desired.class THEN p.desired.class ELSE class,
             (held \union p.enable) \ p.disable, UnderWay \ {a})
  /\ UNCHANGED <<wanted, admin, check, remembered>>

\* The policy is reloaded and the admins are mailed, and the answer repeats what
\* was asked for.
ApplyAnswers(a) ==
  /\ apply[a].at = "answering"
  /\ apply' = [apply EXCEPT ![a] = AtRest]
  /\ UNCHANGED <<class, held, wanted, admin, check, remembered, since>>

\* A statement fails, and the transaction with it.
ApplyFails(a) ==
  /\ apply[a].at \in {"facts", "features"}
  /\ apply' = [apply EXCEPT ![a] = AtRest]
  /\ UNCHANGED <<class, held, wanted, admin, check, remembered, since>>

-----------------------------------------------------------------------------
(* The control panel *)

\* setTenantFeatureGrant, and submitChangeRequestHandler, look whether the
\* feature is held.
AdminLooks(h, f, what) ==
  /\ admin[h] = AtRest
  /\ f \notin held
  /\ admin' = [admin EXCEPT ![h] = [at |-> what, feature |-> f]]
  /\ UNCHANGED <<class, held, wanted, apply, check, remembered, since>>

\* UpsertTenantFeatureGrant
AdminGrants(h) ==
  /\ admin[h].at = "granting"
  /\ Commits(class, held \union {admin[h].feature}, UnderWay)
  /\ admin' = [admin EXCEPT ![h] = AtRest]
  /\ UNCHANGED <<wanted, check, remembered>>

\* CreateTenantChangeRequest: one pending per feature, or the index refuses.
TenantAsks(h) ==
  /\ admin[h].at = "requesting"
  /\ wanted' = wanted \union {admin[h].feature}
  /\ admin' = [admin EXCEPT ![h] = AtRest]
  /\ UNCHANGED <<class, held, apply, check, remembered, since>>

\* approveChangeRequestHandler: a request that is still pending is applied.
ApproveFeature(f) ==
  /\ f \in wanted
  /\ wanted' = wanted \ {f}
  /\ Commits(class, held \union {f}, UnderWay)
  /\ UNCHANGED <<admin, check, remembered>>

\* denyChangeRequestHandler
DenyFeature(f) ==
  /\ f \in wanted
  /\ wanted' = wanted \ {f}
  /\ UNCHANGED <<class, held, apply, admin, check, remembered, since>>

\* DisableTenantFeatureGrant: one statement.
AdminRevokes(f) ==
  /\ f \in held
  /\ Commits(class, held \ {f}, UnderWay)
  /\ UNCHANGED <<wanted, admin, check, remembered>>

\* setTenantTier
AdminSetsClass(c) ==
  /\ c # class
  /\ Commits(c, held, UnderWay)
  /\ UNCHANGED <<wanted, admin, check, remembered>>

-----------------------------------------------------------------------------
(* FeatureEnabled: it reads the clock, then the cache.  A fresh entry is   *)
(* the answer and changes nothing; otherwise the database is asked.        *)

Fresh(entry) == entry.age < GrantTTL

CheckMisses(c, f) ==
  /\ check[c] = AtRest
  /\ ~Fresh(remembered[f])
  /\ check' = [check EXCEPT ![c] = [at |-> "asking", feature |-> f, on |-> FALSE, age |-> 0]]
  /\ UNCHANGED <<class, held, wanted, apply, admin, remembered, since>>

CheckReads(c) ==
  /\ check[c].at = "asking"
  /\ check' = [check EXCEPT ![c] = [at |-> "answered", feature |-> @.feature,
                                    on |-> @.feature \in held, age |-> @.age]]
  /\ UNCHANGED <<class, held, wanted, apply, admin, remembered, since>>

CheckFails(c) ==
  /\ check[c].at = "asking"
  /\ check' = [check EXCEPT ![c] = AtRest]
  /\ UNCHANGED <<class, held, wanted, apply, admin, remembered, since>>

\* The entry counts from when it is stored.
FromStoring(k) == [on |-> k.on, age |-> 0]

\* storeFeatureCache: it counts from when the call began.
FromAsking(k) == [on |-> k.on, age |-> k.age]

CheckStores(c) ==
  /\ check[c].at = "answered"
  /\ remembered' = [remembered EXCEPT ![check[c].feature] = FromAsking(check[c])]
  /\ check' = [check EXCEPT ![c] = AtRest]
  /\ UNCHANGED <<class, held, wanted, apply, admin, since>>

Older(n) == IF n < GrantTTL THEN n + 1 ELSE n

GrantsAge ==
  /\ check' = [c \in Checks |-> IF check[c] = AtRest THEN AtRest ELSE [check[c] EXCEPT !.age = Older(@)]]
  /\ remembered' = [f \in Features |-> [remembered[f] EXCEPT !.age = Older(@)]]
  /\ since' = [f \in Features |-> [v \in BOOLEAN |-> IF v = (f \in held) THEN 0 ELSE Older(since[f][v])]]
  /\ UNCHANGED <<class, held, wanted, apply, admin>>

BillingNext ==
  \E a \in Applies :
    \/ \E d \in Desired : ApplyFacts(a, d)
    \/ ApplyFeatures(a) \/ ApplyCommit(a) \/ ApplyAnswers(a) \/ ApplyFails(a)

PanelNext ==
  \/ \E h \in Admins :
       \/ \E f \in Features, what \in {"granting", "requesting"} : AdminLooks(h, f, what)
       \/ AdminGrants(h) \/ TenantAsks(h)
  \/ \E f \in Features : ApproveFeature(f) \/ DenyFeature(f) \/ AdminRevokes(f)
  \/ \E c \in Classes : AdminSetsClass(c)

ChecksNext ==
  \/ \E c \in Checks :
       \/ \E f \in Features : CheckMisses(c, f)
       \/ CheckReads(c) \/ CheckFails(c) \/ CheckStores(c)
  \/ GrantsAge

EntitlementsNext == BillingNext \/ PanelNext \/ ChecksNext

EntitlementsSpec == EntitlementsInit /\ [][EntitlementsNext]_enVars

-----------------------------------------------------------------------------
(* What billing and the gated handlers rely on. *)

\* ChangesTakeEffect: what the cache answers was the database's answer less
\* than GrantTTL ago, although calls overlap, a slow one stores over a newer
\* answer and grants change between its read and its store.
ChangesTakeEffect ==
  /\ \A f \in Features : Fresh(remembered[f]) => since[f][remembered[f].on] <= remembered[f].age
  /\ \A c \in Checks :
       check[c] # AtRest /\ check[c].at = "answered" /\ Fresh(check[c])
         => since[check[c].feature][check[c].on] <= check[c].age

\* AppliesReachDesired: what a PUT is about to answer is so: the class and every
\* feature are as it asked for, or another writer has changed just that one since
\* the PUT began.
AppliesReachDesired ==
  \A a \in UnderWay : apply[a].at = "answering" =>
    /\ class = apply[a].desired.class \/ "class" \in apply[a].others
    /\ \A f \in Features \ apply[a].others : f \in held <=> f \in apply[a].desired.features

\* EntitlementsSound: a PUT reaches what it asked for, and what was decided is in
\* force within GrantTTL.
EntitlementsSound == ChangesTakeEffect /\ AppliesReachDesired
=============================================================================
