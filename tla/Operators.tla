------------------------------ MODULE Operators ------------------------------
(***************************************************************************)
(* Control-panel users: who is a platform admin and enabled, and the       *)
(* invitations that make admins.  controlpanel/users_admin.go,             *)
(* accept_invite.go and team.go with their statements.                     *)
(*                                                                         *)
(* A disable reads its target; for an admin it locks the enabled admins    *)
(* and counts them; then it writes.  An accept looks the invitation up and *)
(* writes later.  Their steps interleave; a row's lock is held from the    *)
(* step that takes it until the commit.  An invitation to a tenant changes *)
(* no row the rest reads and is left out.                                  *)
(***************************************************************************)
EXTENDS Naturals, FiniteSets

CONSTANTS
  Users,        \* control-panel users
  FirstAdmins,  \* platform admins at the start
  Invitations   \* bound: platform-admin invitations there may be

ASSUME OperatorsAssumption ==
  FirstAdmins \subseteq Users /\ FirstAdmins # {} /\ IsFiniteSet(Users)

VARIABLES
  admin,      \* is_platform_admin
  enabled,    \* disabled_at IS NULL
  invite,     \* control_panel_invitations
  disabling,  \* the disable each user has under way
  accepting,  \* the invitations that an accept under way found open
  promoted    \* history: targets promoted while a disable took them for no admin

opVars == <<admin, enabled, invite, disabling, accepting, promoted>>

NoInvite == [status |-> "none"]
NotDisabling == [target |-> "nobody", rows |-> {}]

OperatorsTypeOK ==
  /\ admin \subseteq Users /\ enabled \subseteq Users
  /\ \A i \in Invitations :
       invite[i] = NoInvite \/ invite[i] \in [status : {"open", "accepted", "revoked"}, by : Users, to : Users]
  /\ \A u \in Users :
       \/ disabling[u] = NotDisabling
       \/ disabling[u] \in [target : Users, stage : {"admin", "other", "locked"}, rows : SUBSET Users]
  /\ accepting \subseteq Invitations /\ promoted \subseteq Users

OperatorsInit ==
  /\ admin = FirstAdmins
  /\ enabled = Users
  /\ invite = [i \in Invitations |-> NoInvite]
  /\ disabling = [u \in Users |-> NotDisabling]
  /\ accepting = {}
  /\ promoted = {}

EnabledAdmins == admin \intersect enabled
Disabling(u) == disabling[u] # NotDisabling

\* Some disable holds the lock of a user's row.
RowLocked(t) == \E u \in Users : t \in disabling[u].rows

\* The actor's session was checked when the request came in; it may have been
\* revoked since.
DisableRead(u, t) ==
  /\ u \in EnabledAdmins /\ t # u
  /\ ~Disabling(u)
  /\ disabling' = [disabling EXCEPT ![u] =
                     [target |-> t, stage |-> IF t \in admin THEN "admin" ELSE "other", rows |-> {}]]
  /\ UNCHANGED <<admin, enabled, invite, accepting, promoted>>

\* Counting without the locks.
NobodyLocks == TRUE

\* LockEnabledPlatformAdmins waits for the other holder.
LocksFree == \A t \in EnabledAdmins : ~RowLocked(t)

\* CountEnabledPlatformAdmins, which must leave one.
DisableLock(u) ==
  /\ Disabling(u) /\ disabling[u].stage = "admin"
  /\ LocksFree
  /\ Cardinality(EnabledAdmins) > 1
  /\ disabling' = [disabling EXCEPT ![u].stage = "locked", ![u].rows = EnabledAdmins]
  /\ UNCHANGED <<admin, enabled, invite, accepting, promoted>>

\* RevokeOpenInvitationsByInviter
RevokedBy(t) ==
  [i \in Invitations |-> IF invite[i].status = "open" /\ invite[i].by = t
                         THEN [invite[i] EXCEPT !.status = "revoked"] ELSE invite[i]]

\* SetControlPanelUserDisabled.  For a target that was no admin it takes only
\* the target's row, which another disable may hold locked.
DisableCommit(u) ==
  LET t == disabling[u].target IN
  /\ Disabling(u) /\ disabling[u].stage \in {"locked", "other"}
  /\ disabling[u].stage = "other" => ~RowLocked(t)
  /\ enabled' = enabled \ {t}
  /\ invite' = RevokedBy(t)
  /\ disabling' = [disabling EXCEPT ![u] = NotDisabling]
  /\ UNCHANGED <<admin, accepting, promoted>>

\* The last admin is not disabled; or the request fails.
DisableAborts(u) ==
  /\ Disabling(u)
  /\ disabling' = [disabling EXCEPT ![u] = NotDisabling]
  /\ UNCHANGED <<admin, enabled, invite, accepting, promoted>>

Enable(u, t) ==
  /\ u \in EnabledAdmins /\ t \notin enabled
  /\ enabled' = enabled \union {t}
  /\ UNCHANGED <<admin, invite, disabling, accepting, promoted>>

-----------------------------------------------------------------------------
(* Invitations *)

\* createInvite: one open invitation per address and role.
CreateInvite(u, i, t) ==
  /\ u \in EnabledAdmins
  /\ invite[i] = NoInvite
  /\ \A j \in Invitations : invite[j].status = "open" => invite[j].to # t
  /\ invite' = [invite EXCEPT ![i] = [status |-> "open", by |-> u, to |-> t]]
  /\ UNCHANGED <<admin, enabled, disabling, accepting, promoted>>

\* acceptInvite up to resolveInviteUser: found open, its user not disabled.
AcceptRead(i) ==
  /\ invite[i].status = "open" /\ invite[i].to \in enabled
  /\ accepting' = accepting \union {i}
  /\ UNCHANGED <<admin, enabled, invite, disabling, promoted>>

\* Accepted as it was found.
StillOpenAlways(i) == TRUE

\* MarkControlPanelInvitationAccepted changes one row.
StillOpen(i) == invite[i].status = "open"

AcceptCommit(i) ==
  LET t == invite[i].to IN
  /\ i \in accepting
  /\ StillOpen(i)
  /\ admin' = admin \union {t}
  /\ invite' = [invite EXCEPT ![i].status = IF @ = "open" THEN "accepted" ELSE @]
  /\ accepting' = accepting \ {i}
  /\ promoted' = IF \E u \in Users : Disabling(u) /\ disabling[u].target = t /\ disabling[u].stage = "other"
                 THEN promoted \union {t} ELSE promoted
  /\ UNCHANGED <<enabled, disabling>>

\* It was revoked or accepted meanwhile, and the promotion is rolled back.
AcceptAborts(i) ==
  /\ i \in accepting
  /\ accepting' = accepting \ {i}
  /\ UNCHANGED <<admin, enabled, invite, disabling, promoted>>

OperatorsNext ==
  \/ \E u, t \in Users : DisableRead(u, t) \/ Enable(u, t)
  \/ \E u \in Users : DisableLock(u) \/ DisableCommit(u) \/ DisableAborts(u)
  \/ \E u, t \in Users, i \in Invitations : CreateInvite(u, i, t)
  \/ \E i \in Invitations : AcceptRead(i) \/ AcceptCommit(i) \/ AcceptAborts(i)

OperatorsSpec == OperatorsInit /\ [][OperatorsNext]_opVars

-----------------------------------------------------------------------------
(* What the user pages promise. *)

\* AdminRemains: some platform admin is always enabled, although admins disable
\* one another at the same time; a target promoted after its disable read it
\* aside.
AdminRemains == promoted = {} => EnabledAdmins # {}


\* AdminsWereInvited: an admin was one at the start or holds an accepted
\* invitation: one that was revoked first, by a disable of its inviter, leaves
\* no promotion behind, and none is accepted twice.
AdminsWereInvited ==
  \A u \in admin \ FirstAdmins :
    \E i \in Invitations : invite[i].status = "accepted" /\ invite[i].to = u

\* AdminsSound: the panel keeps an admin, and only invited ones.
AdminsSound == AdminRemains /\ AdminsWereInvited
=============================================================================
