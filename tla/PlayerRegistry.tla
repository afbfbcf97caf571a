---------------------------- MODULE PlayerRegistry ----------------------------
(***************************************************************************)
(* The players of a tenant: how a player is created against the tenant's   *)
(* player quota, how it is disabled and enabled, and how it is deleted     *)
(* after a grace period.  Sources: httpapi/auth.go and auth_account.go,    *)
(* players/account.go and invite.go, controlpanel/players.go and           *)
(* jobs/player_delete_purge.go.                                            *)
(*                                                                         *)
(* A creation reads the quota without a lock and, later, inserts the       *)
(* player and takes a slot with a conditional increment: two steps.  The   *)
(* purge locks the rows that are due and, later, deletes them: two steps;  *)
(* every writer of such a player waits in between.  The other statements   *)
(* are one guarded UPDATE each: one step.                                  *)
(*                                                                         *)
(* Of a player's time stamps the model keeps what the statements compare:  *)
(* whether disabled_at is null, equal to delete_requested_at ("request")   *)
(* or older ("before"), who asked for the deletion, and whether the grace  *)
(* period is over.                                                         *)
(***************************************************************************)
EXTENDS Integers, FiniteSets

CONSTANTS
  Ids,            \* external ids
  Creators,       \* creations that may be under way at a time
  PlayerLimit     \* the tenant's Players

ASSUME RegistryAssumption == PlayerLimit \in Nat

VARIABLES
  player,     \* project_players
  count,      \* tenants.player_count
  creating,   \* the creations under way
  sweeping,   \* rows the purge has locked
  suspended   \* history: rows disabled other than by a request, and not enabled since

prVars == <<player, count, creating, sweeping, suspended>>

NoPlayerRow == [disabled |-> "none"]
NotCreating == [way |-> "none"]
Ways == {"fresh", "upsert"}

RegistryTypeOK ==
  /\ \A p \in Ids :
       \/ player[p] = NoPlayerRow
       \/ player[p] \in [disabled : {"no", "before", "request"},
                          requested : {"no", "player", "admin"}, due : BOOLEAN]
  /\ count \in Nat
  /\ \A c \in Creators : creating[c] = NotCreating \/ creating[c] \in [way : Ways, id : Ids]
  /\ sweeping \subseteq Ids /\ suspended \subseteq Ids

RegistryInit ==
  /\ player = [p \in Ids |-> NoPlayerRow]
  /\ count = 0
  /\ creating = [c \in Creators |-> NotCreating]
  /\ sweeping = {}
  /\ suspended = {}

Registered == {p \in Ids : player[p] # NoPlayerRow}

\* The purge's read, without FOR UPDATE.
NeverSwept(p) == TRUE

NotSwept(p) == p \notin sweeping

-----------------------------------------------------------------------------
(* Creating a player *)

\* checkPlayerQuotaSnapshot, after the player was looked for.
CreateRead(c, way, p) ==
  /\ creating[c] = NotCreating
  /\ player[p] = NoPlayerRow
  /\ count < PlayerLimit
  /\ creating' = [creating EXCEPT ![c] = [way |-> way, id |-> p]]
  /\ UNCHANGED <<player, count, sweeping, suspended>>

\* The snapshot taken for the gate.
ReserveAlways == TRUE

\* ReserveTenantPlayerSlot
CanReserve == count < PlayerLimit

\* CreateAnonymousPlayer, CreateEmailPlayer, CreateLinkedPlayer insert a new
\* player; UpsertPlayerByExternalID may find one a racing creation left, and
\* takes a slot all the same.
CreateCommit(c) ==
  LET p == creating[c].id IN
  /\ creating[c] # NotCreating
  /\ NotSwept(p)
  /\ creating[c].way = "fresh" => player[p] = NoPlayerRow
  /\ CanReserve
  /\ player' = IF player[p] # NoPlayerRow THEN player
            ELSE [player EXCEPT ![p] = [disabled |-> "no", requested |-> "no", due |-> FALSE]]
  /\ count' = count + 1
  /\ creating' = [creating EXCEPT ![c] = NotCreating]
  /\ UNCHANGED <<sweeping, suspended>>

\* The id is taken, the account is banned, no slot is left, or the request fails.
CreateAborts(c) ==
  /\ creating[c] # NotCreating
  /\ creating' = [creating EXCEPT ![c] = NotCreating]
  /\ UNCHANGED <<player, count, sweeping, suspended>>

-----------------------------------------------------------------------------
(* Disabling and enabling *)

\* SetPlayerDisabledInProject with a time, SetPlayerDisabledSelf
Suspend(p) ==
  /\ player[p] # NoPlayerRow /\ NotSwept(p)
  /\ player[p].requested = "no"
  /\ player' = [player EXCEPT ![p].disabled = "before"]
  /\ suspended' = suspended \union {p}
  /\ UNCHANGED <<count, creating, sweeping>>

\* SetPlayerDisabledInProject with NULL
Enable(p) ==
  /\ player[p] # NoPlayerRow /\ NotSwept(p)
  /\ player[p].requested = "no"
  /\ player' = [player EXCEPT ![p].disabled = "no"]
  /\ suspended' = suspended \ {p}
  /\ UNCHANGED <<count, creating, sweeping>>

-----------------------------------------------------------------------------
(* Deleting *)

\* RequestPlayerDeleteSelf, RequestPlayerDeleteByAccount; by an operator,
\* RequestPlayerDeleteInProject, which takes over a player's request.
RequestDelete(p, who) ==
  /\ player[p] # NoPlayerRow /\ NotSwept(p)
  /\ IF who = "player" THEN player[p].requested = "no" ELSE player[p].requested # "admin"
  /\ player' = [player EXCEPT ![p] = [disabled |-> IF @.disabled = "no" THEN "request" ELSE @.disabled,
                                      requested |-> who, due |-> @.due]]
  /\ UNCHANGED <<count, creating, sweeping, suspended>>

\* Every disable is lifted.
LiftedAlways(p) == "no"

\* CASE WHEN disabled_at = delete_requested_at THEN NULL
Lifted(p) == IF player[p].disabled = "request" THEN "no" ELSE player[p].disabled

\* CancelPlayerDeleteSelf, CancelPlayerDeleteByAccount; by an operator,
\* CancelPlayerDeleteInProject, for anyone's request.
CancelDelete(p, who) ==
  /\ player[p] # NoPlayerRow /\ NotSwept(p)
  /\ IF who = "player" THEN player[p].requested = "player" ELSE player[p].requested # "no"
  /\ player' = [player EXCEPT ![p] = [disabled |-> Lifted(p), requested |-> "no", due |-> FALSE]]
  /\ UNCHANGED <<count, creating, sweeping, suspended>>

GracePasses(p) ==
  /\ player[p] # NoPlayerRow /\ player[p].requested # "no" /\ ~player[p].due
  /\ player' = [player EXCEPT ![p].due = TRUE]
  /\ UNCHANGED <<count, creating, sweeping, suspended>>

\* ListPlayersDueForPurge: a batch of the rows that are due, locked.
PurgeLock(batch) ==
  /\ sweeping = {} /\ batch # {}
  /\ \A p \in batch : player[p] # NoPlayerRow /\ player[p].requested # "no" /\ player[p].due
  /\ sweeping' = batch
  /\ UNCHANGED <<player, count, creating, suspended>>

\* HardDeletePlayers and ReleaseTenantPlayerSlots
PurgeCommit ==
  /\ sweeping # {}
  /\ player' = [p \in Ids |-> IF p \in sweeping THEN NoPlayerRow ELSE player[p]]
  /\ count' = IF count > Cardinality(sweeping) THEN count - Cardinality(sweeping) ELSE 0
  /\ suspended' = suspended \ sweeping
  /\ sweeping' = {}
  /\ UNCHANGED creating

PurgeAborts ==
  /\ sweeping # {}
  /\ sweeping' = {}
  /\ UNCHANGED <<player, count, creating, suspended>>

RegistryNext ==
  \/ \E c \in Creators :
       \/ \E way \in Ways, p \in Ids : CreateRead(c, way, p)
       \/ CreateCommit(c) \/ CreateAborts(c)
  \/ \E p \in Ids :
       \/ Suspend(p) \/ Enable(p) \/ GracePasses(p)
       \/ \E who \in {"player", "admin"} : RequestDelete(p, who) \/ CancelDelete(p, who)
  \/ \E batch \in SUBSET Ids : PurgeLock(batch)
  \/ PurgeCommit \/ PurgeAborts

RegistrySpec == RegistryInit /\ [][RegistryNext]_prVars

-----------------------------------------------------------------------------
(* What the registry promises. *)

\* RegisteredWithinQuota: every registered player holds a slot and the slots
\* taken never exceed the quota, although the quota is read before the player is
\* inserted and a lost upsert race takes a slot too many.
RegisteredWithinQuota == Cardinality(Registered) <= count /\ count <= PlayerLimit

\* SuspensionSurvives: a player who was suspended, or whose deletion is
\* pending, is disabled: no order of requests, take-overs and cancellations
\* lifts a suspension nobody lifted.
SuspensionSurvives ==
  \A p \in Registered :
    p \in suspended \/ player[p].requested # "no" => player[p].disabled # "no"

\* PurgedWhenDue: a player is deleted only while a request for it is pending and
\* its grace period is over: a cancellation that was answered is respected.
PurgedWhenDue ==
  \A p \in Registered : player'[p] = NoPlayerRow => player[p].requested # "no" /\ player[p].due

\* PlayersSound: the quota of players and their suspensions hold in every state,
\* and every step that deletes a player respects a cancellation.
PlayersSound == [][RegisteredWithinQuota' /\ SuspensionSurvives' /\ PurgedWhenDue]_prVars
=============================================================================
