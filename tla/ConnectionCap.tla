---------------------------- MODULE ConnectionCap ----------------------------
(***************************************************************************)
(* The regional connection cap of one tenant (internal/ratelimit).  Every  *)
(* server process (a holder, whose id holds a boot UUID and is never used  *)
(* again) leases a share of the tenant's ceiling from PostgreSQL and       *)
(* admits sockets from it without asking again.  A share ends by release,  *)
(* by reclaim, or because its lease runs out.                              *)
(*                                                                         *)
(* Acquire and Release hold the grant's mutex across their one database    *)
(* call, whose transaction locks the tenant's state row: each is one step. *)
(* renewAll lets go of the mutex around its call: three steps.             *)
(*                                                                         *)
(* Time is what it makes true: `valid' is that a process may still use its *)
(* grant (2/3 of a lease after the answer), `live' that the row's lease    *)
(* runs.  Calls end within 0.5 or 5 seconds, so a row does not lapse under *)
(* a valid grant, nor between a renewal's commit and its answer.           *)
(***************************************************************************)
EXTENDS Integers, FiniteSets

CONSTANTS
  Holders,          \* processes
  Caps,             \* the envelopes a tenant may have: [sustained, ceiling]
  Block,            \* grantBlockSize
  Allowance,        \* emergencyAllowance
  Unheard           \* processes one of whose Syncs may take effect and report an error

ASSUME CapAssumption ==
  /\ IsFiniteSet(Holders)
  /\ Caps # {}
  /\ \A c \in Caps : c.sustained \in Nat \ {0} /\ c.ceiling \in Nat /\ c.ceiling >= c.sustained
  /\ Block \in Nat \ {0} /\ Allowance \in Nat
  /\ Unheard \subseteq Holders

VARIABLES
  up,         \* the processes that are up
  local,      \* localGrant of each process
  renewal,    \* where its renewAll is
  grant,      \* realtime_connection_grants: allocated and expires_at
  astray,     \* history: processes whose last Sync took effect unheard
  strained    \* history: a lease ended under open sockets, or an answer was lost

capVars == <<up, local, renewal, grant, astray, strained>>

NoRow == [kind |-> "none"]
NoCaps == [sustained |-> 0, ceiling |-> 0]
Fresh == [caps |-> NoCaps, allocated |-> 0, used |-> 0, emergency |-> 0, valid |-> FALSE]

Row(a) == [kind |-> "row", allocated |-> a, live |-> TRUE]
HasRow(h) == grant[h] # NoRow
RowLive(h) == HasRow(h) /\ grant[h].live

CapTypeOK ==
  /\ up \subseteq Holders
  /\ \A h \in Holders :
       /\ local[h].caps \in Caps \union {NoCaps}
       /\ local[h].allocated \in Nat /\ local[h].used \in Nat
       /\ local[h].emergency \in 0..Allowance
       /\ local[h].valid \in BOOLEAN
       /\ renewal[h] \in {"idle", "read", "renewed"}
       /\ HasRow(h) => grant[h].allocated \in Nat /\ grant[h].live \in BOOLEAN
  /\ astray \subseteq Holders /\ strained \in BOOLEAN

CapInit ==
  /\ up = Holders
  /\ local = [h \in Holders |-> Fresh]
  /\ renewal = [h \in Holders |-> "idle"]
  /\ grant = [h \in Holders |-> NoRow]
  /\ astray = {}
  /\ strained = FALSE

-----------------------------------------------------------------------------
(* The store. *)

\* The permits of several processes, numbered for each: how many there are is
\* the sum of what each of them has.
Permits(n) == UNION {{h} \X (1..n[h]) : h \in DOMAIN n}

LiveRows == {g \in Holders : RowLive(g)}

AllocatedToOthers(h) == Cardinality(Permits([g \in LiveRows \ {h} |-> grant[g].allocated]))

\* The wall a Sync holds a tenant to: the ceiling while burst budget is left,
\* else the sustained cap.  AssessBurst drains and refills the budget with the
\* time spent above and below the sustained cap; either may have happened.
Limits(c) == {c.ceiling, c.sustained}

Larger(m, n) == IF m >= n THEN m ELSE n
Smaller(m, n) == IF m <= n THEN m ELSE n

\* The share Sync computes.  Sockets that are open are never dropped.
Share(h, used, limit) ==
  LET room == Larger(0, limit - AllocatedToOthers(h))
  IN  Larger(Smaller(used + Block, room), used)

\* One Sync transaction: prune, then write the holder's row.
Sync(h, used, limit) ==
  LET a == Share(h, used, limit) IN
  grant' = [g \in Holders |-> IF g = h /\ (a > 0 \/ used > 0) THEN Row(a)
                            ELSE IF RowLive(g) THEN grant[g] ELSE NoRow]

\* A Sync that reports an error: without effect, or with.
SyncFails(h, used, c) ==
  \/ UNCHANGED <<grant, astray, strained>>
  \/ /\ h \in Unheard
     /\ \E limit \in Limits(c) : Sync(h, used, limit)
     /\ astray' = astray \union {h}
     /\ strained' = TRUE

\* Release of the store deletes the holder's row, live or not.
DeleteRow(h) == grant' = [grant EXCEPT ![h] = NoRow]

-----------------------------------------------------------------------------
(* Acquire. *)

\* The local grant answers.
CanAdmit(h, c) ==
  local[h].caps = c /\ local[h].used < local[h].allocated /\ local[h].valid

AcquireLocal(h, c) ==
  /\ h \in up
  /\ CanAdmit(h, c)
  /\ local' = [local EXCEPT ![h].used = @ + 1]
  /\ UNCHANGED <<up, renewal, grant, astray, strained>>

\* Otherwise the store is asked, and answers with a share that may be full.
AcquireSync(h, c) ==
  /\ h \in up /\ ~CanAdmit(h, c)
  /\ \E limit \in Limits(c) :
       LET used == local[h].used
           a == Share(h, used, limit) IN
       /\ Sync(h, used, limit)
       /\ local' = [local EXCEPT ![h] = [caps |-> c, allocated |-> a,
                                         used |-> IF used < a THEN used + 1 ELSE used,
                                         emergency |-> local[h].emergency, valid |-> TRUE]]
  /\ astray' = astray \ {h}
  /\ UNCHANGED <<up, renewal, strained>>

\* Or it fails, and a bounded emergency allowance takes its place.
AcquireEmergency(h, c) ==
  /\ h \in up /\ ~CanAdmit(h, c)
  /\ SyncFails(h, local[h].used, c)
  /\ local' = [local EXCEPT ![h].emergency = IF @ < Allowance THEN @ + 1 ELSE @]
  /\ UNCHANGED <<up, renewal>>

-----------------------------------------------------------------------------
(* Release: called once by the handler of an admitted socket. *)

Decremented(h) ==
  IF local[h].emergency > 0 THEN [local[h] EXCEPT !.emergency = @ - 1]
                            ELSE [local[h] EXCEPT !.used = @ - 1]

ShouldReclaim(g) ==
  g.used > 0 /\ g.emergency = 0 /\ g.caps.ceiling > 0 /\ g.allocated - g.used > 2 * Block

HasSocket(h) == h \in up /\ local[h].used + local[h].emergency > 0

ReleaseKeeps(h) ==
  LET g == Decremented(h) IN
  /\ HasSocket(h)
  /\ g.used + g.emergency > 0 /\ ~ShouldReclaim(g)
  /\ local' = [local EXCEPT ![h] = g]
  /\ UNCHANGED <<up, renewal, grant, astray, strained>>

\* Far more is leased than used: the surplus goes back.
Reclaim(h) ==
  LET g == Decremented(h) IN
  /\ HasSocket(h) /\ ShouldReclaim(g)
  /\ \E limit \in Limits(g.caps) :
       /\ Sync(h, g.used, limit)
       /\ local' = [local EXCEPT ![h] = [caps |-> g.caps, allocated |-> Share(h, g.used, limit),
                                         used |-> g.used, emergency |-> g.emergency, valid |-> TRUE]]
  /\ astray' = astray \ {h}
  /\ UNCHANGED <<up, renewal, strained>>

\* The reclaim fails: the process keeps what it had.
ReclaimFails(h) ==
  LET g == Decremented(h) IN
  /\ HasSocket(h) /\ ShouldReclaim(g)
  /\ SyncFails(h, g.used, g.caps)
  /\ local' = [local EXCEPT ![h] = g]
  /\ UNCHANGED <<up, renewal>>

\* The last socket: the grant is dropped and the row deleted, unless the call
\* fails (with or without effect).
ReleaseLast(h) ==
  /\ HasSocket(h) /\ local[h].used + local[h].emergency = 1
  /\ local' = [local EXCEPT ![h] = Fresh]
  /\ DeleteRow(h) \/ UNCHANGED grant
  /\ astray' = astray \ {h}
  /\ UNCHANGED <<up, renewal, strained>>

-----------------------------------------------------------------------------
(* renewAll. *)

RenewRead(h) ==
  /\ h \in up /\ renewal[h] = "idle" /\ local[h].used > 0
  /\ renewal' = [renewal EXCEPT ![h] = "read"]
  /\ UNCHANGED <<up, local, grant, astray, strained>>

\* Renew: the lease is extended if it still runs (so it lapses no earlier
\* than it would have); the answer may be lost.
RenewStore(h) ==
  /\ renewal[h] = "read" /\ RowLive(h)
  /\ \E s \in (IF h \in up THEN {"renewed", "idle"} ELSE {"idle"}) :
       renewal' = [renewal EXCEPT ![h] = s]
  /\ UNCHANGED <<up, local, grant, astray, strained>>

\* An answer that names no lease, taken for a renewal.
RenewMissTaken(h) ==
  /\ renewal[h] = "read"
  /\ renewal' = [renewal EXCEPT ![h] = IF h \in up THEN "renewed" ELSE "idle"]
  /\ UNCHANGED <<up, local, grant, astray, strained>>

\* No live row, or the call failed.
RenewMiss(h) ==
  /\ renewal[h] = "read"
  /\ renewal' = [renewal EXCEPT ![h] = "idle"]
  /\ UNCHANGED <<up, local, grant, astray, strained>>

RenewApply(h) ==
  /\ renewal[h] = "renewed"
  /\ renewal' = [renewal EXCEPT ![h] = "idle"]
  /\ local' = [local EXCEPT ![h].valid = @ \/ local[h].used > 0]
  /\ UNCHANGED <<up, grant, astray, strained>>

-----------------------------------------------------------------------------
(* Processes end, clocks move. *)

\* Close, after the sockets: renewal has stopped; active grants are released,
\* or left to their leases when the call fails.
Close(h) ==
  /\ h \in up /\ renewal[h] = "idle"
  /\ up' = up \ {h}
  /\ local' = [local EXCEPT ![h] = Fresh]
  /\ \/ (local[h].allocated > 0 \/ local[h].used > 0) /\ DeleteRow(h)
     \/ UNCHANGED grant
  /\ UNCHANGED <<renewal, astray, strained>>

\* The process dies; a renewal it sent may still arrive.
ProcessDies(h) ==
  /\ h \in up
  /\ up' = up \ {h}
  /\ local' = [local EXCEPT ![h] = Fresh]
  /\ renewal' = [renewal EXCEPT ![h] = IF @ = "renewed" THEN "idle" ELSE @]
  /\ UNCHANGED <<grant, astray, strained>>

GrantExpires(h) ==
  /\ local[h].valid
  /\ local' = [local EXCEPT ![h].valid = FALSE]
  /\ UNCHANGED <<up, renewal, grant, astray, strained>>

RowLapses(h) ==
  /\ RowLive(h) /\ ~local[h].valid /\ renewal[h] # "renewed"
  /\ grant' = [grant EXCEPT ![h].live = FALSE]
  /\ strained' = (strained \/ local[h].used > 0)
  /\ UNCHANGED <<up, local, renewal, astray>>

\* SweepExpiredConnectionGrants.
SweepGrants ==
  /\ \E h \in Holders : HasRow(h) /\ ~RowLive(h)
  /\ grant' = [h \in Holders |-> IF RowLive(h) THEN grant[h] ELSE NoRow]
  /\ UNCHANGED <<up, local, renewal, astray, strained>>

CapNext ==
  \/ \E h \in Holders, c \in Caps : AcquireLocal(h, c) \/ AcquireSync(h, c) \/ AcquireEmergency(h, c)
  \/ \E h \in Holders :
       \/ ReleaseKeeps(h) \/ Reclaim(h) \/ ReclaimFails(h) \/ ReleaseLast(h)
       \/ RenewRead(h) \/ RenewStore(h) \/ RenewMiss(h) \/ RenewApply(h)
       \/ Close(h) \/ ProcessDies(h) \/ GrantExpires(h) \/ RowLapses(h)
  \/ SweepGrants

CapSpec == CapInit /\ [][CapNext]_capVars

-----------------------------------------------------------------------------
(* What the cap promises. *)

\* GrantsBacked: a permit a process can still hand out by itself is a permit
\* the database still counts: its row's lease runs and has the same size.  What
\* is reclaimed, lapsed or deleted is not handed out again, whatever renewals
\* are under way, unless the answer of the process's last Sync was lost.
GrantsBacked ==
  \A h \in up \ astray :
    local[h].valid /\ local[h].used < local[h].allocated
      => RowLive(h) /\ grant[h].allocated = local[h].allocated

\* CeilingHolds: the sockets of all processes together stay within the largest
\* ceiling, emergencies aside, unless a lease ended under open sockets (which
\* are not dropped) or an answer was lost.
CeilingHolds ==
  ~strained =>
    \E c \in Caps : Cardinality(Permits([h \in up |-> local[h].used])) <= c.ceiling

\* CapSound: what a process hands out is backed by its row, and all of them
\* together stay within the ceiling.
CapSound == GrantsBacked /\ CeilingHolds
=============================================================================
