----------------------------- MODULE PlayerSlots -----------------------------
(***************************************************************************)
(* How many sockets one player may have on a server: ServeWS and the loops *)
(* of realtime/server.go, with the counter of cache/memory that they share.*)
(* The counter forgets everything when nobody refreshed it for SlotTTL, so *)
(* it is right only if every socket is heard, or dropped, in time.         *)
(*                                                                         *)
(* Time is counted in ticks.  A goroutine that is ready runs within a tick;*)
(* a ping and a revalidation end within the HeartbeatInterval, which is    *)
(* their timeout; the upgrade, and the release of the tenant's permit that *)
(* precedes that of the slot, end within SlotOverhead: 5 seconds beside a  *)
(* heartbeat of 30.  A counter that is due to expire at a tick has expired.*)
(***************************************************************************)
EXTENDS Naturals, FiniteSets

CONSTANTS
  Conns,               \* connections of the player
  MaxPerPlayer,
  HeartbeatInterval,   \* in ticks
  SlotOverhead         \* bound: ticks that an upgrade or a release takes

ASSUME SlotsAssumption ==
  /\ {MaxPerPlayer, HeartbeatInterval} \subseteq Nat \ {0}
  /\ SlotOverhead \in Nat /\ 2 * SlotOverhead < HeartbeatInterval

VARIABLES
  conn,   \* where each connection is and for how long, and its ticker
  slot    \* the counter, with the ticks since it was last refreshed

pcVars == <<conn, slot>>

NoConn == [at |-> "none", since |-> 0, phase |-> 0, due |-> FALSE]
NoSlot == [count |-> 0, age |-> 0, exists |-> FALSE]

\* Every stage ends within its own time.
StageTime(at) == CASE at \in {"upgrading", "closing"} -> SlotOverhead
                 [] at \in {"pings", "revalidates"} -> HeartbeatInterval
                 [] OTHER -> HeartbeatInterval + 1

\* Two heartbeats, not three.
SlotTTLShort == 2 * HeartbeatInterval

SlotTTL == 3 * HeartbeatInterval

SlotsTypeOK ==
  /\ conn \in [Conns -> [at : {"none", "upgrading", "waits", "pings", "revalidates", "closing"},
                         since : 0..HeartbeatInterval + SlotOverhead,
                         phase : 0..HeartbeatInterval, due : BOOLEAN]]
  /\ slot \in [count : Nat, age : 0..SlotTTL, exists : BOOLEAN]

SlotsInit ==
  /\ conn = [c \in Conns |-> NoConn]
  /\ slot = NoSlot

SocketOpen(c) == conn[c].at \in {"waits", "pings", "revalidates"}
HoldingSlot == {c \in Conns : conn[c].at # "none"}

Moves(c, at) ==
  conn' = [conn EXCEPT ![c] = [at |-> at, since |-> 0, phase |-> conn[c].phase, due |-> conn[c].due]]

-----------------------------------------------------------------------------
(* The counter *)

SlotLapsed == slot.age >= SlotTTL
SlotCount == IF slot.exists /\ ~SlotLapsed THEN slot.count ELSE 0

\* RefreshSlot
SlotRefreshed == [slot EXCEPT !.age = 0]

\* The janitor drops a counter that has expired.
SweepSlot ==
  /\ slot.exists /\ SlotLapsed
  /\ slot' = NoSlot
  /\ UNCHANGED conn

-----------------------------------------------------------------------------
(* ServeWS *)

\* AcquireSlot; a refused connection ends here.
AcquireSlot(c) ==
  /\ conn[c] = NoConn /\ SlotCount < MaxPerPlayer
  /\ slot' = [count |-> SlotCount + 1, age |-> 0, exists |-> TRUE]
  /\ Moves(c, "upgrading")

\* The tenant's cap and the upgrade; then the heartbeat's ticker starts.
Upgraded(c) ==
  /\ conn[c].at = "upgrading"
  /\ Moves(c, "waits")
  /\ UNCHANGED slot

\* No permit, no upgrade; the client leaves, or a server drains; a heartbeat
\* failed or ran out of time.
SocketEnds(c) ==
  /\ conn[c].at \in {"upgrading", "waits", "pings", "revalidates"}
  /\ conn' = [conn EXCEPT ![c] = [at |-> "closing", since |-> 0, phase |-> 0, due |-> FALSE]]
  /\ UNCHANGED slot

\* ReleaseSlot, the last of the deferred calls.
ReleaseSlot(c) ==
  /\ conn[c].at = "closing"
  /\ slot' = IF slot.count > 0 THEN [slot EXCEPT !.count = @ - 1] ELSE slot
  /\ conn' = [conn EXCEPT ![c] = NoConn]

-----------------------------------------------------------------------------
(* runConnection and runHeartbeat *)

HeartbeatTicks(c) ==
  /\ conn[c].at = "waits" /\ conn[c].due
  /\ conn' = [conn EXCEPT ![c] = [at |-> "pings", since |-> 0, phase |-> conn[c].phase, due |-> FALSE]]
  /\ UNCHANGED slot

\* Only the revalidation decides whether to go on; the refresh never fails.
PingBack(c) ==
  /\ conn[c].at = "pings"
  /\ slot' = SlotRefreshed
  /\ Moves(c, "revalidates")

Revalidated(c) ==
  /\ conn[c].at = "revalidates"
  /\ Moves(c, "waits")
  /\ UNCHANGED slot

\* A message of the client refreshes the slot too.
Inbound(c) ==
  /\ SocketOpen(c)
  /\ slot' = SlotRefreshed
  /\ UNCHANGED conn

-----------------------------------------------------------------------------

\* The ticker drops a tick that finds the previous one not yet taken.
ConnAged(c) ==
  LET fires == conn[c].phase + 1 = HeartbeatInterval IN
  IF conn[c] = NoConn THEN NoConn
  ELSE IF ~SocketOpen(c) THEN [conn[c] EXCEPT !.since = conn[c].since + 1]
  ELSE [at |-> conn[c].at, since |-> IF conn[c].at = "waits" THEN 0 ELSE conn[c].since + 1,
        phase |-> IF fires THEN 0 ELSE conn[c].phase + 1, due |-> conn[c].due \/ fires]

SlotTick ==
  /\ \A c \in HoldingSlot : /\ conn[c].since < StageTime(conn[c].at)
                           /\ ~(conn[c].at = "waits" /\ conn[c].due)
  /\ conn' = [c \in Conns |-> ConnAged(c)]
  /\ slot' = IF slot.exists /\ ~SlotLapsed THEN [slot EXCEPT !.age = @ + 1] ELSE slot

SlotsNext ==
  \/ \E c \in Conns :
       \/ AcquireSlot(c) \/ Upgraded(c) \/ SocketEnds(c) \/ ReleaseSlot(c)
       \/ HeartbeatTicks(c) \/ PingBack(c) \/ Revalidated(c) \/ Inbound(c)
  \/ SweepSlot \/ SlotTick

SlotsSpec == SlotsInit /\ [][SlotsNext]_pcVars

-----------------------------------------------------------------------------
(* What the counter promises. *)

\* SlotsBacked: the counter is the number of the player's connections, and they
\* stay within the cap: it never expires under a connection, however slow the
\* pings and revalidations are, so none is forgotten and no late release takes
\* a place from another.
SlotsBacked == SlotCount = Cardinality(HoldingSlot) /\ SlotCount <= MaxPerPlayer
=============================================================================
