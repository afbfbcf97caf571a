----------------------------- MODULE GameSession -----------------------------
(***************************************************************************)
(* A peer-to-peer game session: internal/gamesession, the handlers of      *)
(* httpapi/game_session.go and gameinvite.go, and the sweep of             *)
(* jobs/game_session_gc.go.  One session is followed in full; the other    *)
(* sessions of its project, which share nothing with it but the limit, are *)
(* the number `others' of those that are open.                             *)
(*                                                                         *)
(* A handler is one transaction.  join locks the session row and checks    *)
(* before it writes, so it is two steps with `joining' as the row's lock;  *)
(* the others change rows in one step, which waits for the lock if it      *)
(* writes the session row.  A creation holds the project's advisory lock.  *)
(* Time is what it makes true: a peer not seen for 30 seconds is stale, a  *)
(* session's expiry is far (above HeartbeatExtendThreshold), near or past. *)
(* Who may invite whom (accepted friends) is left open: anybody.           *)
(***************************************************************************)
EXTENDS Naturals, FiniteSets

CONSTANTS
  Players,
  MaxPlayers,   \* max_players of a session a player creates
  MaxOpen       \* the project's open-session limit

NoPlayer == "nobody"

ASSUME SessionAssumption ==
  /\ IsFiniteSet(Players) /\ NoPlayer \notin Players
  /\ MaxPlayers \in Nat \ {0} /\ MaxOpen \in Nat \ {0}

VARIABLES
  session,    \* game_session: kind, state, host, max_players, expiry
  peer,       \* game_session_peer: seen within 30 seconds, stale, or no row
  invited,    \* pending game_invite rows
  joining,    \* the join that holds the session row's lock, past its checks
  others,     \* the project's other open sessions
  rostered,   \* history: the players the match was made of, and who left it
  departed,   \*          themselves
  revived,    \* history: peers whose heartbeat came after they were stale
  late        \* history: the expiry passed during a join

gsVars == <<session, peer, invited, joining, others, rostered, departed, revived, late>>

Absent(st) == [kind |-> "none", state |-> st, host |-> NoPlayer, max |-> 0, expiry |-> "past"]
NoPeers == [p \in Players |-> "none"]

SessionTypeOK ==
  /\ session \in [kind : {"none", "match", "public", "private"},
                  state : {"none", "open", "ended", "deleted"},
                  host : Players \union {NoPlayer},
                  max : 0..Cardinality(Players) \union {MaxPlayers},
                  expiry : {"far", "near", "past"}]
  /\ peer \in [Players -> {"none", "fresh", "stale"}]
  /\ joining \in Players \union {NoPlayer}
  /\ others \in 0..MaxOpen
  /\ {invited, rostered, departed, revived} \subseteq SUBSET Players
  /\ late \in BOOLEAN

SessionInit ==
  /\ session = Absent("none")
  /\ peer = NoPeers
  /\ invited = {} /\ joining = NoPlayer
  /\ others = 0
  /\ rostered = {} /\ departed = {} /\ revived = {}
  /\ late = FALSE

Kept == session.state \in {"open", "ended"}
Open == session.state = "open" /\ session.expiry # "past"
Peers == {p \in Players : peer[p] # "none"}
Active == {p \in Players : peer[p] = "fresh"}
Unlocked == joining = NoPlayer

-----------------------------------------------------------------------------
(* Service.Create *)

\* CountOpenGameSessionsForProject
OpenSessions == others + (IF Open THEN 1 ELSE 0)

\* checkOpenSessionLimit: the hard cap or the quota, whichever is lower.
UnderSessionLimit == OpenSessions < MaxOpen

Create(kind, host, members, max, expiry) ==
  /\ session = Absent("none")
  /\ UnderSessionLimit
  /\ session' = [kind |-> kind, state |-> "open", host |-> host, max |-> max, expiry |-> expiry]
  /\ peer' = [p \in Players |-> IF p \in members THEN "fresh" ELSE "none"]
  /\ UNCHANGED <<invited, joining, others, departed, revived, late>>

\* gameSessionCreate: the host is the first peer; an hour to live.
CreateByPlayer(p) ==
  /\ \E kind \in {"public", "private"} : Create(kind, p, {p}, MaxPlayers, "far")
  /\ UNCHANGED rostered

\* CreateMatchSession: sized to the roster, every player seeded, ten minutes.
CreateMatchSession(host, roster) ==
  /\ host \in roster
  /\ Create("match", host, roster, Cardinality(roster), "near")
  /\ rostered' = roster

\* Another session of the project.
CreateOther ==
  /\ UnderSessionLimit
  /\ others' = others + 1
  /\ UNCHANGED <<session, peer, invited, joining, rostered, departed, revived, late>>

OtherCloses ==
  /\ others > 0
  /\ others' = others - 1
  /\ UNCHANGED <<session, peer, invited, joining, rostered, departed, revived, late>>

-----------------------------------------------------------------------------
(* gameSessionJoin *)

IsPrivate == session.kind \in {"match", "private"}

\* canAccessPrivateSession
MayAccess(p) == p = session.host \/ p \in Peers \/ p \in invited

\* A count of the others only.
FullOfOthers(p) == Cardinality(Active \ {p}) > session.max

\* The capacity check: peers seen lately, the joiner not counted.
Full(p) == Cardinality(Active \ {p}) >= session.max

JoinCheck(p) ==
  /\ Kept /\ Unlocked
  /\ IsPrivate => MayAccess(p)
  /\ Open
  /\ ~Full(p)
  /\ joining' = p
  /\ UNCHANGED <<session, peer, invited, others, rostered, departed, revived, late>>

\* UpsertGameSessionPeer, and ExtendGameSessionExpiry for a matchmade session.
JoinCommit ==
  /\ ~Unlocked
  /\ joining' = NoPlayer
  /\ peer' = [peer EXCEPT ![joining] = "fresh"]
  /\ session' = [session EXCEPT !.expiry = IF session.kind = "match" THEN "far" ELSE @]
  /\ departed' = departed \ {joining}
  /\ revived' = revived \ {joining}
  /\ UNCHANGED <<invited, others, rostered, late>>

\* The join fails or its client goes away: the transaction rolls back.
JoinAborts ==
  /\ ~Unlocked
  /\ joining' = NoPlayer
  /\ UNCHANGED <<session, peer, invited, others, rostered, departed, revived, late>>

-----------------------------------------------------------------------------
(* gameSessionHeartbeat: touch the caller, extend a session that is close to *)
(* its expiry, drop the stale peers.                                         *)

\* An extension that does not look at the expiry.
ExtendsExpired == session.state = "open" /\ session.expiry # "far"

\* ExtendGameSessionExpiryOnHeartbeat
Extends == session.state = "open" /\ session.expiry = "near"

\* TouchGameSessionPeer, then PruneStaleGameSessionPeers
PrunedBy(p) ==
  [q \in Players |-> IF q = p THEN "fresh" ELSE IF peer[q] = "stale" THEN "none" ELSE peer[q]]

Heartbeat(p) ==
  /\ p \in Peers
  /\ Extends => Unlocked
  /\ peer' = PrunedBy(p)
  /\ session' = [session EXCEPT !.expiry = IF Extends THEN "far" ELSE @]
  /\ revived' = IF peer[p] = "stale" THEN revived \union {p} ELSE revived
  /\ UNCHANGED <<invited, joining, others, rostered, departed, late>>

-----------------------------------------------------------------------------
(* gameSessionLeave *)

HistoryEnds == rostered' = {} /\ departed' = {} /\ revived' = {}

\* Leaving without waiting for a join that is past its checks.
HostLeavesUnlocked ==
  /\ Kept
  /\ session' = [session EXCEPT !.state = "ended"]
  /\ peer' = NoPeers
  /\ HistoryEnds
  /\ UNCHANGED <<invited, joining, others, late>>

\* The host ends the session for everyone.
HostLeaves ==
  /\ Kept /\ Unlocked
  /\ session' = [session EXCEPT !.state = "ended"]
  /\ peer' = NoPeers
  /\ HistoryEnds
  /\ UNCHANGED <<invited, joining, others, late>>

\* Another peer's row goes.
PeerLeaves(p) ==
  /\ Kept /\ p # session.host /\ p \in Peers
  /\ peer' = [peer EXCEPT ![p] = "none"]
  /\ departed' = departed \union {p}
  /\ revived' = revived \ {p}
  /\ UNCHANGED <<session, invited, joining, others, rostered, late>>

-----------------------------------------------------------------------------
(* gameInviteCreate, gameInviteDelete *)

Invite(from, to) ==
  /\ Open
  /\ from = session.host \/ from \in Peers
  /\ to # from /\ to \notin invited
  /\ invited' = invited \union {to}
  /\ UNCHANGED <<session, peer, joining, others, rostered, departed, revived, late>>

\* The invite is declined, cancelled, or expires and is swept.
InviteEnds(p) ==
  /\ p \in invited
  /\ invited' = invited \ {p}
  /\ UNCHANGED <<session, peer, joining, others, rostered, departed, revived, late>>

-----------------------------------------------------------------------------
(* Time and the sweep. *)

PeerGoesStale(p) ==
  /\ peer[p] = "fresh"
  /\ peer' = [peer EXCEPT ![p] = "stale"]
  /\ revived' = revived \ {p}
  /\ UNCHANGED <<session, invited, joining, others, rostered, departed, late>>

ExpiryNears ==
  /\ Kept /\ session.expiry = "far"
  /\ session' = [session EXCEPT !.expiry = "near"]
  /\ UNCHANGED <<peer, invited, joining, others, rostered, departed, revived, late>>

ExpiryPasses ==
  /\ Kept /\ session.expiry = "near"
  /\ session' = [session EXCEPT !.expiry = "past"]
  /\ late' = (late \/ ~Unlocked)
  /\ UNCHANGED <<peer, invited, joining, others, rostered, departed, revived>>

\* SweepExpiredGameSessions: the session and, by cascade, what hangs on it.
SweepSession ==
  /\ Kept /\ session.expiry = "past" /\ Unlocked
  /\ session' = Absent("deleted")
  /\ peer' = NoPeers
  /\ invited' = {}
  /\ HistoryEnds
  /\ UNCHANGED <<joining, others, late>>

SessionNext ==
  \/ \E p \in Players :
       \/ CreateByPlayer(p) \/ JoinCheck(p) \/ Heartbeat(p) \/ PeerLeaves(p)
       \/ InviteEnds(p) \/ PeerGoesStale(p)
  \/ \E roster \in SUBSET Players, p \in Players : CreateMatchSession(p, roster)
  \/ \E p, q \in Players : Invite(p, q)
  \/ CreateOther \/ OtherCloses
  \/ JoinCommit \/ JoinAborts \/ HostLeaves
  \/ ExpiryNears \/ ExpiryPasses \/ SweepSession

SessionSpec == SessionInit /\ [][SessionNext]_gsVars

-----------------------------------------------------------------------------
(* What sessions promise. *)

\* EndedIsEmpty: nobody is in a session that its host ended or that was swept,
\* also if a join was past its checks or a heartbeat was under way.
EndedIsEmpty == session.state \in {"ended", "deleted"} => Peers = {}

\* WithinMaxPlayers: concurrent joins never fill a session beyond max_players.
\* The one way past it: a peer that was silent for 30 seconds, lost its place,
\* and sends a heartbeat before anyone else's heartbeat drops its row.
WithinMaxPlayers == Kept => Cardinality(Active \ revived) <= session.max

\* WithinOpenLimit: the project never has more open sessions than its limit: no
\* heartbeat or join brings back a session whose place was given away.  The one
\* way past it: the expiry passes between the checks and the commit of a join,
\* which then promotes the session.
WithinOpenLimit == ~late => OpenSessions <= MaxOpen

\* MatchedStayAdmitted: what adapter.go says of a matchmade session: it admits
\* exactly the matched players; those who left aside, each of them may join.
MatchedStayAdmitted ==
  Open => \A p \in rostered \ departed : MayAccess(p)

\* CapacityHolds: a session, and the project, stay within their limits.
CapacityHolds == WithinMaxPlayers /\ WithinOpenLimit

\* SessionsSound: sessions stay within their limits, and end empty.
SessionsSound == EndedIsEmpty /\ CapacityHolds
=============================================================================
