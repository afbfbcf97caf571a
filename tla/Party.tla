------------------------------- MODULE Party -------------------------------
(***************************************************************************)
(* Parties: groups of players that queue as one unit (internal/party, and  *)
(* settleEntries of internal/matchmaker for what the matchmaker does to    *)
(* them).  Clients act on the copy of the party they last read and send    *)
(* its version; a write with an old version is refused.                    *)
(*                                                                         *)
(* A transaction locks the party row first, so it is one step.  Joining a  *)
(* party and queueing alone exclude each other by an advisory lock on the  *)
(* player instead, so each of these two is a step that takes the lock and  *)
(* checks, and a step that writes and commits.                             *)
(*                                                                         *)
(* A repeated idempotency key of Queue changes nothing and is left out; so *)
(* are a member's properties, which no decision here depends on.  The      *)
(* failure windows of JoinCode have a module of their own, PartyCodes.     *)
(***************************************************************************)
EXTENDS Naturals, FiniteSets

CONSTANTS
  Players,
  Parties,
  Settings,
  MaxCount,     \* [Settings -> Nat], the largest match of each
  Friends,      \* pairs of players whose friendship is accepted
  Loners,       \* players who also queue alone
  MaxMembers,   \* parties.max_members
  MaxUses,      \* the largest max_uses of an invite code
  MaxVersion,   \* bound on the versions players write
  Skew          \* the database and the server may read different clocks

NoParty == "no party"

ASSUME PartyConstants ==
  /\ NoParty \notin Parties
  /\ Settings # {} /\ MaxCount \in [Settings -> Nat]
  /\ {MaxMembers, MaxUses, MaxVersion} \subseteq Nat \ {0}
  /\ Friends \subseteq Players \X Players
  /\ Loners \subseteq Players
  /\ Skew \in BOOLEAN
ASSUME PlayersFinite == IsFiniteSet(Players)

VARIABLES
  party,     \* parties rows
  partyOf,   \* party_members: the one party a player may be in
  joined,    \* party_members.joined_at, as the version the player joined at
  ready,     \* party_members.ready_version
  dbGone,    \* members whose disconnect_deadline has passed by now()
  appGone,   \* ... and by the server's time.Now()
  roster,    \* the players of each party's current queue entry, {} for none
  solo,      \* players with a queued solo ticket
  code,      \* uses left of each party's live invite code
  invites,   \* pending party_invites: <<party, target>>
  open,      \* transactions that hold a player's advisory lock
  seen,      \* the copy of a party each client last read
  agreed     \* the copy each member was looking at when it got ready

rows == <<party, partyOf, joined, ready>>
presence == <<dbGone, appGone>>
clients == <<seen, agreed>>
vars == <<rows, presence, roster, solo, code, invites, open, clients>>

NoPlayer == "nobody"
NoRow == [state |-> "none", leader |-> NoPlayer, version |-> 0, rosterVersion |-> 0,
          settings |-> CHOOSE s \in Settings : TRUE, last |-> 0]

Members(p) == {pl \in Players : partyOf[pl] = p}

\* What Get, an answer or an event's refetch shows of a party.
View(p) == [party |-> p, row |-> party[p], members |-> Members(p)]
NoView == [party |-> NoParty, row |-> NoRow, members |-> {}]

Row == [state : {"none", "idle", "queued", "matched", "closed"},
        leader : Players \union {NoPlayer}, version : Nat, rosterVersion : Nat,
        settings : Settings, last : Nat]
Copy == [party : Parties \union {NoParty}, row : Row, members : SUBSET Players]

TypeOK ==
  /\ party \in [Parties -> Row]
  /\ partyOf \in [Players -> Parties \union {NoParty}]
  /\ joined \in [Players -> Nat]
  /\ ready \in [Players -> Nat]
  /\ {dbGone, appGone, solo} \subseteq SUBSET Players
  /\ \A p \in Parties : /\ Cardinality(Members(p)) <= MaxMembers
                        /\ party[p].rosterVersion <= party[p].version
  /\ roster \in [Parties -> SUBSET Players]
  /\ code \in [Parties -> 0..MaxUses]
  /\ invites \subseteq Parties \X Players
  /\ open \subseteq [player : Players, kind : {"solo", "join"}, party : Parties \union {NoParty}]
  /\ seen \in [Players -> Copy]
  /\ agreed \in [Players -> Copy]

Init ==
  /\ party = [p \in Parties |-> NoRow]
  /\ partyOf = [pl \in Players |-> NoParty]
  /\ joined = [pl \in Players |-> 0]
  /\ ready = [pl \in Players |-> 0]
  /\ dbGone = {} /\ appGone = {} /\ solo = {}
  /\ roster = [p \in Parties |-> {}]
  /\ code = [p \in Parties |-> 0]
  /\ invites = {}
  /\ open = {}
  /\ seen = [pl \in Players |-> NoView]
  /\ agreed = [pl \in Players |-> NoView]

-----------------------------------------------------------------------------
(* What the operations are made of. *)

Queued(pl) == pl \in solo \/ \E p \in Parties : pl \in roster[p]

Unlocked(pl) == \A o \in open : o.player # pl
RowLocked(p) == \E o \in open : o.party = p

\* The version the client sends is the party's.
Current(pl, p) == seen[pl].party = p /\ seen[pl].row.version = party[p].version

\* mutate: the caller is a member, the leader where that is asked for, and
\* sends the version the party still has.
MayWrite(pl, p, asLeader) ==
  /\ ~RowLocked(p)
  /\ partyOf[pl] = p
  /\ asLeader => party[p].leader = pl
  /\ Current(pl, p)

\* The bound on what players write.
Room(p) == party[p].version < MaxVersion

Bumped(row) == [row EXCEPT !.version = @ + 1]

\* A new roster under the old version.
RosterOnly(row) == [row EXCEPT !.rosterVersion = @ + 1]

\* rosterChanged, for the row and for the members' readiness.
RosterChanged(row) == [row EXCEPT !.version = @ + 1, !.rosterVersion = @ + 1]
NoneReady(S) == [pl \in Players |-> IF pl \in S THEN 0 ELSE ready[pl]]

\* cancel: the current entry and its tickets, or the matched state.
Cancelled(p) ==
  [party[p] EXCEPT !.state = IF roster[p] # {} \/ @ = "matched" THEN "idle" ELSE @]

\* promote: the longest-standing member in time, or the party closes.
Promoted(row, S) ==
  LET inTime == S \ appGone IN
  IF inTime = {} THEN [row EXCEPT !.state = "closed"]
  ELSE [row EXCEPT !.leader = CHOOSE pl \in inTime : \A other \in inTime : joined[pl] <= joined[other]]

\* Without promote.
AfterLossKeepsLeader(row, S) == IF S = {} THEN [row EXCEPT !.state = "closed"] ELSE row

\* The end of Remove and Sweep: S are the members left.
AfterLoss(row, S) ==
  IF S = {} THEN [row EXCEPT !.state = "closed"]
  ELSE IF row.leader \notin S THEN Promoted(row, S) ELSE row

\* party p loses the players out: cancel, promote, rosterChanged, save.  A
\* party that closed keeps nobody.
LoseMembers(p, out) ==
  LET row == AfterLoss(Cancelled(p), Members(p) \ out)
      gone == IF row.state = "closed" THEN Members(p) ELSE out
  IN
  /\ party' = [party EXCEPT ![p] = RosterChanged(row)]
  /\ partyOf' = [pl \in Players |-> IF pl \in gone THEN NoParty ELSE partyOf[pl]]
  /\ joined' = [pl \in Players |-> IF pl \in gone THEN 0 ELSE joined[pl]]
  /\ ready' = NoneReady(Members(p))
  /\ dbGone' = dbGone \ gone
  /\ appGone' = appGone \ gone
  /\ roster' = [roster EXCEPT ![p] = {}]

-----------------------------------------------------------------------------
(* Clients. *)

\* An answer, a getParty after an event, or the list of invites.
Learn(pl, p) ==
  /\ ~RowLocked(p)
  /\ partyOf[pl] = p \/ (<<p, pl>> \in invites /\ party[p].state = "idle")
  /\ seen' = [seen EXCEPT ![pl] = View(p)]
  /\ UNCHANGED <<rows, presence, roster, solo, code, invites, open, agreed>>

\* checkPlayer refuses a player in a party or in the queue.
Free(pl) == partyOf[pl] = NoParty /\ ~Queued(pl)

Create(pl, p, s) ==
  /\ party[p].state = "none"
  /\ Unlocked(pl) /\ Free(pl)
  /\ party' = [party EXCEPT ![p] = [NoRow EXCEPT !.state = "idle", !.leader = pl, !.version = 1,
                                                 !.rosterVersion = 1, !.settings = s]]
  /\ partyOf' = [partyOf EXCEPT ![pl] = p]
  /\ joined' = [joined EXCEPT ![pl] = 1]
  /\ UNCHANGED <<ready, presence, roster, solo, code, invites, open, clients>>

\* Update that leaves readiness as it is.
UpdateKeepsReady(pl, p, s) ==
  /\ MayWrite(pl, p, TRUE) /\ Room(p)
  /\ party[p].state = "idle"
  /\ party' = [party EXCEPT ![p] = Bumped([party[p] EXCEPT !.settings = s])]
  /\ UNCHANGED <<partyOf, joined, ready, presence, roster, solo, code, invites, open, clients>>

Update(pl, p, s) ==
  /\ MayWrite(pl, p, TRUE) /\ Room(p)
  /\ party[p].state = "idle"
  /\ party' = [party EXCEPT ![p] = RosterChanged([party[p] EXCEPT !.settings = s])]
  /\ ready' = NoneReady(Members(p))
  /\ UNCHANGED <<partyOf, joined, presence, roster, solo, code, invites, open, clients>>

Ready(pl, p, yes) ==
  /\ MayWrite(pl, p, FALSE) /\ Room(p)
  /\ party[p].state \in {"idle", "matched"}
  /\ ready' = [ready EXCEPT ![pl] = IF yes THEN party[p].rosterVersion ELSE 0]
  /\ party' = [party EXCEPT ![p] = Bumped(party[p])]
  /\ agreed' = [agreed EXCEPT ![pl] = IF yes THEN seen[pl] ELSE NoView]
  /\ UNCHANGED <<partyOf, joined, presence, roster, solo, code, invites, open, seen>>

\* Heartbeat: no new version.
Heartbeat(pl, p) ==
  /\ MayWrite(pl, p, FALSE)
  /\ pl \notin appGone
  /\ dbGone' = dbGone \ {pl}
  /\ UNCHANGED <<rows, appGone, roster, solo, code, invites, open, clients>>

\* Queue.  A matched party is queued again by naming its last match.
Queue(pl, p, rematch) ==
  LET row == party[p] IN
  /\ MayWrite(pl, p, TRUE) /\ Room(p)
  /\ row.state \in {"idle", "matched"}
  /\ row.state = "matched" => rematch
  /\ rematch => row.last # 0 /\ seen[pl].row.last = row.last
  /\ Cardinality(Members(p)) <= MaxCount[row.settings]
  /\ \A m \in Members(p) : ready[m] = row.rosterVersion /\ m \notin appGone /\ ~Queued(m)
  /\ party' = [party EXCEPT ![p] = Bumped([party[p] EXCEPT !.state = "queued"])]
  /\ roster' = [roster EXCEPT ![p] = Members(p)]
  /\ UNCHANGED <<partyOf, joined, ready, presence, solo, code, invites, open, clients>>

Cancel(pl, p) ==
  /\ MayWrite(pl, p, TRUE) /\ Room(p)
  /\ party[p].state \in {"queued", "matched"}
  /\ party' = [party EXCEPT ![p] = RosterChanged(Cancelled(p))]
  /\ ready' = NoneReady(Members(p))
  /\ roster' = [roster EXCEPT ![p] = {}]
  /\ UNCHANGED <<partyOf, joined, presence, solo, code, invites, open, clients>>

\* Remove that leaves the entry in the queue.
RemoveKeepsEntry(pl, p, out) ==
  /\ MayWrite(pl, p, out # {pl}) /\ Room(p)
  /\ out \subseteq Members(p)
  /\ party' = [party EXCEPT ![p] = RosterChanged(AfterLoss(party[p], Members(p) \ out))]
  /\ partyOf' = [m \in Players |-> IF m \in out THEN NoParty ELSE partyOf[m]]
  /\ joined' = [m \in Players |-> IF m \in out THEN 0 ELSE joined[m]]
  /\ ready' = NoneReady(Members(p))
  /\ UNCHANGED <<presence, roster, solo, code, invites, open, clients>>

\* Leave, kick or disband.
Remove(pl, p, out) ==
  /\ MayWrite(pl, p, out # {pl}) /\ Room(p)
  /\ out \subseteq Members(p)
  /\ LoseMembers(p, out)
  /\ UNCHANGED <<solo, code, invites, open, clients>>

-----------------------------------------------------------------------------
(* Getting into a party, or into the queue alone. *)

CreateCode(pl, p, uses) ==
  /\ MayWrite(pl, p, TRUE) /\ Room(p)
  /\ party[p].state = "idle"
  /\ code' = [code EXCEPT ![p] = uses]
  /\ party' = [party EXCEPT ![p] = Bumped(party[p])]
  /\ UNCHANGED <<partyOf, joined, ready, presence, roster, solo, invites, open, clients>>

RevokeCode(pl, p) ==
  /\ MayWrite(pl, p, TRUE) /\ Room(p)
  /\ code[p] > 0
  /\ code' = [code EXCEPT ![p] = 0]
  /\ party' = [party EXCEPT ![p] = Bumped(party[p])]
  /\ UNCHANGED <<partyOf, joined, ready, presence, roster, solo, invites, open, clients>>

\* InviteFriend; a second invite only extends the first.
InviteFriend(pl, p, target) ==
  /\ MayWrite(pl, p, TRUE) /\ Room(p)
  /\ party[p].state = "idle"
  /\ <<pl, target>> \in Friends /\ <<p, target>> \notin invites
  /\ invites' = invites \union {<<p, target>>}
  /\ party' = [party EXCEPT ![p] = Bumped(party[p])]
  /\ UNCHANGED <<partyOf, joined, ready, presence, roster, solo, code, open, clients>>

\* ResolveInvite: the target declines or the leader revokes.
EndInvite(pl, p, target) ==
  /\ <<p, target>> \in invites
  /\ ~RowLocked(p)
  /\ pl \in {target, party[p].leader}
  /\ Current(pl, p) /\ Room(p)
  /\ invites' = invites \ {<<p, target>>}
  /\ party' = [party EXCEPT ![p] = Bumped(party[p])]
  /\ UNCHANGED <<partyOf, joined, ready, presence, roster, solo, code, open, clients>>

\* A code or an invite runs out.
CodeExpires(p) ==
  /\ code[p] > 0
  /\ code' = [code EXCEPT ![p] = 0]
  /\ UNCHANGED <<rows, presence, roster, solo, invites, open, clients>>

InviteExpires(p, target) ==
  /\ <<p, target>> \in invites
  /\ invites' = invites \ {<<p, target>>}
  /\ UNCHANGED <<rows, presence, roster, solo, code, open, clients>>

MayJoin(pl, p) ==
  /\ ~RowLocked(p)
  /\ party[p].state = "idle"
  /\ Cardinality(Members(p)) < MaxMembers
  /\ Room(p)
  /\ Free(pl)

Joining(pl, p) == [player |-> pl, kind |-> "join", party |-> p]
Queueing(pl) == [player |-> pl, kind |-> "solo", party |-> NoParty]

\* JoinCode without the advisory lock.
JoinUnlocked(pl, p) ==
  /\ code[p] > 0
  /\ MayJoin(pl, p)
  /\ code' = [code EXCEPT ![p] = @ - 1]
  /\ open' = open \union {Joining(pl, p)}
  /\ UNCHANGED <<rows, presence, roster, solo, invites, clients>>

\* JoinCode takes no version: the code is enough.
JoinCode(pl, p) ==
  /\ code[p] > 0
  /\ Unlocked(pl) /\ MayJoin(pl, p)
  /\ code' = [code EXCEPT ![p] = @ - 1]
  /\ open' = open \union {Joining(pl, p)}
  /\ UNCHANGED <<rows, presence, roster, solo, invites, clients>>

\* ResolveInvite: the target accepts.
AcceptInvite(pl, p) ==
  /\ <<p, pl>> \in invites
  /\ Current(pl, p)
  /\ Unlocked(pl) /\ MayJoin(pl, p)
  /\ invites' = invites \ {<<p, pl>>}
  /\ open' = open \union {Joining(pl, p)}
  /\ UNCHANGED <<rows, presence, roster, solo, code, clients>>

\* join's insert, and the commit.
JoinCommits(pl, p) ==
  /\ Joining(pl, p) \in open
  /\ open' = open \ {Joining(pl, p)}
  /\ party' = [party EXCEPT ![p] = RosterChanged(party[p])]
  /\ partyOf' = [partyOf EXCEPT ![pl] = p]
  /\ joined' = [joined EXCEPT ![pl] = party[p].version + 1]
  /\ ready' = NoneReady(Members(p) \union {pl})
  /\ UNCHANGED <<presence, roster, solo, code, invites, clients>>

\* Enqueue of a solo ticket: the trigger matchmaking_solo_entry.
SoloBegins(pl) ==
  /\ Unlocked(pl)
  /\ partyOf[pl] = NoParty
  /\ pl \notin solo
  /\ open' = open \union {Queueing(pl)}
  /\ UNCHANGED <<rows, presence, roster, solo, code, invites, clients>>

SoloCommits(pl) ==
  /\ Queueing(pl) \in open
  /\ open' = open \ {Queueing(pl)}
  /\ solo' = solo \union {pl}
  /\ UNCHANGED <<rows, presence, roster, code, invites, clients>>

\* The solo ticket is matched, cancelled or expires.
SoloLeaves(pl) ==
  /\ pl \in solo
  /\ solo' = solo \ {pl}
  /\ UNCHANGED <<rows, presence, roster, code, invites, open, clients>>

-----------------------------------------------------------------------------
(* The matchmaker and time. *)

\* Settling without a new version.
SettleSilently(p, matched) ==
  /\ party[p].state = "queued" /\ ~RowLocked(p)
  /\ matched => Members(p) \cap dbGone = {}
  /\ party' = [party EXCEPT ![p] = [party[p] EXCEPT !.state = IF matched THEN "matched" ELSE "idle",
                                                   !.last = IF matched THEN @ + 1 ELSE @]]
  /\ ready' = NoneReady(Members(p))
  /\ roster' = [roster EXCEPT ![p] = {}]
  /\ UNCHANGED <<partyOf, joined, presence, solo, code, invites, open, clients>>

\* settleEntries on the party's entry.  CommitMatch refuses a party with a
\* member past its deadline.
Settle(p, matched) ==
  /\ party[p].state = "queued" /\ ~RowLocked(p)
  /\ matched => Members(p) \cap dbGone = {}
  /\ party' = [party EXCEPT ![p] = RosterChanged([party[p] EXCEPT
                                 !.state = IF matched THEN "matched" ELSE "idle",
                                 !.last = IF matched THEN @ + 1 ELSE @])]
  /\ ready' = NoneReady(Members(p))
  /\ roster' = [roster EXCEPT ![p] = {}]
  /\ UNCHANGED <<partyOf, joined, presence, solo, code, invites, open, clients>>

\* A member's deadline passes on both clocks, or on one first.
DeadlinePasses(pl) ==
  /\ partyOf[pl] # NoParty
  /\ pl \notin dbGone \/ pl \notin appGone
  /\ \/ dbGone' = dbGone \union {pl} /\ appGone' = appGone \union {pl}
     \/ Skew /\ dbGone' = dbGone \union {pl} /\ UNCHANGED appGone
     \/ Skew /\ appGone' = appGone \union {pl} /\ UNCHANGED dbGone
  /\ UNCHANGED <<rows, roster, solo, code, invites, open, clients>>

\* Only parties that nothing else is going on with are swept.
SweepIdle(p) ==
  /\ ~RowLocked(p)
  /\ party[p].state = "idle"
  /\ Members(p) \cap dbGone # {}
  /\ Members(p) \cap appGone # {} \/ Room(p)
  /\ LoseMembers(p, Members(p) \cap appGone)
  /\ UNCHANGED <<solo, code, invites, open, clients>>

\* One party of Sweep's batch: found by now(), emptied by time.Now().  A sweep
\* that drops nobody is bounded like a player's write.
Sweep(p) ==
  /\ ~RowLocked(p)
  /\ party[p].state # "closed"
  /\ Members(p) \cap dbGone # {}
  /\ Members(p) \cap appGone # {} \/ Room(p)
  /\ LoseMembers(p, Members(p) \cap appGone)
  /\ UNCHANGED <<solo, code, invites, open, clients>>

-----------------------------------------------------------------------------
Act(pl, p) ==
  \/ Learn(pl, p)
  \/ \E s \in Settings : Create(pl, p, s) \/ Update(pl, p, s)
  \/ \E yes \in BOOLEAN : Ready(pl, p, yes) \/ Queue(pl, p, yes)
  \/ Heartbeat(pl, p) \/ Cancel(pl, p)
  \/ \E out \in {{m} : m \in Players} \union {Members(p)} : Remove(pl, p, out)
  \/ \E uses \in 1..MaxUses : CreateCode(pl, p, uses)
  \/ RevokeCode(pl, p)
  \/ \E target \in Players : InviteFriend(pl, p, target) \/ EndInvite(pl, p, target)
  \/ JoinCode(pl, p) \/ AcceptInvite(pl, p) \/ JoinCommits(pl, p)

Next ==
  \/ \E pl \in Players, p \in Parties : Act(pl, p) \/ InviteExpires(p, pl)
  \/ \E pl \in Loners : SoloBegins(pl) \/ SoloCommits(pl) \/ SoloLeaves(pl)
  \/ \E pl \in Players : DeadlinePasses(pl)
  \/ \E p \in Parties : \/ \E matched \in BOOLEAN : Settle(p, matched)
                        \/ Sweep(p) \/ CodeExpires(p)

Spec == Init /\ [][Next]_vars

(***************************************************************************)
(* Fairness: a transaction that was begun ends, the workers' sweep runs    *)
(* again and again, and a server's clock that is behind the database's     *)
(* moves on.  Nothing is assumed of players, clients or the matchmaker.    *)
(***************************************************************************)
PartyFairness ==
  /\ \A pl \in Players, p \in Parties : WF_vars(JoinCommits(pl, p))
  /\ \A p \in Parties : SF_vars(Sweep(p))
  /\ \A pl \in Players : WF_vars(pl \in dbGone /\ DeadlinePasses(pl))

-----------------------------------------------------------------------------
(* Properties. *)

\* QueuedAsOne: a party is in the queue exactly with the members it has now:
\* whoever leaves, joins, is kicked or lost takes the whole entry out, and an
\* entry that was settled leaves no queued party behind.
QueuedAsOne ==
  \A p \in Parties :
    roster[p] = IF party[p].state = "queued" THEN Members(p) ELSE {}

\* InformedReadiness: a member that counts as ready was looking at these
\* members and these settings when it said so, however late its request came.
InformedReadiness ==
  \A p \in Parties : \A m \in Members(p) :
    ready[m] = party[p].rosterVersion
      => agreed[m].members = Members(p) /\ agreed[m].row.settings = party[p].settings

\* LeaderInParty: an open party is led by one of its members, and a closed one
\* has none: no party is left that nobody may disband or queue.
LeaderInParty ==
  \A p \in Parties :
    IF party[p].state \in {"none", "closed"} THEN Members(p) = {}
    ELSE party[p].leader \in Members(p)

\* OneQueuePlace: a player is never in the queue twice: not alone while a
\* member of a party, and not with two parties.
OneQueuePlace ==
  \A pl \in Players :
    /\ pl \in solo => partyOf[pl] = NoParty
    /\ \A p \in Parties : pl \in roster[p] => partyOf[pl] = p

\* QueueSound: the queue holds parties whole, and every player once.
QueueSound == QueuedAsOne /\ OneQueuePlace

\* VersionsTell: a client that holds the current version holds the current
\* party: whatever changes it, a player's request, the matchmaker or the
\* sweep, changes the version.
VersionsTell ==
  \A pl \in Players, p \in Parties :
    Current(pl, p) => seen[pl] = View(p)

\* MembersInformed: what a client holds as current is current, what its
\* readiness stands for is what it saw, and somebody in the party leads it.
MembersInformed == InformedReadiness /\ VersionsTell /\ LeaderInParty

\* LostMembersLeave: a member whose deadline has passed is out in the end,
\* so a queued party does not wait for it.
LostMembersLeave ==
  \A pl \in Players : pl \in dbGone ~> pl \notin dbGone
=============================================================================
