------------------------------- MODULE Friends -------------------------------
(***************************************************************************)
(* Friend edges between accounts: httpapi/friends.go, the account pages of *)
(* players/friends.go and the statements both use.  There is at most one   *)
(* row per directed pair.                                                  *)
(*                                                                         *)
(* A request reads the block gate and, later, writes its row: two steps.   *)
(* A block deletes an accepted reverse row, then a pending one, then       *)
(* writes its own and commits: three steps, since each delete sees what is *)
(* committed when it begins.  A row it deletes stays locked until it ends; *)
(* a delete that finds none locks nothing.  What happens between its last  *)
(* write and its commit may as well happen before that write.  The other   *)
(* operations are one statement.                                           *)
(***************************************************************************)
EXTENDS FiniteSets

CONSTANTS Accounts

VARIABLES
  edge,       \* friend_edges, as committed: status of each directed pair
  asking,     \* requests past their block gate
  blocking,   \* how many of its deletes each block has done
  held        \* blocks that deleted the reverse row and have it locked

frVars == <<edge, asking, blocking, held>>

Pairs == {p \in Accounts \X Accounts : p[1] # p[2]}
Statuses == {"none", "pending", "accepted", "rejected", "blocked"}

FriendsTypeOK ==
  /\ edge \in [Pairs -> Statuses]
  /\ asking \subseteq Pairs
  /\ blocking \in [Pairs -> {"no", "first", "second"}]
  /\ held \subseteq Pairs

FriendsInit ==
  /\ edge = [p \in Pairs |-> "none"]
  /\ asking = {}
  /\ blocking = [p \in Pairs |-> "no"]
  /\ held = {}

\* The row from -> to was deleted by a block that has not committed.
Locked(from, to) == <<to, from>> \in held

-----------------------------------------------------------------------------
(* friendRequest *)

\* IsBlockedBetweenAccounts, either way.
RequestGate(from, to) ==
  /\ "blocked" \notin {edge[<<from, to>>], edge[<<to, from>>]}
  /\ asking' = asking \union {<<from, to>>}
  /\ UNCHANGED <<edge, blocking, held>>

\* A request that overwrites whatever is there.
RequestedAnyway(status) == "pending"

\* RequestFriendByAccount: a new row, or a rejected one.
Requested(status) == IF status \in {"none", "rejected"} THEN "pending" ELSE status

RequestCommit(from, to) ==
  /\ <<from, to>> \in asking /\ ~Locked(from, to)
  /\ asking' = asking \ {<<from, to>>}
  /\ edge' = [edge EXCEPT ![<<from, to>>] = Requested(@)]
  /\ UNCHANGED <<blocking, held>>

RequestFails(from, to) ==
  /\ <<from, to>> \in asking
  /\ asking' = asking \ {<<from, to>>}
  /\ UNCHANGED <<edge, blocking, held>>

-----------------------------------------------------------------------------
(* friendAccept, friendReject, friendDelete *)

\* ResolvePendingFriendEdge
Resolve(me, other, status) ==
  /\ edge[<<other, me>>] = "pending" /\ ~Locked(other, me)
  /\ edge' = [edge EXCEPT ![<<other, me>>] = status]
  /\ UNCHANGED <<asking, blocking, held>>

\* DeleteFriendEdgeByAccount, from either side.
Unfriend(me, other) ==
  LET both == {p \in {<<me, other>>, <<other, me>>} : edge[p] \notin {"none", "blocked"}} IN
  /\ both # {}
  /\ \A p \in both : ~Locked(p[1], p[2])
  /\ edge' = [p \in Pairs |-> IF p \in both THEN "none" ELSE edge[p]]
  /\ UNCHANGED <<asking, blocking, held>>

-----------------------------------------------------------------------------
(* friendBlock, friendUnblock *)

\* DeleteFriendEdgeDirected of a reverse edge with this status.
DeleteReverse(me, other, status) ==
  /\ held' = IF edge[<<other, me>>] = status THEN held \union {<<me, other>>} ELSE held
  /\ UNCHANGED <<edge, asking>>

BlockClearAccepted(me, other) ==
  /\ blocking[<<me, other>>] = "no"
  /\ blocking' = [blocking EXCEPT ![<<me, other>>] = "first"]
  /\ DeleteReverse(me, other, "accepted")

BlockClearPending(me, other) ==
  /\ blocking[<<me, other>>] = "first"
  /\ blocking' = [blocking EXCEPT ![<<me, other>>] = "second"]
  /\ DeleteReverse(me, other, "pending")

\* The block ends and lets go of what it has locked.
BlockEnds(me, other) ==
  /\ blocking' = [blocking EXCEPT ![<<me, other>>] = "no"]
  /\ held' = held \ {<<me, other>>}
  /\ UNCHANGED asking

\* UpsertFriendEdgeStatusByAccount, and the commit of all three.
BlockCommit(me, other) ==
  /\ blocking[<<me, other>>] = "second" /\ ~Locked(me, other)
  /\ edge' = [edge EXCEPT ![<<other, me>>] = IF Locked(other, me) THEN "none" ELSE @,
                          ![<<me, other>>] = "blocked"]
  /\ BlockEnds(me, other)

\* Two blocks of one pair may deadlock, and one of them is rolled back.
BlockFails(me, other) ==
  /\ blocking[<<me, other>>] # "no"
  /\ BlockEnds(me, other)
  /\ UNCHANGED edge

Unblock(me, other) ==
  /\ edge[<<me, other>>] = "blocked"
  /\ edge' = [edge EXCEPT ![<<me, other>>] = "none"]
  /\ UNCHANGED <<asking, blocking, held>>

FriendsNext ==
  \E p \in Pairs :
    \/ RequestGate(p[1], p[2]) \/ RequestCommit(p[1], p[2]) \/ RequestFails(p[1], p[2])
    \/ \E status \in {"accepted", "rejected"} : Resolve(p[1], p[2], status)
    \/ Unfriend(p[1], p[2])
    \/ BlockClearAccepted(p[1], p[2]) \/ BlockClearPending(p[1], p[2])
    \/ BlockCommit(p[1], p[2]) \/ BlockFails(p[1], p[2]) \/ Unblock(p[1], p[2])

FriendsSpec == FriendsInit /\ [][FriendsNext]_frVars

-----------------------------------------------------------------------------
(* What friend edges promise. *)

\* BlockStands: a block ends by its blocker's unblock alone: no request,
\* answer, removal or counter-block under way at the time takes it away.
BlockStands ==
  \A p \in Pairs : edge[p] = "blocked" /\ edge'[p] # "blocked" => Unblock(p[1], p[2])

\* BlockHolds: a block stands until it is taken back.
BlockHolds == [][BlockStands]_frVars

\* BlockSeparates: what friends.go says a block clears the reverse edge for: a
\* blocked pair shares no accepted or pending state.  A request may pass its
\* gate before the block commits and write its row after the deletes, and an
\* accept may fall between them.
BlockSeparates ==
  \A p \in Pairs : edge[p] = "blocked" => edge[<<p[2], p[1]>>] \notin {"pending", "accepted"}
=============================================================================
