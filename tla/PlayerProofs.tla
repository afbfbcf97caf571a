----------------------------- MODULE PlayerProofs -----------------------------
(***************************************************************************)
(* Proofs about what a player meets between two requests: friends and      *)
(* blocks, the frames relayed to the player's sockets, the sessions and    *)
(* reset codes the player signs in with, the tenant's cap on sockets and   *)
(* its quota of stored bytes.  Any accounts, sockets, frames, processes,   *)
(* objects and requests; the bounds of the models are parameters here.     *)
(***************************************************************************)
EXTENDS Friends, RealtimeRelay, PlayerSessions, ConnectionCap, PlayerStorage,
        FiniteSetTheorems, SequenceTheorems, TLAPS

-----------------------------------------------------------------------------
(* Friends *)

\* LocksKept: the edge that a block deleted stays as it was, pending or
\* accepted, until that block ends.
LocksKept ==
  \A p \in held : /\ blocking[p] # "no"
                  /\ edge[<<p[2], p[1]>>] \in {"pending", "accepted"}

FriendsInv == FriendsTypeOK /\ LocksKept

\* A pair and the pair the other way: what the handlers of a friendship name.
LEMMA PairParts ==
  ASSUME NEW p \in Pairs
  PROVE  p = <<p[1], p[2]>> /\ <<p[2], p[1]>> \in Pairs /\ <<p[2], p[1]>> # p
PROOF
  BY DEF Pairs

\* No edge, no request and no block is there at first.
LEMMA FriendsInitial == FriendsInit => FriendsInv
PROOF
  BY PairParts DEF FriendsInit, FriendsInv, FriendsTypeOK, LocksKept, Statuses

\* Every handler of friends, at each of its statements, keeps the invariant,
\* and none but the unblocking one takes a block back.
LEMMA FriendsStep ==
  FriendsInv /\ [FriendsNext]_frVars => FriendsInv' /\ [BlockStands]_frVars
PROOF
  <1> DEFINE Goal == FriendsInv' /\ BlockStands
  <1> SUFFICES ASSUME FriendsInv, [FriendsNext]_frVars
               PROVE  FriendsInv' /\ [BlockStands]_frVars
    OBVIOUS
  <1> USE PairParts DEF FriendsInv, FriendsTypeOK, LocksKept, BlockStands, Statuses
  <1>1. ASSUME NEW p \in Pairs, RequestGate(p[1], p[2]) PROVE Goal
    BY <1>1 DEF RequestGate
  <1>2. ASSUME NEW p \in Pairs, RequestCommit(p[1], p[2]) PROVE Goal
    BY <1>2 DEF RequestCommit, Requested, Locked
  <1>3. ASSUME NEW p \in Pairs, RequestFails(p[1], p[2]) PROVE Goal
    BY <1>3 DEF RequestFails
  <1>4. ASSUME NEW p \in Pairs, NEW status \in {"accepted", "rejected"}, Resolve(p[1], p[2], status)
        PROVE Goal
    BY <1>4 DEF Resolve, Locked
  <1>5. ASSUME NEW p \in Pairs, Unfriend(p[1], p[2]) PROVE Goal
    BY <1>5 DEF Unfriend, Locked
  <1>6. ASSUME NEW p \in Pairs, BlockClearAccepted(p[1], p[2]) PROVE Goal
    BY <1>6 DEF BlockClearAccepted, DeleteReverse
  <1>7. ASSUME NEW p \in Pairs, BlockCommit(p[1], p[2]) PROVE Goal
    BY <1>7 DEF BlockCommit, BlockEnds, Locked
  <1>8. ASSUME NEW p \in Pairs, BlockFails(p[1], p[2]) PROVE Goal
    BY <1>8 DEF BlockFails, BlockEnds
  <1>9. ASSUME NEW p \in Pairs, Unblock(p[1], p[2]) PROVE Goal
    BY <1>9 DEF Unblock
  <1>10. ASSUME UNCHANGED frVars PROVE FriendsInv'
    BY <1>10 DEF frVars
  <1>11. ASSUME NEW p \in Pairs, BlockClearPending(p[1], p[2]) PROVE Goal
    BY <1>11 DEF BlockClearPending, DeleteReverse
  <1> QED
    BY <1>1, <1>2, <1>3, <1>4, <1>5, <1>6, <1>7, <1>8, <1>9, <1>10, <1>11 DEF FriendsNext

\* A block stands until its owner takes it back, whatever requests, answers,
\* removals and other blocks are under way: the handlers of friends.go, for any
\* accounts.  Not inductive without LocksKept, what the deletes of
\* friendBlockToggle hold until it ends: the commit of one block removes an edge
\* that could otherwise be the other's block by then.
THEOREM BlocksHold == FriendsSpec => BlockHolds
PROOF
  BY FriendsInitial, FriendsStep, PTL DEF FriendsSpec, BlockHolds
-----------------------------------------------------------------------------
(* RealtimeRelay *)

Increasing(s) == \A i, j \in 1..Len(s) : i < j => s[i] < s[j]
Before(S, T) == \A x \in S, y \in T : x < y

\* A frame newer than all of a queue, put at its end.
LEMMA AppendRises ==
  ASSUME NEW s \in Seq(Nat), NEW x \in Nat
  PROVE  /\ Append(s, x) \in Seq(Nat)
         /\ Range(Append(s, x)) = Range(s) \union {x}
         /\ Increasing(s) /\ Before(Range(s), {x}) => Increasing(Append(s, x))
PROOF
  <1>1. /\ Append(s, x) \in Seq(Nat) /\ Len(Append(s, x)) = Len(s) + 1
        /\ Append(s, x)[Len(s) + 1] = x
        /\ \A i \in 1..Len(s) : Append(s, x)[i] = s[i]
        /\ DOMAIN Append(s, x) = 1..(Len(s) + 1) /\ DOMAIN s = 1..Len(s) /\ Len(s) \in Nat
    OBVIOUS
  <1>2. Range(Append(s, x)) = Range(s) \union {x}
    BY <1>1 DEF Range
  <1>3. ASSUME Increasing(s), Before(Range(s), {x}) PROVE Increasing(Append(s, x))
    BY <1>1, <1>3, SMTT(60) DEF Range, Increasing, Before
  <1> QED
    BY <1>1, <1>2, <1>3

\* The oldest frame of a queue, taken from its head.
LEMMA TailRises ==
  ASSUME NEW s \in Seq(Nat), s # << >>
  PROVE  /\ Tail(s) \in Seq(Nat) /\ Head(s) \in Nat
         /\ Head(s) \in Range(s) /\ Range(Tail(s)) \subseteq Range(s)
         /\ Increasing(s) => Increasing(Tail(s)) /\ Before({Head(s)}, Range(Tail(s)))
PROOF
  BY DEF Range, Increasing, Before

\* Nothing waits in an empty queue.
LEMMA EmptyRises ==
  /\ << >> \in Seq(Nat) /\ Range(<< >>) = {} /\ Increasing(<< >>)
  /\ \A x \in Nat : <<x>> \in Seq(Nat) /\ Range(<<x>>) = {x} /\ Increasing(<<x>>)
PROOF
  BY DEF Range, Increasing
Hand == IF drainer.at = "write" THEN {drainer.frame} ELSE {}
Pending == {incoming} \ {NoFrame}

RelayTyped ==
  /\ socket \in [Sockets -> {"new", "open", "closed", "done"}]
  /\ writer \in Sockets \union {NoSocket} /\ newest \in Sockets \union {NoSocket}
  /\ inbox \in Seq(Nat) /\ incoming \in Nat /\ queue \in Seq(Nat) /\ written \in Seq(Nat)
  /\ drainer \in {Waiting, Expired, Gone} \union [at : {"write"}, frame : Nat, socket : Sockets]
  /\ mapped \in BOOLEAN /\ stopping \in BOOLEAN /\ sent \in Nat

\* QueueServed: the map has the queue as long as its goroutine runs, and the
\* other way round until the process stops.
QueueServed ==
  /\ ~mapped => queue = << >> /\ drainer = Gone
  /\ mapped /\ ~stopping => drainer # Gone

\* WriterNewest: the hub's entry is that of the newest socket, if any.
WriterNewest ==
  /\ writer \in {newest, NoSocket}
  /\ newest # NoSocket => socket[newest] # "new"

\* FramesLineUp: what was written, the frame in the goroutine's hand, the queue,
\* the frame in the listener's hand and the inbox continue each other.
FramesLineUp ==
  /\ Increasing(written) /\ Increasing(queue) /\ Increasing(inbox)
  /\ Before(Range(written), Hand \union Range(queue) \union Pending \union Range(inbox))
  /\ Before(Hand, Range(queue) \union Pending \union Range(inbox))
  /\ Before(Range(queue), Pending \union Range(inbox))
  /\ Before(Pending, Range(inbox))
  /\ Before(Range(written) \union Hand \union Range(queue) \union Pending \union Range(inbox), {sent + 1})

RelayInv == RelayTyped /\ QueueServed /\ WriterNewest /\ NewestStays /\ FramesLineUp

\* No socket, no frame and no goroutine is there at first.
LEMMA RelayInitial == RelayInit => RelayInv
PROOF
  <1> SUFFICES ASSUME RelayInit PROVE RelayInv
    OBVIOUS
  <1>1. RelayTyped
    BY EmptyRises DEF RelayInit, RelayTyped, NoFrame
  <1>2. QueueServed /\ WriterNewest /\ NewestStays
    BY DEF RelayInit, QueueServed, WriterNewest, NewestStays
  <1>3. FramesLineUp
    <2>1. Hand = {} /\ Pending = {} /\ Range(queue) = {} /\ Range(inbox) = {} /\ Range(written) = {}
      BY EmptyRises DEF RelayInit, Hand, Pending, NoFrame, Gone
    <2> QED
      BY <2>1, EmptyRises DEF RelayInit, FramesLineUp, Before
  <1> QED
    BY <1>1, <1>2, <1>3 DEF RelayInv

\* Every step of a socket, the listener or the draining goroutine keeps the
\* invariant of the relay.
LEMMA RelayStep == RelayInv /\ [RelayNext]_rlVars => RelayInv'
PROOF
  <1> SUFFICES ASSUME RelayInv, [RelayNext]_rlVars PROVE RelayInv'
    OBVIOUS
  <1> USE DEF RelayInv, RelayTyped, QueueServed, WriterNewest, NewestStays, FramesLineUp,
              Hand, Pending, Before, NoFrame, Waiting, Expired, Gone, hubVars, queueVars, listenVars
  <1>1. ASSUME NEW s \in Sockets, Register(s) PROVE RelayInv'
    BY <1>1 DEF Register
  <1>2. ASSUME NEW s \in Sockets, Disconnect(s) PROVE RelayInv'
    BY <1>2 DEF Disconnect
  <1>3. ASSUME NEW s \in Sockets, Unregister(s) PROVE RelayInv'
    BY <1>3 DEF Unregister, Removed
  <1>4. ASSUME Notify PROVE RelayInv'
    <2>1. /\ sent' = sent + 1
          /\ inbox' = Append(inbox, sent + 1) \/ inbox' = inbox
          /\ UNCHANGED <<hubVars, incoming, queueVars, stopping, written>>
      BY <1>4 DEF Notify
    <2>2. /\ inbox' \in Seq(Nat) /\ Increasing(inbox')
          /\ Range(inbox') \subseteq Range(inbox) \union {sent + 1}
      <3>1. inbox \in Seq(Nat) /\ Increasing(inbox) /\ sent + 1 \in Nat /\ Before(Range(inbox), {sent + 1})
        OBVIOUS
      <3> HIDE DEF RelayInv, Before
      <3> QED
        BY <2>1, <3>1, AppendRises
    <2>3. \A x \in Range(written) \union Hand \union Range(queue) \union Pending \union Range(inbox) : x \in Nat
      BY DEF Range
    <2>4. Hand' = Hand /\ Pending' = Pending
      BY <2>1
    <2>5. FramesLineUp'
      <3> HIDE DEF Hand, Pending
      <3>1. sent \in Nat
        OBVIOUS
      <3> QED
        BY <2>1, <2>2, <2>3, <2>4, <3>1
    <2> QED
      BY <2>1, <2>2, <2>5
  <1>5. ASSUME DeliverRelayed PROVE RelayInv'
    BY <1>5, TailRises DEF DeliverRelayed
  <1>6. ASSUME EnqueueNew PROVE RelayInv'
    BY <1>6, EmptyRises DEF EnqueueNew
  <1>7. ASSUME EnqueueMore PROVE RelayInv'
    <2>1. /\ incoming # NoFrame /\ incoming' = NoFrame
          /\ queue' = Append(queue, incoming) \/ queue' = queue
          /\ mapped
          /\ UNCHANGED <<hubVars, inbox, sent, mapped, drainer, stopping, written>>
      BY <1>7 DEF EnqueueMore
    <2>2. Pending = {incoming} /\ Pending' = {}
      BY <2>1
    <2>3. /\ queue' \in Seq(Nat) /\ Increasing(queue')
          /\ Range(queue') \subseteq Range(queue) \union {incoming}
      <3>1. queue \in Seq(Nat) /\ Increasing(queue) /\ incoming \in Nat /\ Before(Range(queue), {incoming})
        BY <2>2
      <3> HIDE DEF RelayInv, Before
      <3> QED
        BY <2>1, <3>1, AppendRises
    <2>4. FramesLineUp'
      <3>1. Hand' = Hand
        BY <2>1
      <3> HIDE DEF Hand, Pending
      <3> QED
        BY <2>1, <2>2, <2>3, <3>1
    <2> QED
      BY <2>1, <2>3, <2>4
  <1>8. ASSUME ListenerLost PROVE RelayInv'
    BY <1>8, EmptyRises DEF ListenerLost
  <1>9. ASSUME ListenerBack PROVE RelayInv'
    BY <1>9 DEF ListenerBack
  <1>10. ASSUME DrainTake PROVE RelayInv'
    <2>1. /\ queue # << >> /\ queue' = Tail(queue) /\ drainer = Waiting
          /\ \/ drainer' = Waiting
             \/ drainer' = [at |-> "write", frame |-> Head(queue), socket |-> writer] /\ writer \in Sockets
          /\ UNCHANGED <<hubVars, listenVars, mapped, stopping, written>>
      BY <1>10 DEF DrainTake, Writing
    <2>2. /\ queue' \in Seq(Nat) /\ Increasing(queue') /\ Head(queue) \in Nat
          /\ Head(queue) \in Range(queue) /\ Range(queue') \subseteq Range(queue)
          /\ Before({Head(queue)}, Range(queue'))
      BY <2>1, TailRises
    <2>3. RelayTyped' /\ QueueServed'
      BY <2>1, <2>2
    <2>4. Hand' \subseteq {Head(queue)}
      BY <2>1
    <2>5. Pending' = Pending /\ Range(inbox') = Range(inbox) /\ Range(written') = Range(written)
      BY <2>1
    <2>6. FramesLineUp'
      <3> HIDE DEF Hand, Pending
      <3> QED
        BY <2>1, <2>2, <2>4, <2>5
    <2> QED
      BY <2>1, <2>3, <2>6
  <1>11. ASSUME DrainWrite PROVE RelayInv'
    <2>1. /\ drainer \in [at : {"write"}, frame : Nat, socket : Sockets] /\ drainer' = Waiting
          /\ written' = Append(written, drainer.frame) \/ written' = written
          /\ UNCHANGED <<hubVars, listenVars, queue, mapped, stopping>>
      BY <1>11 DEF DrainWrite
    <2>2. Hand = {drainer.frame} /\ Hand' = {} /\ Pending' = Pending
      BY <2>1
    <2>3. /\ written' \in Seq(Nat) /\ Increasing(written')
          /\ Range(written') \subseteq Range(written) \union {drainer.frame}
      <3>1. /\ written \in Seq(Nat) /\ Increasing(written)
            /\ drainer.frame \in Nat /\ Before(Range(written), {drainer.frame})
        BY <2>1, <2>2
      <3> HIDE DEF RelayInv, Before
      <3> QED
        BY <2>1, <3>1, AppendRises
    <2>4. FramesLineUp'
      <3> HIDE DEF Hand, Pending
      <3> QED
        BY <2>1, <2>2, <2>3
    <2>5. QueueServed'
      BY <2>1
    <2> QED
      BY <2>1, <2>3, <2>4, <2>5
  <1>12. ASSUME DrainIdle PROVE RelayInv'
    BY <1>12 DEF DrainIdle
  <1>13. ASSUME DrainExit PROVE RelayInv'
    <2>1. /\ drainer = Expired
          /\ \/ queue = << >> /\ mapped' = FALSE /\ drainer' = Gone
             \/ mapped' = mapped /\ drainer' = Waiting
          /\ UNCHANGED <<hubVars, listenVars, queue, stopping, written>>
      BY <1>13 DEF DrainExit, MayLeave
    <2>2. Hand = {} /\ Hand' = {} /\ Pending' = Pending
      BY <2>1
    <2>3. FramesLineUp'
      <3> HIDE DEF Hand, Pending
      <3> QED
        BY <2>1, <2>2
    <2>4. RelayTyped'
      BY <2>1
    <2>5. QueueServed'
      BY <2>1
    <2> QED
      BY <2>1, <2>3, <2>4, <2>5
  <1>14. ASSUME Stop PROVE RelayInv'
    BY <1>14 DEF Stop
  <1>15. ASSUME DrainStops PROVE RelayInv'
    BY <1>15 DEF DrainStops
  <1>16. ASSUME UNCHANGED rlVars PROVE RelayInv'
    BY <1>16 DEF rlVars
  <1> QED
    BY <1>1, <1>2, <1>3, <1>4, <1>5, <1>6, <1>7, <1>8, <1>9, <1>10, <1>11, <1>12, <1>13, <1>14,
       <1>15, <1>16 DEF RelayNext

\* A frame that waits has a goroutine to write it, the newest socket is the one
\* written to, and frames keep their order: the hub and its relay for any
\* sockets and queue size.  Needs FramesLineUp, where each frame is on its way,
\* and QueueServed, who is responsible for a queue while its goroutine gives up.
THEOREM RelayHolds == RelaySpec => []RelaySound
PROOF
  <1>1. RelayInv => RelaySound
    BY DEF RelayInv, RelayTyped, QueueServed, FramesLineUp, Increasing, RelaySound, QueueHasDrainer,
           RelayedInOrder
  <1> QED
    BY RelayInitial, RelayStep, <1>1, PTL DEF RelaySpec
-----------------------------------------------------------------------------
(* PlayerSessions *)

Tokens == [status : {"live", "rotated", "logout", "reuse_detected"}, parent : Nat]

RequestStates ==
  {Idle} \union [kind : {"refresh"}, token : Nat] \union [kind : {"revoke"}, from : Nat]
    \union [kind : {"mint"}]
    \union [kind : {"confirm"}, answer : Nat, code : Nat, clears : BOOLEAN, from : Nat]

Challenged == [code : Nat, attempts : Nat, lifetime : Nat, lock : {"no", "yes", "over"}]

SessionsTyped ==
  /\ Newest \in Nat /\ token \in [1..Newest -> Tokens]
  /\ request \in [Requests -> RequestStates]
  /\ challenge \in Challenged
  /\ codes \in Nat

\* Successors of a session.
Heirs(t) == {s \in Issued : token[s].parent = t}

\* RotatedOnce: a rotated session has one successor and another none; no
\* session is the successor of one still to come.
RotatedOnce ==
  /\ \A s \in Issued : token[s].parent <= Newest
  /\ \A t \in Issued : IF token[t].status = "rotated" THEN \E s \in Issued : Heirs(t) = {s}
                        ELSE Heirs(t) = {}

SessionsInv == SessionsTyped /\ RotatedOnce

\* Sessions are counted by their numbers.
LEMMA NewestCounts ==
  ASSUME NEW n \in Nat, NEW S, NEW f \in [1..n -> S], token' = f
  PROVE  Newest' = n
PROOF
  <1>1. Issued' = 1..n
    BY DEF Issued
  <1> QED
    BY <1>1, FS_Interval DEF Newest

\* A new player has no session and no code.
LEMMA SessionsInitial == SessionsInit => SessionsInv
PROOF
  <1> SUFFICES ASSUME SessionsInit PROVE SessionsInv
    OBVIOUS
  <1>1. Issued = {} /\ Newest = 0
    BY FS_EmptySet DEF SessionsInit, Issued, Newest
  <1>2. token \in [1..0 -> Tokens]
    BY <1>1 DEF SessionsInit, Issued
  <1> QED
    BY <1>1, <1>2
    DEF SessionsInit, SessionsInv, SessionsTyped, RotatedOnce, RequestStates, Challenged, Idle, NoCode

\* A new session, of no parent or of a live one that is rotated with it.
LEMMA SessionAdded ==
  ASSUME SessionsInv, NEW n \in Nat, Newest = n, NEW t \in 0..n,
         NEW f \in [1..(n + 1) -> Tokens], token' = f,
         f[n + 1] = [status |-> "live", parent |-> t],
         \A s \in 1..n : /\ f[s].parent = token[s].parent
                         /\ f[s].status = IF s = t THEN "rotated" ELSE token[s].status,
         t # 0 => token[t].status = "live"
  PROVE  Newest' \in Nat /\ token' \in [1..Newest' -> Tokens] /\ RotatedOnce'
PROOF
  <1>1. token \in [1..n -> Tokens] /\ Issued = 1..n
    BY DEF SessionsInv, SessionsTyped, Issued
  <1>2. Newest' = n + 1 /\ Issued' = 1..(n + 1)
    <2>1. n + 1 \in Nat /\ DOMAIN token' = 1..(n + 1)
      OBVIOUS
    <2>2. Newest' = n + 1
      BY Zenon, <2>1, NewestCounts
    <2> QED
      BY <2>1, <2>2 DEF Issued
  <1>3. \A s \in 1..n : token[s].parent \in Nat /\ token[s].parent <= n
    BY <1>1 DEF SessionsInv, RotatedOnce, Tokens
  <1>4. \A s \in Issued' : token'[s].parent <= Newest'
    BY <1>2, <1>3
  <1>5. \A u \in 1..n : Heirs(u)' = IF u = t THEN Heirs(u) \union {n + 1} ELSE Heirs(u)
    BY <1>1, <1>2 DEF Heirs
  <1>6. Heirs(n + 1)' = {}
    BY <1>2, <1>3 DEF Heirs
  <1>7. ASSUME NEW u \in 1..(n + 1)
        PROVE  IF token'[u].status = "rotated" THEN \E s \in Issued' : Heirs(u)' = {s} ELSE Heirs(u)' = {}
    <2>1. CASE u = n + 1
      BY <1>6, <2>1
    <2>2. CASE u = t /\ u \in 1..n
      <3>1. Heirs(t) = {}
        BY <1>1, <2>2 DEF SessionsInv, RotatedOnce
      <3> QED
        BY <1>2, <1>5, <2>2, <3>1
    <2>3. CASE u \in 1..n /\ u # t
      <3>1. /\ Heirs(u)' = Heirs(u) /\ token'[u].status = token[u].status
            /\ Issued \subseteq Issued' /\ u \in Issued
        BY <1>1, <1>2, <1>5, <2>3
      <3>2. IF token[u].status = "rotated" THEN \E s \in Issued : Heirs(u) = {s} ELSE Heirs(u) = {}
        BY <3>1 DEF SessionsInv, RotatedOnce
      <3> QED
        BY <3>1, <3>2
    <2> QED
      BY <2>1, <2>2, <2>3
  <1> QED
    BY <1>2, <1>4, <1>7 DEF RotatedOnce

\* SameEnd: a session keeps its parent, and is rotated if it was.
SameEnd(s) ==
  /\ token'[s].parent = token[s].parent
  /\ token'[s].status = "rotated" <=> token[s].status = "rotated"

\* Live sessions end without a successor.
LEMMA SessionsEnd ==
  ASSUME SessionsInv, token' \in [1..Newest -> Tokens],
         \A s \in 1..Newest : SameEnd(s)
  PROVE  Newest' \in Nat /\ token' \in [1..Newest' -> Tokens] /\ RotatedOnce'
PROOF
  <1>0. PICK n \in Nat : Newest = n
    BY DEF SessionsInv, SessionsTyped
  <1>1. Newest' = n
    BY Zenon, <1>0, NewestCounts
  <1>2. Issued = 1..n /\ Issued' = 1..n
    BY <1>0 DEF SessionsInv, SessionsTyped, Issued
  <1>3. \A t \in Issued : Heirs(t)' = Heirs(t)
    BY <1>0, <1>2 DEF Heirs, SameEnd
  <1> QED
    BY <1>0, <1>1, <1>2, <1>3 DEF SessionsInv, RotatedOnce, SameEnd

\* Every statement of sign-in, refresh, revocation and reset keeps the invariant,
\* and the one that clears the code answers the code that is live.
LEMMA SessionsStep ==
  SessionsInv /\ [SessionsNext]_pxVars => SessionsInv' /\ [ResetByLiveCode]_pxVars
PROOF
  <1> DEFINE Goal == SessionsInv' /\ ResetByLiveCode
  <1> SUFFICES ASSUME SessionsInv, [SessionsNext]_pxVars
               PROVE  SessionsInv' /\ [ResetByLiveCode]_pxVars
    OBVIOUS
  <1>0. PICK n \in Nat : /\ Newest = n /\ Issued = 1..n /\ token \in [1..n -> Tokens]
    BY DEF SessionsInv, SessionsTyped, Issued
  <1>0a. UNCHANGED token => /\ Newest' \in Nat /\ token' \in [1..Newest' -> Tokens] /\ RotatedOnce'
    BY <1>0, SessionsEnd DEF SameEnd
  <1>0b. ASSUME UNCHANGED token, request' \in [Requests -> RequestStates], challenge' \in Challenged,
                codes' \in Nat, challenge'.code # NoCode \/ challenge'.code = challenge.code
         PROVE Goal
    BY <1>0a, <1>0b DEF SessionsInv, SessionsTyped, ResetByLiveCode
  <1>0c. /\ request \in [Requests -> RequestStates] /\ challenge \in Challenged /\ codes \in Nat
    BY DEF SessionsInv, SessionsTyped
  <1>0d. ASSUME NEW k, token' = RevokeActive(k)
         PROVE  /\ Newest' \in Nat /\ token' \in [1..Newest' -> Tokens] /\ RotatedOnce'
    <2>1. \A t \in 1..n : [token[t] EXCEPT !.status = "reuse_detected"] =
                          [status |-> "reuse_detected", parent |-> token[t].parent]
      BY <1>0 DEF Tokens
    <2>2. /\ RevokeActive(k) \in [1..n -> Tokens]
          /\ \A t \in 1..n : /\ RevokeActive(k)[t].parent = token[t].parent
                             /\ RevokeActive(k)[t].status = "rotated" <=> token[t].status = "rotated"
      BY <1>0, <2>1 DEF RevokeActive, Live, Tokens
    <2> QED
      <3>1. /\ token' \in [1..n -> Tokens]
            /\ \A s \in 1..n : SameEnd(s)
        BY Zenon, <1>0d, <2>2 DEF SameEnd
      <3>2. token' \in [1..Newest -> Tokens] /\ \A s \in 1..Newest : SameEnd(s)
        BY <1>0, <3>1
      <3> QED
        BY Zenon, <3>2, SessionsEnd
  <1>1. ASSUME Login PROVE Goal
    <2> DEFINE f == [t \in 1..(n + 1) |-> IF t <= n THEN token[t] ELSE [status |-> "live", parent |-> 0]]
    <2>1. token' = f
      BY <1>0, <1>1 DEF Login, With, NoParent
    <2>2. /\ f \in [1..(n + 1) -> Tokens] /\ f[n + 1] = [status |-> "live", parent |-> 0]
          /\ \A s \in 1..n : f[s] = token[s]
      BY <1>0 DEF Tokens
    <2> HIDE DEF f
    <2>3. Newest' \in Nat /\ token' \in [1..Newest' -> Tokens] /\ RotatedOnce'
      BY <1>0, <2>1, <2>2, SessionAdded
    <2> QED
      BY <1>0c, <1>1, <2>3 DEF Login, SessionsInv, SessionsTyped, ResetByLiveCode
  <1>2. ASSUME NEW t \in Issued, Logout(t) PROVE Goal
    <2> DEFINE f == [token EXCEPT ![t] = [token[t] EXCEPT !.status = "logout"]]
    <2>1. token' = f /\ token[t].status = "live"
      BY <1>2 DEF Logout, Live
    <2>2. [token[t] EXCEPT !.status = "logout"] = [status |-> "logout", parent |-> token[t].parent]
      BY <1>0 DEF Tokens
    <2>3. /\ f \in [1..n -> Tokens]
          /\ \A s \in 1..n : /\ f[s].parent = token[s].parent
                             /\ f[s].status = "rotated" <=> token[s].status = "rotated"
      BY <1>0, <2>1, <2>2 DEF Tokens
    <2> HIDE DEF f
    <2>4. Newest' \in Nat /\ token' \in [1..Newest' -> Tokens] /\ RotatedOnce'
      <3>1. /\ token' \in [1..n -> Tokens]
            /\ \A s \in 1..n : SameEnd(s)
        BY Zenon, <2>1, <2>3 DEF SameEnd
      <3>2. token' \in [1..Newest -> Tokens] /\ \A s \in 1..Newest : SameEnd(s)
        BY <1>0, <3>1
      <3> QED
        BY Zenon, <3>2, SessionsEnd
    <2> QED
      BY <1>0c, <1>2, <2>4 DEF Logout, SessionsInv, SessionsTyped, ResetByLiveCode
  <1>3. ASSUME NEW r \in Requests, NEW t \in Issued, RefreshRead(r, t) PROVE Goal
    BY <1>0, <1>0b, <1>0c, <1>3 DEF RefreshRead, Starts, RequestStates
  <1>4. ASSUME NEW r \in Requests, NEW t \in Issued, ReuseRead(r, t) PROVE Goal
    BY <1>0, <1>0b, <1>0c, <1>4 DEF ReuseRead, Starts, RequestStates
  <1>5. ASSUME NEW r \in Requests, RefreshCommit(r) PROVE Goal
    <2> DEFINE t == request[r].token
               kept == [token EXCEPT ![t] = [token[t] EXCEPT !.status = "rotated"]]
               f == [s \in 1..(n + 1) |-> IF s <= n THEN kept[s] ELSE [status |-> "live", parent |-> t]]
    <2>1. /\ token' = f /\ t \in 1..n /\ token[t].status = "live"
          /\ request' = [request EXCEPT ![r] = Idle]
          /\ UNCHANGED <<challenge, codes>>
      BY <1>0, <1>5 DEF RefreshCommit, RevokesRow, Live, With, Ends
    <2>2. [token[t] EXCEPT !.status = "rotated"] = [status |-> "rotated", parent |-> token[t].parent]
      BY <1>0, <2>1, SMTT(60) DEF Tokens
    <2>3. \A s \in 1..n : /\ kept[s] \in Tokens /\ kept[s].parent = token[s].parent
                          /\ kept[s].status = IF s = t THEN "rotated" ELSE token[s].status
      BY <1>0, <2>1, <2>2 DEF Tokens
    <2> HIDE DEF kept
    <2>4. /\ f \in [1..(n + 1) -> Tokens] /\ f[n + 1] = [status |-> "live", parent |-> t]
          /\ \A s \in 1..n : f[s] = kept[s]
      BY <1>0, <2>1, <2>3 DEF Tokens
    <2> HIDE DEF f, t
    <2>5. Newest' \in Nat /\ token' \in [1..Newest' -> Tokens] /\ RotatedOnce'
      <3>1. \A s \in 1..n : /\ f[s].parent = token[s].parent
                            /\ f[s].status = IF s = t THEN "rotated" ELSE token[s].status
        BY <2>3, <2>4
      <3>2. t \in 0..n /\ t # 0 /\ Newest = n
        BY <1>0, <2>1
      <3> QED
        BY <2>1, <2>4, <3>1, <3>2, SessionAdded
    <2>6. request' \in [Requests -> RequestStates]
      BY <1>0c, <2>1 DEF RequestStates
    <2> QED
      BY <1>0c, <2>1, <2>5, <2>6 DEF SessionsInv, SessionsTyped, ResetByLiveCode
  <1>6. ASSUME NEW r \in Requests, RevokeRead(r) PROVE Goal
    BY <1>0, <1>0b, <1>0c, <1>6 DEF RevokeRead, Starts, RequestStates
  <1>7. ASSUME NEW r \in Requests, ResetRead(r) PROVE Goal
    BY <1>0b, <1>0c, <1>7 DEF ResetRead, Starts, RequestStates
  <1>8. ASSUME NEW r \in Requests, ResetMint(r) PROVE Goal
    <2>1. /\ request' = [request EXCEPT ![r] = Idle] /\ codes' = codes + 1 /\ UNCHANGED token
          /\ challenge' = [code |-> codes + 1, attempts |-> 0, lifetime |-> challenge.lifetime,
                           lock |-> challenge.lock]
      BY <1>0c, <1>8 DEF ResetMint, Ends, Challenged
    <2> QED
      BY <1>0b, <1>0c, <2>1 DEF RequestStates, Challenged, NoCode
  <1>9. ASSUME NEW r \in Requests, NEW answer \in 0..codes, ConfirmRead(r, answer) PROVE Goal
    BY <1>0, <1>0b, <1>0c, <1>9 DEF ConfirmRead, Starts, RequestStates, Challenged
  <1>10. ASSUME NEW r \in Requests, ConfirmRefused(r) PROVE Goal
    <2>1. /\ request[r] \in [kind : {"confirm"}, answer : Nat, code : Nat, clears : BOOLEAN, from : Nat]
          /\ request' = [request EXCEPT ![r] = Idle] /\ UNCHANGED <<token, codes>>
          /\ challenge' \in {Reserved(r), [Reserved(r) EXCEPT !.lock = "yes"]}
      BY <1>0c, <1>10 DEF ConfirmRefused, Ends, RequestStates, Idle
    <2>2. PICK lifetime \in Nat, lock \in {"no", "yes", "over"} :
            Reserved(r) = [code |-> challenge.code, attempts |-> challenge.attempts + 1,
                           lifetime |-> lifetime, lock |-> lock]
      <3> DEFINE clears == request[r].clears
                 lifetime == (IF clears THEN 0 ELSE challenge.lifetime) + 1
                 lock == IF clears THEN "no" ELSE challenge.lock
      <3>1. Reserved(r) = [code |-> challenge.code, attempts |-> challenge.attempts + 1,
                           lifetime |-> lifetime, lock |-> lock]
        BY Zenon DEF Reserved
      <3> HIDE DEF clears
      <3>2. challenge.lifetime \in Nat /\ challenge.lock \in {"no", "yes", "over"}
        BY <1>0c DEF Challenged
      <3>3. lifetime \in Nat /\ lock \in {"no", "yes", "over"}
        BY <3>2
      <3> HIDE DEF lifetime, lock
      <3> QED
        BY Zenon, <3>1, <3>3
    <2>3. /\ challenge' \in Challenged /\ challenge'.code = challenge.code
      BY <1>0c, <2>1, <2>2 DEF Challenged
    <2> QED
      BY <1>0b, <1>0c, <2>1, <2>3 DEF RequestStates
  <1>11. ASSUME NEW r \in Requests, NEW k \in 0..Newest, RevokeCommit(r, k) PROVE Goal
    BY <1>0c, <1>0d, <1>11
    DEF RevokeCommit, Ends, RequestStates, SessionsInv, SessionsTyped, ResetByLiveCode
  <1>12. ASSUME NEW r \in Requests, NEW k \in 0..Newest, ConfirmCompletes(r, k) PROVE Goal
    BY <1>0c, <1>0d, <1>12
    DEF ConfirmCompletes, Ends, PinnedToCode, RequestStates, Challenged, SessionsInv, SessionsTyped,
        ResetByLiveCode, NoCode
  <1>13. ASSUME NEW r \in Requests, SignInFails(r) PROVE Goal
    BY <1>0b, <1>0c, <1>13 DEF SignInFails, RequestStates
  <1>14. ASSUME LockoutEnds PROVE Goal
    BY <1>0b, <1>0c, <1>14 DEF LockoutEnds, Challenged
  <1>15. ASSUME UNCHANGED pxVars PROVE SessionsInv'
    BY <1>0a, <1>15 DEF pxVars, SessionsInv, SessionsTyped
  <1> QED
    BY <1>1, <1>2, <1>3, <1>4, <1>5, <1>6, <1>7, <1>8, <1>9, <1>10, <1>11, <1>12, <1>13, <1>14,
       <1>15 DEF SessionsNext

\* A refresh token has one successor if it was rotated and none otherwise, and a
\* reset completes by the live code only: authRefresh, authLogout, the
\* revocations and resetConfirm, for any number of requests.  RotatedOnce names
\* the successor that the property counts.
THEOREM SignInsHold == SessionsSpec => SignInsSound
PROOF
  <1>1. SessionsInv => ExchangedOnce
    <2> SUFFICES ASSUME SessionsInv, NEW t \in Issued
                 PROVE  Cardinality(Heirs(t)) = IF token[t].status = "rotated" THEN 1 ELSE 0
      BY DEF ExchangedOnce, Heirs
    <2> QED
      BY FS_EmptySet, FS_Singleton DEF SessionsInv, RotatedOnce
  <1> QED
    BY SessionsInitial, SessionsStep, <1>1, PTL DEF SessionsSpec, SignInsSound

-----------------------------------------------------------------------------
(* The connection cap of a tenant *)

Envelopes == Caps \union {NoCaps}
LocalGrants == [caps : Envelopes, allocated : Nat, used : Nat, emergency : Nat, valid : BOOLEAN]
GrantRows == [kind : {"row"}, allocated : Nat, live : BOOLEAN]

CapTyped ==
  /\ up \subseteq Holders /\ astray \subseteq Holders
  /\ local \in [Holders -> LocalGrants]
  /\ renewal \in [Holders -> {"idle", "read", "renewed"}]
  /\ grant \in [Holders -> {NoRow} \union GrantRows]

\* The permits of the rows whose lease runs.
LivePermits == Permits([g \in LiveRows |-> grant[g].allocated])

\* What a process that heard its last Sync can tell from its own grant: a grant that
\* is valid has its row; a renewal is only answered for a live row; and a row that
\* is there is as large as the process believes.
Backed(h) ==
  /\ local[h].used <= local[h].allocated
  /\ h \notin astray =>
       /\ local[h].valid /\ local[h].allocated > 0 => RowLive(h)
       /\ renewal[h] = "renewed" /\ local[h].used > 0 => RowLive(h)
       /\ local[h].used > 0 /\ HasRow(h) => grant[h].allocated = local[h].allocated
       /\ local[h].valid /\ local[h].allocated > 0 => grant[h].allocated = local[h].allocated

GrantsHold == \A h \in up : Backed(h)

\* While no lease ended under open sockets and no answer was lost, open sockets
\* have a live row, and the live rows fit under one of the ceilings.
RowsHold ==
  /\ IsFiniteSet(LivePermits)
  /\ ~strained => /\ astray = {}
                  /\ \A h \in up : local[h].used > 0 => RowLive(h)
                  /\ \E c \in Caps : Cardinality(LivePermits) <= c.ceiling

CapInv == CapTyped /\ GrantsHold /\ RowsHold

\* A permit is a process and a number up to what the process has.
LEMMA PermitsShape ==
  ASSUME NEW n, NEW p
  PROVE  p \in Permits(n) <=> \E g \in DOMAIN n : \E i \in 1..n[g] : p = <<g, i>>
PROOF
  <1>1. p \in Permits(n) <=> \E g \in DOMAIN n : p \in {g} \X (1..n[g])
    BY DEF Permits
  <1>2. ASSUME NEW g PROVE p \in {g} \X (1..n[g]) <=> \E i \in 1..n[g] : p = <<g, i>>
    OBVIOUS
  <1> QED
    BY <1>1, <1>2

\* The permits of one process, and the bytes of one object, are as many as their
\* number says.
LEMMA Numbered ==
  ASSUME NEW h, NEW a \in Nat
  PROVE  IsFiniteSet({h} \X (1..a)) /\ Cardinality({h} \X (1..a)) = a
PROOF
  <1>1. IsFiniteSet({h}) /\ Cardinality({h}) = 1
    BY FS_Singleton
  <1>2. IsFiniteSet(1..a) /\ Cardinality(1..a) = a
    BY FS_Interval
  <1>3. /\ IsFiniteSet({h} \X (1..a))
        /\ Cardinality({h} \X (1..a)) = Cardinality({h}) * Cardinality(1..a)
    BY <1>1, <1>2, FS_Product
  <1> QED
    BY <1>1, <1>2, <1>3

\* newLeasedConnectionCap: no process has a grant, and there are no rows.
LEMMA CapInitial == CapInit => CapInv
PROOF
  <1> SUFFICES ASSUME CapInit PROVE CapInv
    OBVIOUS
  <1>1. CapTyped
    <2>1. Fresh \in LocalGrants
      <3>1. FALSE \in BOOLEAN
        BY Zenon
      <3> QED
        BY <3>1 DEF Fresh, LocalGrants, Envelopes
    <2> QED
      BY <2>1 DEF CapInit, CapTyped
  <1>2. ASSUME NEW h \in Holders PROVE local[h].used = 0 /\ local[h].allocated = 0 /\ ~local[h].valid /\ ~HasRow(h)
    BY DEF CapInit, Fresh, HasRow
  <1>3. GrantsHold
    BY <1>1, <1>2 DEF GrantsHold, Backed, CapTyped
  <1>4. LivePermits = {}
    <2>1. LiveRows = {}
      BY <1>2 DEF LiveRows, RowLive
    <2> QED
      BY <2>1 DEF LivePermits, Permits
  <1>5. PICK c \in Caps : c.ceiling \in Nat
    BY CapAssumption
  <1>6. RowsHold
    BY <1>1, <1>2, <1>4, <1>5, FS_EmptySet DEF RowsHold, CapInit
  <1> QED
    BY <1>1, <1>3, <1>6 DEF CapInv

\* Sync: what it makes of the rows, for any process and limit.
LEMMA SyncRows ==
  ASSUME CapInv, NEW h \in Holders, NEW used \in Nat, NEW limit \in Nat, Sync(h, used, limit)
  PROVE  /\ Share(h, used, limit) \in Nat /\ Share(h, used, limit) >= used
         /\ grant' \in [Holders -> {NoRow} \union GrantRows]
         /\ \A g \in Holders \ {h} : grant'[g] = IF RowLive(g) THEN grant[g] ELSE NoRow
         /\ Share(h, used, limit) > 0 \/ used > 0 => grant'[h] = Row(Share(h, used, limit))
         /\ IsFiniteSet(LivePermits')
         /\ (used > 0 => RowLive(h) /\ used <= grant[h].allocated)
              => Cardinality(LivePermits') <= limit \/ Cardinality(LivePermits') <= Cardinality(LivePermits)
PROOF
  <1>1. PICK O : O = Permits([g \in LiveRows \ {h} |-> grant[g].allocated])
    OBVIOUS
  <1>2. PICK L : L = LivePermits
    OBVIOUS
  <1>3. PICK M : M = LivePermits'
    OBVIOUS
  <1>4. PICK a : a = Share(h, used, limit)
    OBVIOUS
  <1>5. \A p : p \in L <=> \E g \in LiveRows : \E i \in 1..grant[g].allocated : p = <<g, i>>
    BY <1>2, PermitsShape DEF LivePermits
  <1>6. \A p : p \in O <=> \E g \in LiveRows \ {h} : \E i \in 1..grant[g].allocated : p = <<g, i>>
    BY <1>1, PermitsShape
  <1>7. \A p : p \in M <=> \E g \in LiveRows' : \E i \in 1..grant'[g].allocated : p = <<g, i>>
    BY <1>3, PermitsShape DEF LivePermits
  <1>8. O \subseteq L
    BY <1>5, <1>6
  <1>9. IsFiniteSet(L) /\ IsFiniteSet(O) /\ Cardinality(O) \in Nat /\ Cardinality(O) <= Cardinality(L) /\ Cardinality(L) \in Nat
    BY <1>2, <1>8, FS_Subset, FS_CardinalityType DEF CapInv, RowsHold
  <1>10. Block \in Nat \ {0}
    BY CapAssumption
  <1>11. /\ a \in Nat /\ a >= used
         /\ Cardinality(O) + a <= limit \/ a = used
    <2>1. PICK m \in Nat : m = Cardinality(O)
      BY <1>9
    <2>2. AllocatedToOthers(h) = m
      BY <1>1, <2>1 DEF AllocatedToOthers
    <2>3. PICK room : room = Larger(0, limit - m)
      OBVIOUS
    <2>4. room \in Nat /\ (room = 0 \/ m + room = limit)
      BY <2>3 DEF Larger
    <2>5. a = Larger(Smaller(used + Block, room), used)
      BY <1>4, <2>2, <2>3 DEF Share
    <2>6. a \in Nat /\ a >= used /\ (a = used \/ a <= room)
      BY <2>4, <2>5, <1>10 DEF Larger, Smaller
    <2> QED
      BY <2>1, <2>4, <2>6
  <1>12. Row(a) \in GrantRows /\ Row(a) # NoRow
    <2>1. TRUE \in BOOLEAN
      BY Zenon
    <2> QED
      BY <2>1, <1>11 DEF Row, GrantRows, NoRow
  <1>13. grant' = [g \in Holders |-> IF g = h /\ (a > 0 \/ used > 0) THEN Row(a)
                                     ELSE IF RowLive(g) THEN grant[g] ELSE NoRow]
    BY <1>4 DEF Sync
  <1>14. grant' \in [Holders -> {NoRow} \union GrantRows]
    BY <1>12, <1>13 DEF CapInv, CapTyped
  <1>15. \A g \in Holders \ {h} : grant'[g] = IF RowLive(g) THEN grant[g] ELSE NoRow
    BY <1>13
  <1>16. a > 0 \/ used > 0 => grant'[h] = Row(a)
    BY <1>13
  <1>17. \A g \in Holders \ {h} : g \in LiveRows' <=> g \in LiveRows
    BY <1>15 DEF LiveRows, RowLive, HasRow
  <1>18. \A g \in LiveRows \ {h} : grant'[g] = grant[g]
    BY <1>15 DEF LiveRows
  <1>19. LiveRows \subseteq Holders /\ LiveRows' \subseteq Holders
    BY DEF LiveRows
  <1>20. CASE ~(a > 0 \/ used > 0)
    <2>1. grant'[h] = IF RowLive(h) THEN grant[h] ELSE NoRow
      BY <1>13, <1>20
    <2>2. h \in LiveRows' <=> h \in LiveRows
      BY <2>1 DEF LiveRows, RowLive, HasRow
    <2>3. LiveRows' = LiveRows
      BY <2>2, <1>17, <1>19
    <2>4. \A g \in LiveRows : grant'[g] = grant[g]
      BY <2>1, <1>18 DEF LiveRows
    <2>5. M = L
      BY <2>3, <2>4, <1>5, <1>7
    <2> QED
      BY <1>2, <1>3, <1>4, <1>9, <1>11, <1>14, <1>15, <1>16, <2>5
  <1>21. CASE a > 0 \/ used > 0
    <2>1. grant'[h] = Row(a)
      BY <1>16, <1>21
    <2>2. h \in LiveRows' /\ grant'[h].allocated = a
      BY <2>1, <1>12 DEF LiveRows, RowLive, HasRow, Row
    <2>3. PICK Q : Q = {h} \X (1..a)
      OBVIOUS
    <2>4. IsFiniteSet(Q) /\ Cardinality(Q) = a
      BY <2>3, <1>11, Numbered
    <2>5. \A p : p \in Q <=> \E i \in 1..a : p = <<h, i>>
      BY <2>3
    <2>6. M = O \union Q
      <3>1. ASSUME NEW p \in M PROVE p \in O \union Q
        <4>1. PICK g, i : g \in LiveRows' /\ i \in 1..grant'[g].allocated /\ p = <<g, i>>
          BY <1>7
        <4>2. CASE g = h
          BY <4>1, <4>2, <2>2, <2>5
        <4>3. CASE g # h
          <5>1. g \in LiveRows \ {h}
            BY <4>1, <4>3, <1>17, <1>19
          <5>2. grant'[g] = grant[g]
            BY <5>1, <1>18
          <5> QED
            BY <4>1, <5>1, <5>2, <1>6
        <4> QED
          BY <4>2, <4>3
      <3>2. ASSUME NEW p \in O PROVE p \in M
        <4>1. PICK g, i : g \in LiveRows \ {h} /\ i \in 1..grant[g].allocated /\ p = <<g, i>>
          BY <1>6
        <4>2. g \in LiveRows' /\ grant'[g] = grant[g]
          BY <4>1, <1>17, <1>18, <1>19
        <4> QED
          BY <4>1, <4>2, <1>7
      <3>3. ASSUME NEW p \in Q PROVE p \in M
        BY <2>2, <2>5, <1>7
      <3> QED
        BY <3>1, <3>2, <3>3
    <2>7. O \cap Q = {}
      BY <1>6, <2>5
    <2>8. IsFiniteSet(M) /\ Cardinality(M) = Cardinality(O) + a
      <3>1. IsFiniteSet(M) /\ Cardinality(M) = Cardinality(O) + Cardinality(Q) - Cardinality(O \cap Q)
        BY <1>9, <2>4, <2>6, FS_Union
      <3> QED
        BY <3>1, <1>9, <1>11, <2>4, <2>7, FS_EmptySet
    <2>9. ASSUME used > 0 => RowLive(h) /\ used <= grant[h].allocated
          PROVE  Cardinality(M) <= limit \/ Cardinality(M) <= Cardinality(L)
      <3>1. CASE Cardinality(O) + a <= limit
        BY <2>8, <3>1
      <3>2. CASE a = used
        <4>1. RowLive(h) /\ used <= grant[h].allocated
          BY <1>21, <2>9, <3>2
        <4>2. h \in LiveRows /\ grant[h].allocated \in Nat
          BY <4>1 DEF LiveRows, RowLive, HasRow, CapInv, CapTyped, GrantRows
        <4>3. Q \subseteq L
          <5> SUFFICES ASSUME NEW p \in Q PROVE p \in L
            OBVIOUS
          <5>1. PICK i \in 1..a : p = <<h, i>>
            BY <2>5
          <5>2. i \in 1..grant[h].allocated
            BY <3>2, <4>1, <4>2
          <5> QED
            BY <5>1, <5>2, <4>2, <1>5
        <4>4. M \subseteq L
          BY <4>3, <2>6, <1>8
        <4> QED
          BY <4>4, <1>9, FS_Subset
      <3> QED
        BY <3>1, <3>2, <1>11
    <2> QED
      BY <1>2, <1>3, <1>4, <1>11, <1>14, <1>15, <1>16, <2>8, <2>9
  <1> QED
    BY <1>20, <1>21

\* Rows that end or shrink leave fewer permits.
LEMMA RowsFewer ==
  ASSUME CapInv, \A g \in Holders : RowLive(g)' => RowLive(g) /\ grant'[g].allocated = grant[g].allocated
  PROVE  IsFiniteSet(LivePermits') /\ (~strained => \E c \in Caps : Cardinality(LivePermits') <= c.ceiling)
PROOF
  <1>1. PICK L : L = LivePermits
    OBVIOUS
  <1>2. PICK M : M = LivePermits'
    OBVIOUS
  <1>3. \A p : p \in L <=> \E g \in LiveRows : \E i \in 1..grant[g].allocated : p = <<g, i>>
    BY <1>1, PermitsShape DEF LivePermits
  <1>4. \A p : p \in M <=> \E g \in LiveRows' : \E i \in 1..grant'[g].allocated : p = <<g, i>>
    BY <1>2, PermitsShape DEF LivePermits
  <1>5. \A g \in LiveRows' : g \in LiveRows /\ grant'[g].allocated = grant[g].allocated
    BY DEF LiveRows
  <1>6. M \subseteq L
    BY <1>3, <1>4, <1>5
  <1>7. IsFiniteSet(L) /\ IsFiniteSet(M) /\ Cardinality(M) <= Cardinality(L) /\ Cardinality(L) \in Nat /\ Cardinality(M) \in Nat
    BY <1>1, <1>6, FS_Subset, FS_CardinalityType DEF CapInv, RowsHold
  <1>8. ASSUME ~strained PROVE \E c \in Caps : Cardinality(M) <= c.ceiling
    <2>1. PICK c \in Caps : Cardinality(L) <= c.ceiling
      BY <1>1, <1>8 DEF CapInv, RowsHold
    <2>2. c.ceiling \in Nat
      BY CapAssumption
    <2> QED
      BY <2>1, <2>2, <1>7
  <1> QED
    BY <1>2, <1>7, <1>8

\* What a step of process h leaves to the others: their grants and renewals, and
\* their rows while the leases of these run.
OthersStay(h) ==
  \A g \in Holders \ {h} :
    /\ local'[g] = local[g] /\ renewal'[g] = renewal[g] /\ (g \in astray => g \in astray')
    /\ RowLive(g) => grant'[g] = grant[g]
    /\ grant'[g] = grant[g] \/ grant'[g] = NoRow

\* A step of one process needs to be looked at only for that process.
LEMMA OneProcess ==
  ASSUME CapInv, NEW h \in Holders, CapTyped', up' \subseteq up, OthersStay(h),
         h \in up' => Backed(h)',
         IsFiniteSet(LivePermits'),
         ~strained' => /\ ~strained /\ astray' \subseteq astray
                       /\ h \in up' /\ local'[h].used > 0 => RowLive(h)'
                       /\ \E c \in Caps : Cardinality(LivePermits') <= c.ceiling
  PROVE  CapInv'
PROOF
  <1>1. ASSUME NEW g \in up' \ {h} PROVE Backed(g)'
    <2>1. Backed(g) /\ g \in Holders \ {h}
      BY DEF CapInv, GrantsHold, CapTyped
    <2>2. /\ local'[g] = local[g] /\ renewal'[g] = renewal[g] /\ (g \in astray => g \in astray')
          /\ RowLive(g) => grant'[g] = grant[g]
          /\ grant'[g] = grant[g] \/ grant'[g] = NoRow
      BY <2>1 DEF OthersStay
    <2>3. RowLive(g) => RowLive(g)'
      BY <2>2 DEF RowLive, HasRow
    <2>4. HasRow(g)' => HasRow(g) /\ grant'[g] = grant[g]
      BY <2>2 DEF HasRow
    <2> QED
      BY <2>1, <2>2, <2>3, <2>4 DEF Backed
  <1>2. ASSUME NEW g \in up' \ {h}, ~strained', local'[g].used > 0 PROVE RowLive(g)'
    <2>1. g \in Holders \ {h} /\ g \in up
      BY DEF CapInv, CapTyped
    <2>2. RowLive(g)
      BY <2>1, <1>2 DEF OthersStay, CapInv, RowsHold
    <2> QED
      BY <2>1, <2>2 DEF OthersStay, RowLive, HasRow
  <1>3. GrantsHold'
    BY <1>1 DEF GrantsHold
  <1>4. RowsHold'
    BY <1>2 DEF RowsHold, CapInv
  <1> QED
    BY <1>3, <1>4 DEF CapInv

\* Rows that nobody writes.
LEMMA RowsAlone ==
  ASSUME CapInv, grant' = grant
  PROVE  /\ IsFiniteSet(LivePermits') /\ (~strained => \E c \in Caps : Cardinality(LivePermits') <= c.ceiling)
         /\ \A g \in Holders : /\ HasRow(g)' <=> HasRow(g)
                               /\ RowLive(g)' <=> RowLive(g)
PROOF
  <1>1. \A g \in Holders : (HasRow(g)' <=> HasRow(g)) /\ (RowLive(g)' <=> RowLive(g))
    BY DEF HasRow, RowLive
  <1> QED
    BY <1>1, RowsFewer

\* Sync keeps the rows under a ceiling, as long as the sockets it is told of were
\* under one: those it was not asked to drop are part of a share it gave before.
LEMMA SyncHolds ==
  ASSUME CapInv, NEW h \in up, NEW used \in Nat, used <= local[h].used,
         NEW c \in Caps, NEW limit \in Limits(c), Sync(h, used, limit), ~strained
  PROVE  \E d \in Caps : Cardinality(LivePermits') <= d.ceiling
PROOF
  <1>1. h \in Holders /\ limit \in Nat /\ limit <= c.ceiling /\ c.ceiling \in Nat
    BY CapAssumption DEF Limits, CapInv, CapTyped
  <1>2. used > 0 => RowLive(h) /\ used <= grant[h].allocated
    <2> SUFFICES ASSUME used > 0 PROVE RowLive(h) /\ used <= grant[h].allocated
      OBVIOUS
    <2>1. local[h].used \in Nat /\ local[h].allocated \in Nat /\ local[h].used > 0
      BY <1>1 DEF CapInv, CapTyped, LocalGrants
    <2>2. h \notin astray /\ RowLive(h)
      BY <2>1 DEF CapInv, RowsHold
    <2>3. grant[h].allocated = local[h].allocated /\ local[h].used <= local[h].allocated
      BY <2>1, <2>2 DEF CapInv, GrantsHold, Backed, RowLive
    <2> QED
      BY <2>1, <2>2, <2>3
  <1>3. /\ IsFiniteSet(LivePermits')
        /\ Cardinality(LivePermits') <= limit \/ Cardinality(LivePermits') <= Cardinality(LivePermits)
    BY <1>1, <1>2, SyncRows
  <1>4. IsFiniteSet(LivePermits) /\ \E d \in Caps : Cardinality(LivePermits) <= d.ceiling
    BY DEF CapInv, RowsHold
  <1>5. Cardinality(LivePermits') \in Nat /\ Cardinality(LivePermits) \in Nat
    BY <1>3, <1>4, FS_CardinalityType
  <1>6. \A d \in Caps : d.ceiling \in Nat
    BY CapAssumption
  <1>7. CASE Cardinality(LivePermits') <= limit
    BY <1>1, <1>5, <1>7
  <1>8. CASE Cardinality(LivePermits') <= Cardinality(LivePermits)
    BY <1>4, <1>5, <1>6, <1>8
  <1> QED
    BY <1>3, <1>7, <1>8

\* What Sync leaves to the other processes.
LEMMA SyncOthers ==
  ASSUME CapInv, NEW h \in Holders, NEW used \in Nat, NEW limit \in Nat, Sync(h, used, limit),
         \A g \in Holders \ {h} : local'[g] = local[g] /\ renewal'[g] = renewal[g] /\ (g \in astray => g \in astray')
  PROVE  OthersStay(h)
PROOF
  <1>1. \A g \in Holders \ {h} : grant'[g] = IF RowLive(g) THEN grant[g] ELSE NoRow
    BY SyncRows
  <1> QED
    BY <1>1 DEF OthersStay

\* A Sync whose answer is an error.
LEMMA SyncLost ==
  ASSUME CapInv, NEW h \in up, NEW used \in Nat, used <= local[h].used, NEW c \in Caps, SyncFails(h, used, c),
         up' = up, local' \in [Holders -> LocalGrants], renewal' = renewal,
         \A g \in Holders \ {h} : local'[g] = local[g],
         local'[h].used <= local[h].used, local'[h].allocated = local[h].allocated, local'[h].valid = local[h].valid
  PROVE  CapInv'
PROOF
  <1>1. h \in Holders /\ local[h] \in LocalGrants /\ local'[h] \in LocalGrants
    BY DEF CapInv, CapTyped
  <1>2. /\ local[h].used \in Nat /\ local'[h].used \in Nat /\ local[h].allocated \in Nat
        /\ local'[h].used > 0 => local[h].used > 0
        /\ local'[h].used <= local[h].allocated
    BY <1>1 DEF LocalGrants, CapInv, GrantsHold, Backed
  <1>3. CASE UNCHANGED <<grant, astray, strained>>
    <2>1. CapTyped'
      BY <1>3 DEF CapInv, CapTyped
    <2>2. OthersStay(h)
      BY <1>3 DEF OthersStay
    <2>3. /\ IsFiniteSet(LivePermits') /\ (~strained => \E d \in Caps : Cardinality(LivePermits') <= d.ceiling)
          /\ HasRow(h)' <=> HasRow(h)
          /\ RowLive(h)' <=> RowLive(h)
      BY <1>1, <1>3, RowsAlone
    <2>4. Backed(h)
      BY DEF CapInv, GrantsHold
    <2>5. Backed(h)'
      BY <1>2, <1>3, <2>3, <2>4 DEF Backed
    <2>6. ~strained /\ local'[h].used > 0 => RowLive(h)'
      BY <1>2, <2>3 DEF CapInv, RowsHold
    <2> QED
      BY <1>1, <1>3, <2>1, <2>2, <2>3, <2>5, <2>6, OneProcess
  <1>4. CASE /\ \E limit \in Limits(c) : Sync(h, used, limit)
             /\ astray' = astray \union {h} /\ strained' = TRUE
    <2>1. PICK limit \in Limits(c) : Sync(h, used, limit)
      BY <1>4
    <2>2. limit \in Nat
      BY CapAssumption DEF Limits
    <2>3. grant' \in [Holders -> {NoRow} \union GrantRows] /\ IsFiniteSet(LivePermits')
      BY <1>1, <2>1, <2>2, SyncRows
    <2>4. CapTyped'
      BY <1>1, <1>4, <2>3 DEF CapInv, CapTyped
    <2>5. OthersStay(h)
      BY <1>1, <1>4, <2>1, <2>2, SyncOthers
    <2>6. Backed(h)'
      BY <1>2, <1>4 DEF Backed
    <2> QED
      BY <1>1, <1>4, <2>3, <2>4, <2>5, <2>6, OneProcess
  <1> QED
    BY <1>3, <1>4 DEF SyncFails

\* Sync, whose answer is heard, of a process that then has `g' as its grant.
LEMMA SyncHeard ==
  ASSUME CapInv, NEW h \in up, NEW used \in Nat, used <= local[h].used, NEW c \in Caps, NEW limit \in Limits(c),
         Sync(h, used, limit), NEW g \in LocalGrants,
         g.allocated = Share(h, used, limit), g.used <= g.allocated,
         local' = [local EXCEPT ![h] = g], astray' = astray \ {h}, UNCHANGED <<up, renewal, strained>>
  PROVE  CapInv'
PROOF
  <1>1. h \in Holders /\ limit \in Nat
    BY CapAssumption DEF Limits, CapInv, CapTyped
  <1>2. PICK a : a = Share(h, used, limit)
    OBVIOUS
  <1>3. /\ a \in Nat /\ a >= used
        /\ grant' \in [Holders -> {NoRow} \union GrantRows]
        /\ a > 0 \/ used > 0 => grant'[h] = Row(a)
        /\ IsFiniteSet(LivePermits')
    BY <1>1, <1>2, SyncRows
  <1>4. local' \in [Holders -> LocalGrants] /\ local'[h] = g /\ \A f \in Holders \ {h} : local'[f] = local[f]
    BY <1>1 DEF CapInv, CapTyped
  <1>5. CapTyped'
    BY <1>3, <1>4 DEF CapInv, CapTyped
  <1>6. OthersStay(h)
    BY <1>1, <1>4, SyncOthers
  <1>7. g.allocated = a /\ g.used \in Nat /\ g.used <= a
    BY <1>2 DEF LocalGrants
  <1>8. a > 0 => RowLive(h)' /\ HasRow(h)' /\ grant'[h].allocated = a
    BY <1>3 DEF RowLive, HasRow, Row, NoRow
  <1>9. g.used > 0 => a > 0
    BY <1>3, <1>7
  <1>10. Backed(h)'
    BY <1>4, <1>7, <1>8, <1>9 DEF Backed
  <1>11. ~strained => \E d \in Caps : Cardinality(LivePermits') <= d.ceiling
    BY SyncHolds
  <1> QED
    BY <1>1, <1>3, <1>4, <1>5, <1>6, <1>8, <1>9, <1>10, <1>11, OneProcess

\* What the invariant says of the grant of one process.
LEMMA GrantOf ==
  ASSUME CapInv, NEW h \in Holders
  PROVE  /\ local[h] \in LocalGrants /\ local[h].caps \in Envelopes
         /\ local[h].allocated \in Nat /\ local[h].used \in Nat /\ local[h].emergency \in Nat
         /\ local[h].valid \in BOOLEAN
         /\ grant[h] \in {NoRow} \union GrantRows
         /\ h \in up => Backed(h)
PROOF
  BY DEF CapInv, CapTyped, LocalGrants, GrantsHold

\* A step of one process that leaves the rows and the history alone.
LEMMA RowsUntouched ==
  ASSUME CapInv, NEW h \in Holders, UNCHANGED <<up, grant, astray, strained>>,
         local' \in [Holders -> LocalGrants], renewal' \in [Holders -> {"idle", "read", "renewed"}],
         \A g \in Holders \ {h} : local'[g] = local[g] /\ renewal'[g] = renewal[g],
         h \in up => Backed(h)',
         h \in up /\ ~strained /\ local'[h].used > 0 => RowLive(h)
  PROVE  CapInv'
PROOF
  <1>1. CapTyped'
    BY DEF CapInv, CapTyped
  <1>2. OthersStay(h)
    BY DEF OthersStay
  <1>3. /\ IsFiniteSet(LivePermits') /\ (~strained => \E c \in Caps : Cardinality(LivePermits') <= c.ceiling)
        /\ RowLive(h)' <=> RowLive(h)
    BY RowsAlone
  <1> QED
    BY <1>1, <1>2, <1>3, OneProcess

\* Acquire, answered by the process's own grant
LEMMA AcquireLocalStep == ASSUME CapInv, NEW h \in Holders, NEW c \in Caps, AcquireLocal(h, c) PROVE CapInv'
PROOF
  <1>1. /\ h \in up /\ local[h].used < local[h].allocated /\ local[h].valid
        /\ local' = [local EXCEPT ![h].used = local[h].used + 1] /\ UNCHANGED <<up, renewal, grant, astray, strained>>
    BY DEF AcquireLocal, CanAdmit
  <1>2. local[h] \in LocalGrants /\ local[h].used \in Nat /\ local[h].allocated \in Nat /\ Backed(h)
    BY <1>1, GrantOf
  <1>3. /\ local' \in [Holders -> LocalGrants] /\ local'[h].used = local[h].used + 1
        /\ local'[h].allocated = local[h].allocated /\ local'[h].valid = local[h].valid
        /\ \A g \in Holders \ {h} : local'[g] = local[g]
    <2>1. PICK n \in Nat : n = local[h].used + 1
      BY <1>2
    <2>2. local' = [local EXCEPT ![h].used = n]
      BY <1>1, <2>1
    <2> QED
      BY <1>2, <2>1, <2>2 DEF CapInv, CapTyped, LocalGrants
  <1>4. h \notin astray => RowLive(h) /\ grant[h].allocated = local[h].allocated
    BY <1>1, <1>2 DEF Backed
  <1>5. (HasRow(h)' <=> HasRow(h)) /\ (RowLive(h)' <=> RowLive(h))
    BY <1>1 DEF HasRow, RowLive
  <1>6. Backed(h)'
    BY <1>1, <1>2, <1>3, <1>4, <1>5 DEF Backed
  <1>7. ~strained => RowLive(h)
    BY <1>4 DEF CapInv, RowsHold
  <1>8. renewal' \in [Holders -> {"idle", "read", "renewed"}]
    BY <1>1 DEF CapInv, CapTyped
  <1> QED
    BY <1>1, <1>3, <1>6, <1>7, <1>8, RowsUntouched

\* Acquire, answered by the store
LEMMA AcquireSyncStep == ASSUME CapInv, NEW h \in Holders, NEW c \in Caps, AcquireSync(h, c) PROVE CapInv'
PROOF
  <1>1. PICK used \in Nat : used = local[h].used
    BY GrantOf
  <1>2. PICK limit \in Limits(c) :
          /\ Sync(h, used, limit)
          /\ local' = [local EXCEPT ![h] = [caps |-> c, allocated |-> Share(h, used, limit),
                                           used |-> IF used < Share(h, used, limit) THEN used + 1 ELSE used,
                                           emergency |-> local[h].emergency, valid |-> TRUE]]
    BY <1>1 DEF AcquireSync
  <1>3. limit \in Nat
    BY CapAssumption DEF Limits
  <1>4. PICK a \in Nat : a = Share(h, used, limit) /\ a >= used
    BY <1>2, <1>3, SyncRows
  <1>5. PICK g : g = [caps |-> c, allocated |-> a, used |-> IF used < a THEN used + 1 ELSE used,
                      emergency |-> local[h].emergency, valid |-> TRUE]
    OBVIOUS
  <1>6. g \in LocalGrants
    <2>1. TRUE \in BOOLEAN
      BY Zenon
    <2>2. local[h].emergency \in Nat
      BY GrantOf
    <2> QED
      BY <1>5, <2>1, <2>2 DEF LocalGrants, Envelopes
  <1>7. g.allocated = Share(h, used, limit) /\ g.used <= g.allocated
    BY <1>4, <1>5
  <1>8. local' = [local EXCEPT ![h] = g]
    BY <1>2, <1>4, <1>5
  <1>9. h \in up /\ astray' = astray \ {h} /\ UNCHANGED <<up, renewal, strained>> /\ used <= local[h].used
    BY <1>1 DEF AcquireSync
  <1> QED
    BY <1>2, <1>6, <1>7, <1>8, <1>9, SyncHeard

\* acquireEmergency
LEMMA AcquireEmergencyStep == ASSUME CapInv, NEW h \in Holders, NEW c \in Caps, AcquireEmergency(h, c) PROVE CapInv'
PROOF
  <1>1. /\ h \in up /\ SyncFails(h, local[h].used, c) /\ up' = up /\ renewal' = renewal
        /\ local' = [local EXCEPT ![h].emergency = IF local[h].emergency < Allowance THEN local[h].emergency + 1
                                                   ELSE local[h].emergency]
    BY DEF AcquireEmergency
  <1>2. local[h] \in LocalGrants /\ local[h].used \in Nat /\ local[h].emergency \in Nat
    BY GrantOf
  <1>3. PICK e \in Nat : e = IF local[h].emergency < Allowance THEN local[h].emergency + 1 ELSE local[h].emergency
    BY <1>2
  <1>4. local' = [local EXCEPT ![h].emergency = e]
    BY <1>1, <1>3
  <1>5. /\ local' \in [Holders -> LocalGrants] /\ local'[h].used = local[h].used
        /\ local'[h].allocated = local[h].allocated /\ local'[h].valid = local[h].valid
        /\ \A g \in Holders \ {h} : local'[g] = local[g]
    BY <1>2, <1>4 DEF CapInv, CapTyped, LocalGrants
  <1>6. local[h].used <= local[h].used /\ local'[h].used <= local[h].used
    BY <1>2, <1>5
  <1> QED
    BY <1>1, <1>2, <1>5, <1>6, SyncLost

\* What Release makes of the grant before anything else.
LEMMA OneFewer ==
  ASSUME CapInv, NEW h \in Holders, HasSocket(h)
  PROVE  /\ h \in up /\ Decremented(h) \in LocalGrants
         /\ Decremented(h).used \in Nat /\ Decremented(h).used <= local[h].used
         /\ Decremented(h).allocated = local[h].allocated /\ Decremented(h).valid = local[h].valid
         /\ Decremented(h).caps = local[h].caps /\ Decremented(h).emergency \in Nat
PROOF
  <1>1. /\ local[h] \in LocalGrants /\ local[h].used \in Nat /\ local[h].emergency \in Nat
        /\ h \in up /\ local[h].used + local[h].emergency > 0
    BY GrantOf DEF HasSocket
  <1>2. CASE local[h].emergency > 0
    <2>1. Decremented(h) = [local[h] EXCEPT !.emergency = local[h].emergency - 1]
      BY <1>2 DEF Decremented
    <2>2. local[h].emergency - 1 \in Nat
      BY <1>1, <1>2
    <2> QED
      BY <1>1, <2>1, <2>2 DEF LocalGrants
  <1>3. CASE ~(local[h].emergency > 0)
    <2>1. Decremented(h) = [local[h] EXCEPT !.used = local[h].used - 1]
      BY <1>3 DEF Decremented
    <2>2. local[h].used - 1 \in Nat
      BY <1>1, <1>3
    <2> QED
      BY <1>1, <2>1, <2>2 DEF LocalGrants
  <1> QED
    BY <1>2, <1>3

\* Release that neither reclaims nor ends the grant
LEMMA ReleaseKeepsStep == ASSUME CapInv, NEW h \in Holders, ReleaseKeeps(h) PROVE CapInv'
PROOF
  <1>1. PICK g : g = Decremented(h)
    OBVIOUS
  <1>2. HasSocket(h) /\ local' = [local EXCEPT ![h] = g] /\ UNCHANGED <<up, renewal, grant, astray, strained>>
    BY <1>1 DEF ReleaseKeeps
  <1>3. /\ h \in up /\ g \in LocalGrants /\ g.used \in Nat /\ g.used <= local[h].used
        /\ g.allocated = local[h].allocated /\ g.valid = local[h].valid
    BY <1>1, <1>2, OneFewer
  <1>4. /\ local' \in [Holders -> LocalGrants] /\ local'[h] = g
        /\ \A f \in Holders \ {h} : local'[f] = local[f]
    BY <1>2, <1>3 DEF CapInv, CapTyped
  <1>5. local[h].used \in Nat /\ local[h].allocated \in Nat /\ Backed(h)
    BY <1>3, GrantOf
  <1>6. (HasRow(h)' <=> HasRow(h)) /\ (RowLive(h)' <=> RowLive(h))
    BY <1>2 DEF HasRow, RowLive
  <1>7. g.used > 0 => local[h].used > 0
    BY <1>3, <1>5
  <1>8. g.used <= g.allocated
    BY <1>3, <1>5 DEF Backed
  <1>9. Backed(h)'
    BY <1>2, <1>3, <1>4, <1>5, <1>6, <1>7, <1>8 DEF Backed
  <1>10. ~strained /\ g.used > 0 => RowLive(h)
    BY <1>3, <1>7 DEF CapInv, RowsHold
  <1>11. renewal' \in [Holders -> {"idle", "read", "renewed"}]
    BY <1>2 DEF CapInv, CapTyped
  <1> QED
    BY <1>2, <1>4, <1>9, <1>10, <1>11, RowsUntouched

\* An envelope that is reclaimed under is one of the tenant's.
LEMMA ReclaimCaps ==
  ASSUME NEW g, g.caps \in Envelopes, ShouldReclaim(g) PROVE g.caps \in Caps
PROOF
  BY DEF Envelopes, ShouldReclaim, NoCaps

\* reclaim
LEMMA ReclaimStep == ASSUME CapInv, NEW h \in Holders, Reclaim(h) PROVE CapInv'
PROOF
  <1>1. PICK g : g = Decremented(h)
    OBVIOUS
  <1>2. HasSocket(h) /\ ShouldReclaim(g) /\ astray' = astray \ {h} /\ UNCHANGED <<up, renewal, strained>>
    BY <1>1 DEF Reclaim
  <1>3. /\ h \in up /\ g \in LocalGrants /\ g.used \in Nat /\ g.used <= local[h].used
        /\ g.caps = local[h].caps /\ g.emergency \in Nat
    BY <1>1, <1>2, OneFewer
  <1>4. g.caps \in Caps
    BY <1>2, <1>3, GrantOf, ReclaimCaps
  <1>5. PICK limit \in Limits(g.caps) :
          /\ Sync(h, g.used, limit)
          /\ local' = [local EXCEPT ![h] = [caps |-> g.caps, allocated |-> Share(h, g.used, limit),
                                           used |-> g.used, emergency |-> g.emergency, valid |-> TRUE]]
    BY <1>1 DEF Reclaim
  <1>6. limit \in Nat
    BY <1>4, CapAssumption DEF Limits
  <1>7. PICK used \in Nat : used = g.used
    BY <1>3
  <1>8. PICK a \in Nat : a = Share(h, used, limit) /\ a >= used
    BY <1>5, <1>6, <1>7, SyncRows
  <1>9. PICK f : f = [caps |-> g.caps, allocated |-> a, used |-> used, emergency |-> g.emergency, valid |-> TRUE]
    OBVIOUS
  <1>10. f \in LocalGrants
    <2>1. TRUE \in BOOLEAN
      BY Zenon
    <2> QED
      BY <1>3, <1>4, <1>9, <2>1 DEF LocalGrants, Envelopes
  <1>11. f.allocated = Share(h, used, limit) /\ f.used <= f.allocated
    BY <1>8, <1>9
  <1>12. local' = [local EXCEPT ![h] = f] /\ Sync(h, used, limit) /\ used <= local[h].used
    BY <1>3, <1>5, <1>7, <1>8, <1>9
  <1> QED
    BY <1>2, <1>3, <1>4, <1>10, <1>11, <1>12, SyncHeard

\* reclaim, where the store does not answer
LEMMA ReclaimFailsStep == ASSUME CapInv, NEW h \in Holders, ReclaimFails(h) PROVE CapInv'
PROOF
  <1>1. PICK g : g = Decremented(h)
    OBVIOUS
  <1>2. /\ HasSocket(h) /\ ShouldReclaim(g) /\ SyncFails(h, g.used, g.caps)
        /\ local' = [local EXCEPT ![h] = g] /\ up' = up /\ renewal' = renewal
    BY <1>1 DEF ReclaimFails
  <1>3. /\ h \in up /\ g \in LocalGrants /\ g.used \in Nat /\ g.used <= local[h].used
        /\ g.allocated = local[h].allocated /\ g.valid = local[h].valid
        /\ g.caps = local[h].caps
    BY <1>1, <1>2, OneFewer
  <1>4. g.caps \in Caps
    BY <1>2, <1>3, GrantOf, ReclaimCaps
  <1>5. /\ local' \in [Holders -> LocalGrants] /\ local'[h] = g
        /\ \A f \in Holders \ {h} : local'[f] = local[f]
    BY <1>2, <1>3 DEF CapInv, CapTyped
  <1> QED
    BY <1>2, <1>3, <1>4, <1>5, SyncLost

\* A process's own row is deleted, or not, while it drops its grant.
LEMMA GrantDropped ==
  ASSUME CapInv, NEW h \in Holders, up' \subseteq up, local' = [local EXCEPT ![h] = Fresh],
         renewal' \in [Holders -> {"idle", "read", "renewed"}],
         \A g \in Holders \ {h} : renewal'[g] = renewal[g] /\ (g \in astray => g \in astray'),
         DeleteRow(h) \/ grant' = grant, astray' \subseteq astray, strained' = strained
  PROVE  CapInv'
PROOF
  <1>1. Fresh \in LocalGrants /\ Fresh.used = 0 /\ Fresh.allocated = 0 /\ ~Fresh.valid
    <2>1. FALSE \in BOOLEAN
      BY Zenon
    <2> QED
      BY <2>1 DEF Fresh, LocalGrants, Envelopes
  <1>2. /\ local' \in [Holders -> LocalGrants] /\ local'[h] = Fresh
        /\ \A g \in Holders \ {h} : local'[g] = local[g]
    BY <1>1 DEF CapInv, CapTyped
  <1>3. /\ grant' \in [Holders -> {NoRow} \union GrantRows]
        /\ \A g \in Holders \ {h} : grant'[g] = grant[g]
        /\ grant'[h] = grant[h] \/ grant'[h] = NoRow
    BY DEF DeleteRow, CapInv, CapTyped
  <1>4. CapTyped'
    BY <1>2, <1>3 DEF CapInv, CapTyped
  <1>5. OthersStay(h)
    BY <1>2, <1>3 DEF OthersStay
  <1>6. \A g \in Holders : RowLive(g)' => RowLive(g) /\ grant'[g].allocated = grant[g].allocated
    BY <1>3 DEF RowLive, HasRow
  <1>7. IsFiniteSet(LivePermits') /\ (~strained => \E c \in Caps : Cardinality(LivePermits') <= c.ceiling)
    BY <1>6, RowsFewer
  <1>8. Backed(h)'
    BY <1>1, <1>2 DEF Backed
  <1> QED
    BY <1>1, <1>2, <1>4, <1>5, <1>7, <1>8, OneProcess

\* Release of the last socket
LEMMA ReleaseLastStep == ASSUME CapInv, NEW h \in Holders, ReleaseLast(h) PROVE CapInv'
PROOF
  <1>1. renewal' \in [Holders -> {"idle", "read", "renewed"}]
    BY DEF ReleaseLast, CapInv, CapTyped
  <1> QED
    BY <1>1, GrantDropped DEF ReleaseLast

\* Close of the cap
LEMMA CloseStep == ASSUME CapInv, NEW h \in Holders, Close(h) PROVE CapInv'
PROOF
  <1>1. renewal' \in [Holders -> {"idle", "read", "renewed"}]
    BY DEF Close, CapInv, CapTyped
  <1> QED
    BY <1>1, GrantDropped DEF Close

\* The process dies.
LEMMA DiesStep == ASSUME CapInv, NEW h \in Holders, ProcessDies(h) PROVE CapInv'
PROOF
  <1>1. /\ renewal' \in [Holders -> {"idle", "read", "renewed"}]
        /\ \A g \in Holders \ {h} : renewal'[g] = renewal[g]
    BY DEF ProcessDies, CapInv, CapTyped
  <1> QED
    BY <1>1, GrantDropped DEF ProcessDies

\* renewAll: a step that only moves the renewal, and to "renewed" only with a live row
LEMMA RenewalStep ==
  ASSUME CapInv, NEW h \in Holders, NEW s \in {"idle", "read", "renewed"},
         renewal' = [renewal EXCEPT ![h] = s], s = "renewed" => RowLive(h),
         UNCHANGED <<up, local, grant, astray, strained>>
  PROVE  CapInv'
PROOF
  <1>1. /\ renewal' \in [Holders -> {"idle", "read", "renewed"}] /\ renewal'[h] = s
        /\ \A g \in Holders \ {h} : renewal'[g] = renewal[g]
    BY DEF CapInv, CapTyped
  <1>2. (HasRow(h)' <=> HasRow(h)) /\ (RowLive(h)' <=> RowLive(h))
    BY DEF HasRow, RowLive
  <1>3. h \in up => Backed(h)'
    BY <1>1, <1>2, GrantOf DEF Backed
  <1>4. local' \in [Holders -> LocalGrants]
    BY DEF CapInv, CapTyped
  <1>5. h \in up /\ ~strained /\ local'[h].used > 0 => RowLive(h)
    BY DEF CapInv, RowsHold
  <1> QED
    BY <1>1, <1>3, <1>4, <1>5, RowsUntouched

\* renewAll: the answer is applied to a grant that is still in use.
LEMMA RenewApplyStep == ASSUME CapInv, NEW h \in Holders, RenewApply(h) PROVE CapInv'
PROOF
  <1>1. PICK v \in BOOLEAN : v = (local[h].valid \/ local[h].used > 0)
    BY Zenon
  <1>2. /\ renewal[h] = "renewed" /\ renewal' = [renewal EXCEPT ![h] = "idle"]
        /\ local' = [local EXCEPT ![h].valid = v] /\ UNCHANGED <<up, grant, astray, strained>>
    BY <1>1 DEF RenewApply
  <1>3. local[h] \in LocalGrants /\ local[h].used \in Nat /\ local[h].allocated \in Nat /\ (h \in up => Backed(h))
    BY GrantOf
  <1>4. /\ local' \in [Holders -> LocalGrants] /\ local'[h].used = local[h].used
        /\ local'[h].allocated = local[h].allocated /\ local'[h].valid = v
        /\ \A g \in Holders \ {h} : local'[g] = local[g]
    BY <1>2, <1>3 DEF CapInv, CapTyped, LocalGrants
  <1>5. /\ renewal' \in [Holders -> {"idle", "read", "renewed"}] /\ renewal'[h] = "idle"
        /\ \A g \in Holders \ {h} : renewal'[g] = renewal[g]
    BY <1>2 DEF CapInv, CapTyped
  <1>6. (HasRow(h)' <=> HasRow(h)) /\ (RowLive(h)' <=> RowLive(h))
    BY <1>2 DEF HasRow, RowLive
  <1>7. ASSUME h \in up, h \notin astray, v, local[h].allocated > 0
        PROVE  RowLive(h) /\ grant[h].allocated = local[h].allocated
    <2>1. CASE local[h].valid
      BY <2>1, <1>3, <1>7 DEF Backed
    <2>2. CASE local[h].used > 0
      BY <2>2, <1>2, <1>3, <1>7 DEF Backed, RowLive
    <2> QED
      BY <1>1, <1>7, <2>1, <2>2
  <1>8. h \in up => Backed(h)'
    BY <1>2, <1>3, <1>4, <1>5, <1>6, <1>7 DEF Backed
  <1>9. h \in up /\ ~strained /\ local'[h].used > 0 => RowLive(h)
    BY <1>4 DEF CapInv, RowsHold
  <1> QED
    BY <1>2, <1>4, <1>5, <1>8, <1>9, RowsUntouched

\* The process may no longer use its grant.
LEMMA GrantExpiresStep == ASSUME CapInv, NEW h \in Holders, GrantExpires(h) PROVE CapInv'
PROOF
  <1>1. local' = [local EXCEPT ![h].valid = FALSE] /\ UNCHANGED <<up, renewal, grant, astray, strained>>
    BY DEF GrantExpires
  <1>2. local[h] \in LocalGrants /\ (h \in up => Backed(h)) /\ FALSE \in BOOLEAN
    BY GrantOf, Zenon
  <1>3. /\ local' \in [Holders -> LocalGrants] /\ local'[h].used = local[h].used
        /\ local'[h].allocated = local[h].allocated /\ ~local'[h].valid
        /\ \A g \in Holders \ {h} : local'[g] = local[g]
    BY <1>1, <1>2, ZenonT(60) DEF CapInv, CapTyped, LocalGrants
  <1>4. (HasRow(h)' <=> HasRow(h)) /\ (RowLive(h)' <=> RowLive(h))
    BY <1>1 DEF HasRow, RowLive
  <1>5. h \in up => Backed(h)'
    BY <1>1, <1>2, <1>3, <1>4 DEF Backed
  <1>6. h \in up /\ ~strained /\ local'[h].used > 0 => RowLive(h)
    BY <1>3 DEF CapInv, RowsHold
  <1>7. renewal' \in [Holders -> {"idle", "read", "renewed"}]
    BY <1>1 DEF CapInv, CapTyped
  <1> QED
    BY <1>1, <1>3, <1>5, <1>6, <1>7, RowsUntouched

\* A lease runs out.
LEMMA RowLapsesStep == ASSUME CapInv, NEW h \in Holders, RowLapses(h) PROVE CapInv'
PROOF
  <1>1. /\ RowLive(h) /\ ~local[h].valid /\ renewal[h] # "renewed"
        /\ grant' = [grant EXCEPT ![h].live = FALSE] /\ UNCHANGED <<up, local, renewal, astray>>
        /\ strained' = (strained \/ local[h].used > 0)
    BY DEF RowLapses
  <1>2. grant[h] \in GrantRows /\ FALSE \in BOOLEAN
    BY <1>1, GrantOf, Zenon DEF RowLive, HasRow
  <1>3. /\ grant' \in [Holders -> {NoRow} \union GrantRows]
        /\ grant'[h].allocated = grant[h].allocated /\ ~grant'[h].live
        /\ \A g \in Holders \ {h} : grant'[g] = grant[g]
    BY <1>1, <1>2 DEF CapInv, CapTyped, GrantRows
  <1>4. CapTyped'
    BY <1>1, <1>3 DEF CapInv, CapTyped
  <1>5. OthersStay(h)
    BY <1>1, <1>3 DEF OthersStay
  <1>6. \A g \in Holders : RowLive(g)' => RowLive(g) /\ grant'[g].allocated = grant[g].allocated
    BY <1>3 DEF RowLive, HasRow
  <1>7. IsFiniteSet(LivePermits') /\ (~strained => \E c \in Caps : Cardinality(LivePermits') <= c.ceiling)
    BY <1>6, RowsFewer
  <1>8. h \in up => Backed(h)'
    <2> SUFFICES ASSUME h \in up PROVE Backed(h)'
      OBVIOUS
    <2>1. Backed(h) /\ HasRow(h)
      BY <1>1, GrantOf DEF RowLive
    <2> QED
      BY <1>1, <1>3, <2>1 DEF Backed
  <1>9. ~strained' => ~strained /\ ~(local'[h].used > 0)
    BY <1>1
  <1> QED
    BY <1>1, <1>4, <1>5, <1>7, <1>8, <1>9, OneProcess

\* SweepExpiredConnectionGrants
LEMMA SweepGrantsStep == ASSUME CapInv, SweepGrants PROVE CapInv'
PROOF
  <1>1. PICK h \in Holders : HasRow(h) /\ ~RowLive(h)
    BY DEF SweepGrants
  <1>2. /\ grant' = [g \in Holders |-> IF RowLive(g) THEN grant[g] ELSE NoRow]
        /\ UNCHANGED <<up, local, renewal, astray, strained>>
    BY DEF SweepGrants
  <1>3. grant' \in [Holders -> {NoRow} \union GrantRows]
    BY <1>2 DEF CapInv, CapTyped
  <1>4. CapTyped'
    BY <1>2, <1>3 DEF CapInv, CapTyped
  <1>5. OthersStay(h)
    BY <1>2 DEF OthersStay
  <1>6. \A g \in Holders : RowLive(g)' => RowLive(g) /\ grant'[g].allocated = grant[g].allocated
    BY <1>2 DEF RowLive, HasRow
  <1>7. IsFiniteSet(LivePermits') /\ (~strained => \E c \in Caps : Cardinality(LivePermits') <= c.ceiling)
    BY <1>6, RowsFewer
  <1>8. grant'[h] = NoRow /\ ~HasRow(h)'
    BY <1>1, <1>2 DEF HasRow
  <1>9. h \in up => Backed(h)'
    <2> SUFFICES ASSUME h \in up PROVE Backed(h)'
      OBVIOUS
    <2>1. Backed(h)
      BY GrantOf
    <2> QED
      BY <1>1, <1>2, <1>8, <2>1 DEF Backed
  <1>10. h \in up /\ ~strained => ~(local'[h].used > 0)
    BY <1>1, <1>2 DEF CapInv, RowsHold
  <1> QED
    BY <1>2, <1>4, <1>5, <1>7, <1>9, <1>10, OneProcess

\* Every step of a process, of its renewals and of the store preserves CapInv.
LEMMA CapStep == CapInv /\ [CapNext]_capVars => CapInv'
PROOF
  <1> SUFFICES ASSUME CapInv, [CapNext]_capVars PROVE CapInv'
    OBVIOUS
  <1>1. ASSUME NEW h \in Holders, RenewRead(h) PROVE CapInv'
    BY <1>1, RenewalStep DEF RenewRead
  <1>2. ASSUME NEW h \in Holders, RenewStore(h) PROVE CapInv'
    <2>1. PICK s \in {"renewed", "idle"} : renewal' = [renewal EXCEPT ![h] = s]
      BY <1>2 DEF RenewStore
    <2> QED
      BY <1>2, <2>1, RenewalStep DEF RenewStore
  <1>3. ASSUME NEW h \in Holders, RenewMiss(h) PROVE CapInv'
    BY <1>3, RenewalStep DEF RenewMiss
  <1>4. CASE UNCHANGED capVars
    <2>1. LivePermits' = LivePermits
      BY <1>4 DEF capVars, LivePermits, LiveRows, RowLive, HasRow
    <2> QED
      BY <1>4, <2>1 DEF capVars, CapInv, CapTyped, GrantsHold, Backed, RowsHold, RowLive, HasRow
  <1> QED
    BY <1>1, <1>2, <1>3, <1>4, AcquireLocalStep, AcquireSyncStep, AcquireEmergencyStep, ReleaseKeepsStep,
       ReclaimStep, ReclaimFailsStep, ReleaseLastStep, RenewApplyStep, CloseStep, DiesStep, GrantExpiresStep,
       RowLapsesStep, SweepGrantsStep DEF CapNext

\* CapInv says what CapSound promises: the permits in use are among those of the
\* live rows.
LEMMA CapInvSound == CapInv => CapSound
PROOF
  <1> SUFFICES ASSUME CapInv PROVE CapSound
    OBVIOUS
  <1>1. GrantsBacked
    <2> SUFFICES ASSUME NEW h \in up \ astray, local[h].valid, local[h].used < local[h].allocated
                 PROVE  RowLive(h) /\ grant[h].allocated = local[h].allocated
      BY DEF GrantsBacked
    <2>1. h \in Holders
      BY DEF CapInv, CapTyped
    <2>2. local[h].used \in Nat /\ local[h].allocated \in Nat /\ Backed(h)
      BY <2>1, GrantOf
    <2> QED
      BY <2>2 DEF Backed
  <1>2. CeilingHolds
    <2> SUFFICES ASSUME ~strained
                 PROVE  \E c \in Caps : Cardinality(Permits([h \in up |-> local[h].used])) <= c.ceiling
      BY DEF CeilingHolds
    <2>1. PICK U : U = Permits([h \in up |-> local[h].used])
      OBVIOUS
    <2>2. PICK L : L = LivePermits
      OBVIOUS
    <2>3. \A p : p \in U <=> \E h \in up : \E i \in 1..local[h].used : p = <<h, i>>
      BY <2>1, PermitsShape
    <2>4. \A p : p \in L <=> \E h \in LiveRows : \E i \in 1..grant[h].allocated : p = <<h, i>>
      BY <2>2, PermitsShape DEF LivePermits
    <2>5. ASSUME NEW h \in up, NEW i \in 1..local[h].used PROVE h \in LiveRows /\ i \in 1..grant[h].allocated
      <3>1. h \in Holders /\ h \notin astray
        BY DEF CapInv, CapTyped, RowsHold
      <3>2. local[h].used \in Nat /\ local[h].allocated \in Nat /\ Backed(h)
        BY <3>1, GrantOf
      <3>3. local[h].used > 0
        BY <3>2
      <3>4. RowLive(h)
        BY <3>3 DEF CapInv, RowsHold
      <3>5. grant[h].allocated = local[h].allocated /\ local[h].used <= local[h].allocated
        BY <3>1, <3>2, <3>3, <3>4 DEF Backed, RowLive
      <3> QED
        BY <3>1, <3>2, <3>4, <3>5 DEF LiveRows
    <2>6. U \subseteq L
      BY <2>3, <2>4, <2>5
    <2>7. IsFiniteSet(L) /\ \E c \in Caps : Cardinality(L) <= c.ceiling
      BY <2>2 DEF CapInv, RowsHold
    <2>8. Cardinality(U) \in Nat /\ Cardinality(L) \in Nat /\ Cardinality(U) <= Cardinality(L)
      BY <2>6, <2>7, FS_Subset, FS_CardinalityType
    <2>9. \A c \in Caps : c.ceiling \in Nat
      BY CapAssumption
    <2> QED
      BY <2>1, <2>7, <2>8, <2>9
  <1> QED
    BY <1>1, <1>2 DEF CapSound

\* The leased connection cap, for any number of processes, any envelopes and any
\* block: what a process hands out by itself is backed by its row, and the sockets of
\* all processes together stay within a ceiling (CapSound).
THEOREM CapHolds == CapSpec => []CapSound
PROOF
  BY CapInitial, CapStep, CapInvSound, PTL DEF CapSpec

-----------------------------------------------------------------------------
(* Player storage *)

StoredRows == [size : Nat, version : Nat \ {0}, born : Nat, stamp : Nat]
KnownRows == {NoObject} \union StoredRows
Puts == [object : Objects, size : Nat, expected : KnownRows, delta : Int]

StorageTyped ==
  /\ object \in [Objects -> KnownRows]
  /\ total \in Nat
  /\ put \in [Writers -> {NotPutting} \union Puts]
  /\ known \in [Writers -> [Objects -> KnownRows]]
  /\ writes \in Nat

\* The advisory lock and the tenant's row lock let one put go on.
OnePut == \A v, w \in Writers : put[v] # NotPutting /\ put[w] # NotPutting => v = w

\* What a put has checked stays true until it commits: only deletes run beside it,
\* and only a purge of its owner, which stops it, changes its object.
PutsChecked ==
  \A w \in Writers : put[w] # NotPutting =>
    /\ put[w].delta > 0 => total + put[w].delta <= StorageLimit
    /\ OwnerOf[put[w].object] \notin purged => put[w].delta = put[w].size - SizeOf(put[w].object)

Metered == IsFiniteSet(Bytes) /\ Stored <= total /\ total <= StorageLimit

\* A row x that was read of object o: where the object still is the one that was
\* read, its version has grown with every write since.
ReadEarlier(x, o) ==
  x # NoObject =>
    /\ x.born <= writes
    /\ object[o] # NoObject /\ object[o].born = x.born =>
         /\ x.version <= object[o].version
         /\ x.version = object[o].version => x.stamp = object[o].stamp

Versioned ==
  /\ \A o \in Objects : object[o] # NoObject => object[o].born <= writes
  /\ \A w \in Writers, o \in Objects : ReadEarlier(known[w][o], o)
  /\ \A w \in Writers : put[w] # NotPutting => ReadEarlier(put[w].expected, put[w].object)

StorageInv == StorageTyped /\ OnePut /\ PutsChecked /\ Metered /\ Versioned

\* SizeOf is a number.
LEMMA SizeIsNat == ASSUME StorageTyped, NEW o \in Objects PROVE SizeOf(o) \in Nat
PROOF
  BY DEF StorageTyped, KnownRows, StoredRows, SizeOf

\* One object gets another size, or none: the bytes stored change by the difference.
LEMMA BytesChange ==
  ASSUME StorageInv, StorageTyped', NEW o \in Objects, \A b \in Objects \ {o} : object'[b] = object[b]
  PROVE  IsFiniteSet(Bytes') /\ Stored' = Stored - SizeOf(o) + SizeOf(o)' /\ Stored \in Nat /\ Stored' \in Nat
PROOF
  <1>1. PICK n \in Nat : n = SizeOf(o)
    BY SizeIsNat DEF StorageInv
  <1>2. PICK m \in Nat : m = SizeOf(o)'
    <2>1. SizeOf(o)' \in Nat
      BY DEF StorageTyped, KnownRows, StoredRows, SizeOf
    <2> QED
      BY <2>1
  <1>3. PICK R : R = UNION {{b} \X (1..SizeOf(b)) : b \in Objects \ {o}}
    OBVIOUS
  <1>4. \A b \in Objects \ {o} : SizeOf(b)' = SizeOf(b)
    BY DEF SizeOf
  <1>5. PICK P : P = {o} \X (1..n)
    OBVIOUS
  <1>6. PICK Q : Q = {o} \X (1..m)
    OBVIOUS
  <1>7. PICK B : B = Bytes
    OBVIOUS
  <1>8. PICK C : C = Bytes'
    OBVIOUS
  <1>9. \A p : p \in R <=> \E b \in Objects \ {o} : p \in {b} \X (1..SizeOf(b))
    BY <1>3
  <1>10. \A p : p \in B <=> \E b \in Objects : p \in {b} \X (1..SizeOf(b))
    BY <1>7 DEF Bytes
  <1>11. \A p : p \in C <=> \E b \in Objects : p \in {b} \X (1..SizeOf(b)')
    BY <1>8 DEF Bytes
  <1>12. B = R \union P
    <2>1. \A p : p \in P <=> p \in {o} \X (1..SizeOf(o))
      BY <1>1, <1>5
    <2> QED
      BY <2>1, <1>9, <1>10
  <1>13. C = R \union Q
    <2>1. \A p : p \in Q <=> p \in {o} \X (1..SizeOf(o)')
      BY <1>2, <1>6
    <2>2. \A b \in Objects \ {o} : \A p : p \in {b} \X (1..SizeOf(b)') <=> p \in {b} \X (1..SizeOf(b))
      BY <1>4
    <2> QED
      BY <2>1, <2>2, <1>9, <1>11
  <1>14. R \cap P = {} /\ R \cap Q = {}
    <2>1. \A p \in R : p[1] # o
      BY <1>9
    <2>2. \A p \in P \union Q : p[1] = o
      BY <1>5, <1>6
    <2> QED
      BY <2>1, <2>2
  <1>15. Cardinality(R \cap P) = 0 /\ Cardinality(R \cap Q) = 0
    BY <1>14, FS_EmptySet
  <1>16. IsFiniteSet(B) /\ IsFiniteSet(R)
    BY <1>7, <1>12, FS_Subset DEF StorageInv, Metered
  <1>17. IsFiniteSet(P) /\ Cardinality(P) = n /\ IsFiniteSet(Q) /\ Cardinality(Q) = m
    BY <1>5, <1>6, Numbered
  <1>18. Cardinality(R) \in Nat
    BY <1>16, FS_CardinalityType
  <1>19. Cardinality(B) = Cardinality(R) + n
    <2>1. Cardinality(B) = Cardinality(R) + Cardinality(P) - Cardinality(R \cap P)
      BY <1>12, <1>16, <1>17, FS_Union
    <2> QED
      BY <2>1, <1>17, <1>18, <1>15
  <1>20. IsFiniteSet(C) /\ Cardinality(C) = Cardinality(R) + m
    <2>1. IsFiniteSet(C) /\ Cardinality(C) = Cardinality(R) + Cardinality(Q) - Cardinality(R \cap Q)
      BY <1>13, <1>16, <1>17, FS_Union
    <2> QED
      BY <2>1, <1>17, <1>18, <1>15
  <1> QED
    BY <1>1, <1>2, <1>7, <1>8, <1>18, <1>19, <1>20 DEF Stored

\* Objects that go leave no more bytes than there were.
LEMMA BytesFewer ==
  ASSUME StorageInv, \A b \in Objects : object'[b] = object[b] \/ object'[b] = NoObject
  PROVE  IsFiniteSet(Bytes') /\ Stored' <= Stored /\ Stored \in Nat /\ Stored' \in Nat
PROOF
  <1>1. PICK B : B = Bytes
    OBVIOUS
  <1>2. PICK C : C = Bytes'
    OBVIOUS
  <1>3. \A b \in Objects : SizeOf(b)' = SizeOf(b) \/ SizeOf(b)' = 0
    BY DEF SizeOf
  <1>4. \A p : p \in B <=> \E b \in Objects : p \in {b} \X (1..SizeOf(b))
    BY <1>1 DEF Bytes
  <1>5. \A p : p \in C <=> \E b \in Objects : p \in {b} \X (1..SizeOf(b)')
    BY <1>2 DEF Bytes
  <1>6. C \subseteq B
    <2> SUFFICES ASSUME NEW p \in C PROVE p \in B
      OBVIOUS
    <2>1. PICK b \in Objects : p \in {b} \X (1..SizeOf(b)')
      BY <1>5
    <2>2. SizeOf(b)' = SizeOf(b)
      BY <2>1, <1>3
    <2> QED
      BY <2>1, <2>2, <1>4
  <1>7. IsFiniteSet(B)
    BY <1>1 DEF StorageInv, Metered
  <1> QED
    BY <1>1, <1>2, <1>6, <1>7, FS_Subset, FS_CardinalityType DEF Stored

\* Nothing is stored and nothing is metered.
LEMMA StorageInitial == StorageInit => StorageInv
PROOF
  <1> SUFFICES ASSUME StorageInit PROVE StorageInv
    OBVIOUS
  <1>1. StorageTyped
    BY DEF StorageInit, StorageTyped, KnownRows
  <1>2. \A o \in Objects : object[o] = NoObject /\ SizeOf(o) = 0
    BY DEF StorageInit, SizeOf
  <1>3. \A w \in Writers : put[w] = NotPutting
    BY DEF StorageInit
  <1>4. Bytes = {}
    <2>1. ASSUME NEW p \in Bytes PROVE FALSE
      <3>1. PICK b \in Objects : p \in {b} \X (1..SizeOf(b))
        BY DEF Bytes
      <3> QED
        BY <3>1, <1>2
    <2> QED
      BY <2>1
  <1>5. Metered
    BY <1>4, FS_EmptySet, StorageAssumption DEF StorageInit, Metered, Stored
  <1>6. Versioned
    BY <1>2, <1>3 DEF StorageInit, Versioned, ReadEarlier
  <1> QED
    BY <1>1, <1>3, <1>5, <1>6 DEF StorageInv, OnePut, PutsChecked

\* getStorageForOwner
LEMMA GetStep == ASSUME StorageInv, NEW w \in Writers, NEW o \in Objects, GetObject(w, o) PROVE StorageInv'
PROOF
  <1>1. /\ object[o] # NoObject /\ known' = [known EXCEPT ![w][o] = object[o]]
        /\ UNCHANGED <<object, total, put, purged, writes>>
    BY DEF GetObject
  <1>2. StorageTyped'
    BY <1>1 DEF StorageInv, StorageTyped
  <1>3. \A x, b : ReadEarlier(x, b)' <=> ReadEarlier(x, b)
    BY <1>1 DEF ReadEarlier
  <1>4. ReadEarlier(object[o], o)
    <2>1. object[o] \in StoredRows
      BY <1>1 DEF StorageInv, StorageTyped, KnownRows
    <2> QED
      BY <2>1 DEF StorageInv, Versioned, ReadEarlier, StoredRows
  <1>5. ASSUME NEW v \in Writers, NEW b \in Objects PROVE ReadEarlier(known'[v][b], b)
    <2>1. CASE v = w /\ b = o
      BY <1>1, <1>4, <2>1 DEF StorageInv, StorageTyped
    <2>2. CASE ~(v = w /\ b = o)
      <3>1. known'[v][b] = known[v][b]
        BY <1>1, <2>2 DEF StorageInv, StorageTyped
      <3> QED
        BY <3>1 DEF StorageInv, Versioned
    <2> QED
      BY <2>1, <2>2
  <1>6. Versioned'
    BY <1>1, <1>3, <1>5 DEF StorageInv, Versioned
  <1>7. Metered'
    BY <1>1 DEF StorageInv, Metered, Stored, Bytes, SizeOf
  <1>8. OnePut' /\ PutsChecked'
    BY <1>1 DEF StorageInv, OnePut, PutsChecked, SizeOf
  <1> QED
    BY <1>2, <1>6, <1>7, <1>8 DEF StorageInv

\* putStorageObject up to the checks, under both locks
LEMMA PutBeginStep ==
  ASSUME StorageInv, NEW w \in Writers, NEW o \in Objects, NEW size \in Sizes,
         NEW expected \in {NoObject, known[w][o]}, PutBegin(w, o, size, expected)
  PROVE  StorageInv'
PROOF
  <1>1. PICK delta : delta = size - SizeOf(o)
    OBVIOUS
  <1>2. PICK p : p = [object |-> o, size |-> size, expected |-> expected, delta |-> delta]
    OBVIOUS
  <1>3. /\ put[w] = NotPutting /\ WriteLocks(o) /\ CheckStorage(delta)
        /\ put' = [put EXCEPT ![w] = p] /\ UNCHANGED <<object, total, known, purged, writes>>
    BY <1>1, <1>2 DEF PutBegin
  <1>4. size \in Nat /\ SizeOf(o) \in Nat /\ delta \in Int
    BY <1>1, StorageAssumption, SizeIsNat DEF StorageInv
  <1>5. expected \in KnownRows
    BY DEF StorageInv, StorageTyped, KnownRows
  <1>6. p \in Puts /\ p.object = o /\ p.size = size /\ p.expected = expected /\ p.delta = delta
    BY <1>2, <1>4, <1>5 DEF Puts
  <1>7. put'[w] = p /\ \A v \in Writers \ {w} : put'[v] = NotPutting
    BY <1>3 DEF WriteLocks, StorageInv, StorageTyped
  <1>8. StorageTyped'
    BY <1>3, <1>6 DEF StorageInv, StorageTyped
  <1>9. OnePut'
    BY <1>7 DEF OnePut
  <1>10. PutsChecked'
    <2>1. SizeOf(o)' = SizeOf(o) /\ total' = total
      BY <1>3 DEF SizeOf
    <2>2. delta > 0 => total + delta <= StorageLimit
      BY <1>3, <1>4 DEF CheckStorage
    <2>3. /\ put'[w].delta > 0 => total' + put'[w].delta <= StorageLimit
          /\ put'[w].delta = put'[w].size - SizeOf(o)' /\ put'[w].object = o
      BY <1>1, <1>6, <1>7, <2>1, <2>2
    <2> QED
      BY <1>7, <2>3 DEF PutsChecked, SizeOf
  <1>11. Versioned'
    <2>1. \A x, b : ReadEarlier(x, b)' <=> ReadEarlier(x, b)
      BY <1>3 DEF ReadEarlier
    <2>2. ReadEarlier(expected, o)
      BY DEF StorageInv, Versioned, ReadEarlier
    <2> QED
      BY <1>3, <1>6, <1>7, <2>1, <2>2 DEF StorageInv, Versioned
  <1>12. Metered'
    BY <1>3 DEF StorageInv, Metered, Stored, Bytes, SizeOf
  <1> QED
    BY <1>8, <1>9, <1>10, <1>11, <1>12 DEF StorageInv

\* The row a put writes is a row, and no version of the object was read that is not
\* older.
LEMMA WrittenRow ==
  ASSUME StorageInv, NEW o \in Objects, NEW n \in Nat
  PROVE  /\ Written(o, n) \in StoredRows /\ Written(o, n) # NoObject /\ Written(o, n).size = n
         /\ object[o] = NoObject => Written(o, n).born = writes + 1
         /\ object[o] # NoObject => /\ Written(o, n).born = object[o].born
                                    /\ Written(o, n).version = object[o].version + 1
PROOF
  <1>1. writes \in Nat
    BY DEF StorageInv, StorageTyped
  <1>2. CASE object[o] = NoObject
    BY <1>1, <1>2 DEF Written, StoredRows, NoObject
  <1>3. CASE object[o] # NoObject
    <2>1. object[o] \in StoredRows
      BY <1>3 DEF StorageInv, StorageTyped, KnownRows
    <2>2. object[o].version \in Nat /\ object[o].born \in Nat
      BY <2>1 DEF StoredRows
    <2>3. Written(o, n) = [size |-> n, version |-> object[o].version + 1, born |-> object[o].born, stamp |-> writes + 1]
      BY <1>3 DEF Written
    <2>4. Written(o, n) \in StoredRows
      BY <1>1, <2>2, <2>3 DEF StoredRows
    <2>5. Written(o, n) # NoObject
      <3>1. Written(o, n).version # 0
        BY <2>2, <2>3
      <3> QED
        BY <3>1 DEF NoObject
    <2> QED
      BY <1>3, <2>3, <2>4, <2>5
  <1> QED
    BY <1>2, <1>3

\* The write, the counter and the end of the put
LEMMA PutCommitStep == ASSUME StorageInv, NEW w \in Writers, PutCommit(w) PROVE StorageInv'
PROOF
  <1>1. put[w] # NotPutting /\ put[w] \in Puts
    BY DEF PutCommit, StorageInv, StorageTyped
  <1>2. PICK o \in Objects, n \in Nat, delta \in Int : o = put[w].object /\ n = put[w].size /\ delta = put[w].delta
    BY <1>1 DEF Puts
  <1>3. PICK x : x = Written(o, n)
    OBVIOUS
  <1>4. /\ x \in StoredRows /\ x # NoObject /\ x.size = n
        /\ object[o] = NoObject => x.born = writes + 1
        /\ object[o] # NoObject => x.born = object[o].born /\ x.version = object[o].version + 1
    BY <1>3, WrittenRow
  <1>5. /\ OwnerOf[o] \notin purged
        /\ object' = [object EXCEPT ![o] = x] /\ total' = Plus(delta) /\ writes' = writes + 1
        /\ put' = [put EXCEPT ![w] = NotPutting]
        /\ known' = [known EXCEPT ![w][o] = object'[o]] /\ purged' = purged
    BY <1>2, <1>3 DEF PutCommit
  <1>6. /\ object' \in [Objects -> KnownRows] /\ object'[o] = x
        /\ \A b \in Objects \ {o} : object'[b] = object[b]
    BY <1>4, <1>5 DEF StorageInv, StorageTyped, KnownRows
  <1>7. writes \in Nat /\ total \in Nat /\ Plus(delta) \in Nat
    BY DEF StorageInv, StorageTyped, Plus
  <1>8. StorageTyped'
    <2>1. known' \in [Writers -> [Objects -> KnownRows]]
      BY <1>4, <1>5, <1>6 DEF StorageInv, StorageTyped, KnownRows
    <2>2. put' \in [Writers -> {NotPutting} \union Puts]
      BY <1>5 DEF StorageInv, StorageTyped
    <2> QED
      BY <1>5, <1>6, <1>7, <2>1, <2>2 DEF StorageTyped
  <1>9. \A v \in Writers : put'[v] = NotPutting
    BY <1>1, <1>5 DEF StorageInv, OnePut, StorageTyped
  <1>10. Metered'
    <2>1. delta = n - SizeOf(o) /\ (delta > 0 => total + delta <= StorageLimit)
      BY <1>1, <1>2, <1>5 DEF StorageInv, PutsChecked
    <2>2. SizeOf(o)' = n
      BY <1>4, <1>6 DEF SizeOf
    <2>3. IsFiniteSet(Bytes') /\ Stored' = Stored - SizeOf(o) + SizeOf(o)' /\ Stored \in Nat /\ Stored' \in Nat
      BY <1>6, <1>8, BytesChange
    <2>4. SizeOf(o) \in Nat
      BY SizeIsNat DEF StorageInv
    <2>5. Stored <= total /\ total <= StorageLimit /\ StorageLimit \in Nat
      BY StorageAssumption DEF StorageInv, Metered
    <2>6. Stored' = Stored + delta
      BY <2>1, <2>2, <2>3, <2>4
    <2>7. Stored' <= Plus(delta) /\ Plus(delta) <= StorageLimit
      BY <1>7, <2>1, <2>3, <2>5, <2>6 DEF Plus
    <2> QED
      BY <1>5, <2>3, <2>7 DEF Metered
  <1>11. ASSUME NEW y \in KnownRows, NEW b \in Objects, ReadEarlier(y, b) PROVE ReadEarlier(y, b)'
    <2> SUFFICES ASSUME y # NoObject
                 PROVE  /\ y.born <= writes + 1
                        /\ object'[b] # NoObject /\ object'[b].born = y.born =>
                             /\ y.version <= object'[b].version
                             /\ y.version = object'[b].version => y.stamp = object'[b].stamp
      BY <1>5 DEF ReadEarlier
    <2>1. y \in StoredRows /\ y.born \in Nat /\ y.version \in Nat /\ y.born <= writes
      BY <1>11 DEF KnownRows, StoredRows, ReadEarlier
    <2>2. CASE b # o
      BY <2>1, <2>2, <1>6, <1>7, <1>11 DEF ReadEarlier
    <2>3. CASE b = o
      <3>1. CASE object[o] = NoObject
        BY <2>1, <2>3, <3>1, <1>4, <1>6, <1>7
      <3>2. CASE object[o] # NoObject
        <4>1. object[o].version \in Nat
          BY <3>2 DEF StorageInv, StorageTyped, KnownRows, StoredRows
        <4>2. x.born = y.born => y.version <= object[o].version
          BY <2>3, <3>2, <1>4, <1>11 DEF ReadEarlier
        <4>3. x.born = y.born => y.version < x.version
          BY <2>1, <3>2, <4>1, <4>2, <1>4
        <4>4. x.version \in Nat
          BY <1>4 DEF StoredRows
        <4> QED
          BY <2>1, <2>3, <4>3, <4>4, <1>6, <1>7
      <3> QED
        BY <3>1, <3>2
    <2> QED
      BY <2>2, <2>3
  <1>12. Versioned'
    <2>1. ASSUME NEW b \in Objects, object'[b] # NoObject PROVE object'[b].born <= writes'
      <3>1. CASE b # o
        <4>1. object[b] # NoObject /\ object'[b] = object[b]
          BY <2>1, <3>1, <1>6
        <4>2. object[b].born \in Nat /\ object[b].born <= writes
          BY <4>1 DEF StorageInv, StorageTyped, KnownRows, StoredRows, Versioned
        <4> QED
          BY <4>1, <4>2, <1>5, <1>7
      <3>2. CASE b = o
        <4>1. CASE object[o] = NoObject
          BY <3>2, <4>1, <1>4, <1>5, <1>6, <1>7
        <4>2. CASE object[o] # NoObject
          <5>1. object[o].born \in Nat /\ object[o].born <= writes
            BY <4>2 DEF StorageInv, StorageTyped, KnownRows, StoredRows, Versioned
          <5> QED
            BY <3>2, <4>2, <5>1, <1>4, <1>5, <1>6, <1>7
        <4> QED
          BY <4>1, <4>2
      <3> QED
        BY <3>1, <3>2
    <2>2. ReadEarlier(x, o)'
      <3>1. x.born <= writes' /\ x.version \in Nat
        BY <2>1, <1>4, <1>6 DEF StoredRows
      <3> QED
        BY <3>1, <1>6 DEF ReadEarlier
    <2>3. ASSUME NEW v \in Writers, NEW b \in Objects PROVE ReadEarlier(known[v][b], b)'
      <3>1. CASE v = w /\ b = o
        <4>1. known'[w][o] = x
          BY <1>5, <1>6 DEF StorageInv, StorageTyped
        <4> QED
          BY <4>1, <3>1, <2>2 DEF ReadEarlier
      <3>2. CASE ~(v = w /\ b = o)
        <4>1. known'[v][b] = known[v][b] /\ known[v][b] \in KnownRows
          BY <1>5, <3>2 DEF StorageInv, StorageTyped
        <4>2. ReadEarlier(known[v][b], b)
          BY DEF StorageInv, Versioned
        <4>3. PICK y \in KnownRows : y = known[v][b]
          BY <4>1
        <4>4. ReadEarlier(y, b)'
          BY <4>2, <4>3, <1>11
        <4> QED
          BY <4>1, <4>3, <4>4 DEF ReadEarlier
      <3> QED
        BY <3>1, <3>2
    <2> QED
      BY <1>9, <2>1, <2>3 DEF Versioned, ReadEarlier
  <1> QED
    BY <1>8, <1>9, <1>10, <1>12 DEF StorageInv, OnePut, PutsChecked

\* A put that fails lets go of its locks.
LEMMA PutFailsStep == ASSUME StorageInv, NEW w \in Writers, PutFails(w) PROVE StorageInv'
PROOF
  <1>1. put' = [put EXCEPT ![w] = NotPutting] /\ UNCHANGED <<object, total, known, purged, writes>>
    BY DEF PutFails
  <1>2. StorageTyped'
    BY <1>1 DEF StorageInv, StorageTyped
  <1>3. \A v \in Writers : put'[v] # NotPutting => put'[v] = put[v]
    BY <1>1 DEF StorageInv, StorageTyped
  <1>4. OnePut'
    BY <1>3 DEF StorageInv, OnePut
  <1>5. PutsChecked'
    BY <1>1, <1>3 DEF StorageInv, PutsChecked, SizeOf
  <1>6. Metered'
    BY <1>1 DEF StorageInv, Metered, Stored, Bytes, SizeOf
  <1>7. Versioned'
    BY <1>1, <1>3 DEF StorageInv, Versioned, ReadEarlier
  <1> QED
    BY <1>2, <1>4, <1>5, <1>6, <1>7 DEF StorageInv

\* A write that fits beside what is metered fits beside less.
LEMMA StillFits ==
  ASSUME NEW s \in Nat, NEW t \in Nat, NEW l \in Nat, NEW d \in Int, t <= s, s + d <= l PROVE t + d <= l
PROOF
  OBVIOUS

\* Objects go, and what is metered goes down by no more than they held.
LEMMA ObjectsGo ==
  ASSUME StorageInv, StorageTyped', \A b \in Objects : object'[b] = object[b] \/ object'[b] = NoObject,
         UNCHANGED <<put, known, writes>>, purged \subseteq purged', total' <= total, Metered',
         \A b \in Objects : Putting(b) /\ OwnerOf[b] \notin purged' => object'[b] = object[b]
  PROVE  StorageInv'
PROOF
  <1>1. ASSUME NEW x, NEW b \in Objects, ReadEarlier(x, b) PROVE ReadEarlier(x, b)'
    BY <1>1 DEF ReadEarlier
  <1>2. Versioned'
    <2>1. \A b \in Objects : object'[b] # NoObject => object'[b].born <= writes'
      BY DEF StorageInv, Versioned
    <2>2. ASSUME NEW v \in Writers, NEW b \in Objects PROVE ReadEarlier(known[v][b], b)'
      <3>1. PICK x : x = known[v][b]
        OBVIOUS
      <3>2. ReadEarlier(x, b)'
        BY <3>1, <1>1 DEF StorageInv, Versioned
      <3> QED
        BY <3>1, <3>2 DEF ReadEarlier
    <2>3. ASSUME NEW v \in Writers, put[v] # NotPutting PROVE ReadEarlier(put[v].expected, put[v].object)'
      <3>1. PICK x : x = put[v].expected
        OBVIOUS
      <3>2. PICK b \in Objects : b = put[v].object
        BY <2>3 DEF StorageInv, StorageTyped, Puts
      <3>3. ReadEarlier(x, b)'
        BY <2>3, <3>1, <3>2, <1>1 DEF StorageInv, Versioned
      <3> QED
        BY <3>1, <3>2, <3>3 DEF ReadEarlier
    <2> QED
      BY <2>1, <2>2, <2>3 DEF Versioned
  <1>3. PutsChecked'
    <2> SUFFICES ASSUME NEW v \in Writers, put[v] # NotPutting
                 PROVE  /\ put[v].delta > 0 => total' + put[v].delta <= StorageLimit
                        /\ OwnerOf[put[v].object] \notin purged' => put[v].delta = put[v].size - SizeOf(put[v].object)'
      BY DEF PutsChecked
    <2>1. put[v] \in Puts
      BY DEF StorageInv, StorageTyped
    <2>2. PICK b \in Objects, n \in Nat, d \in Int : b = put[v].object /\ n = put[v].size /\ d = put[v].delta
      BY <2>1 DEF Puts
    <2>3. /\ d > 0 => total + d <= StorageLimit
          /\ OwnerOf[b] \notin purged => d = n - SizeOf(b)
      BY <2>2 DEF StorageInv, PutsChecked
    <2>4. total \in Nat /\ total' \in Nat /\ StorageLimit \in Nat
      BY StorageAssumption DEF StorageInv, StorageTyped
    <2>5. d > 0 => total' + d <= StorageLimit
      <3>1. PICK s \in Nat, t \in Nat, l \in Nat : s = total /\ t = total' /\ l = StorageLimit /\ t <= s
        BY <2>4
      <3>2. s + d <= l => t + d <= l
        BY <3>1, StillFits
      <3> QED
        BY <2>3, <3>1, <3>2
    <2>6. OwnerOf[b] \notin purged' => SizeOf(b)' = SizeOf(b) /\ d = n - SizeOf(b)
      BY <2>2, <2>3 DEF Putting, SizeOf
    <2>7. SizeOf(put[v].object)' = SizeOf(b)'
      BY <2>2 DEF SizeOf
    <2> QED
      BY <2>2, <2>5, <2>6, <2>7
  <1>4. OnePut'
    BY DEF StorageInv, OnePut
  <1> QED
    BY <1>2, <1>3, <1>4 DEF StorageInv

\* storageDelete
LEMMA DeleteStep == ASSUME StorageInv, NEW o \in Objects, DeleteObject(o) PROVE StorageInv'
PROOF
  <1>1. /\ ~Putting(o) /\ object' = [object EXCEPT ![o] = NoObject] /\ total' = Plus(-SizeOf(o))
        /\ UNCHANGED <<put, known, purged, writes>>
    BY DEF DeleteObject, DeleteLocks
  <1>2. PICK n \in Nat : n = SizeOf(o)
    BY SizeIsNat DEF StorageInv
  <1>3. total \in Nat /\ total' = IF total - n < 0 THEN 0 ELSE total - n
    <2>1. total \in Nat
      BY DEF StorageInv, StorageTyped
    <2>2. total + (-n) = total - n
      BY <2>1
    <2> QED
      BY <1>1, <1>2, <2>1, <2>2 DEF Plus
  <1>4. total' \in Nat /\ total' <= total
    BY <1>2, <1>3
  <1>5. /\ object' \in [Objects -> KnownRows] /\ object'[o] = NoObject
        /\ \A b \in Objects \ {o} : object'[b] = object[b]
    BY <1>1 DEF StorageInv, StorageTyped, KnownRows
  <1>6. StorageTyped'
    BY <1>1, <1>4, <1>5 DEF StorageInv, StorageTyped
  <1>7. SizeOf(o)' = 0
    BY <1>5 DEF SizeOf
  <1>8. IsFiniteSet(Bytes') /\ Stored' = Stored - SizeOf(o) + SizeOf(o)' /\ Stored \in Nat /\ Stored' \in Nat
    BY <1>5, <1>6, BytesChange
  <1>9. Stored <= total /\ total <= StorageLimit /\ StorageLimit \in Nat
    BY StorageAssumption DEF StorageInv, Metered
  <1>10. Stored' <= total' /\ total' <= StorageLimit
    BY <1>2, <1>3, <1>7, <1>8, <1>9
  <1>11. Metered'
    BY <1>8, <1>10 DEF Metered
  <1>12. \A b \in Objects : object'[b] = object[b] \/ object'[b] = NoObject
    BY <1>5
  <1>13. \A b \in Objects : Putting(b) /\ OwnerOf[b] \notin purged' => object'[b] = object[b]
    BY <1>1, <1>5
  <1> QED
    BY <1>1, <1>4, <1>6, <1>11, <1>12, <1>13, ObjectsGo

\* HardDeletePlayers
LEMMA PurgeStep == ASSUME StorageInv, NEW q, PurgeOwner(q) PROVE StorageInv'
PROOF
  <1>1. /\ purged' = purged \union {q} /\ UNCHANGED <<total, put, known, writes>>
        /\ object' = [o \in Objects |-> IF OwnerOf[o] = q THEN NoObject ELSE object[o]]
    BY DEF PurgeOwner
  <1>2. StorageTyped'
    BY <1>1 DEF StorageInv, StorageTyped, KnownRows
  <1>3. \A b \in Objects : object'[b] = object[b] \/ object'[b] = NoObject
    BY <1>1
  <1>4. IsFiniteSet(Bytes') /\ Stored' <= Stored /\ Stored \in Nat /\ Stored' \in Nat
    BY <1>3, BytesFewer
  <1>5. total \in Nat /\ total' <= total
    BY <1>1 DEF StorageInv, StorageTyped
  <1>6. Metered'
    BY <1>1, <1>4, <1>5 DEF StorageInv, Metered
  <1>7. \A b \in Objects : Putting(b) /\ OwnerOf[b] \notin purged' => object'[b] = object[b]
    BY <1>1
  <1> QED
    BY <1>1, <1>2, <1>3, <1>5, <1>6, <1>7, ObjectsGo

\* Every request and the purge preserve StorageInv.
LEMMA StorageStep == StorageInv /\ [StorageNext]_psVars => StorageInv'
PROOF
  <1> SUFFICES ASSUME StorageInv, [StorageNext]_psVars PROVE StorageInv'
    OBVIOUS
  <1>1. CASE UNCHANGED psVars
    BY <1>1 DEF psVars, StorageInv, StorageTyped, OnePut, PutsChecked, Metered, Stored, Bytes, SizeOf, Versioned, ReadEarlier
  <1> QED
    BY <1>1, GetStep, PutBeginStep, PutCommitStep, PutFailsStep, DeleteStep, PurgeStep DEF StorageNext

\* PutStorageObjectIfMatch: the version that matched is that of the write the client
\* had read, where the row was not created anew.
LEMMA StorageNoLostUpdate == StorageInv /\ StorageNext => NoLostUpdate
PROOF
  <1> SUFFICES ASSUME StorageInv, StorageNext, NEW w \in Writers, put[w] # NotPutting, put'[w] = NotPutting,
                      put[w].expected # NoObject, object'[put[w].object] # object[put[w].object],
                      object[put[w].object].born = put[w].expected.born
               PROVE  object[put[w].object].stamp = put[w].expected.stamp
    BY DEF NoLostUpdate
  <1>1. put[w] \in Puts
    BY DEF StorageInv, StorageTyped
  <1>2. PICK o \in Objects, x \in KnownRows : o = put[w].object /\ x = put[w].expected
    BY <1>1 DEF Puts
  <1>3. ASSUME NEW v \in Writers, PutCommit(v) PROVE v = w
    BY <1>3 DEF PutCommit, StorageInv, OnePut
  <1>4. PutCommit(w)
    <2>1. object' # object /\ put' # put
      OBVIOUS
    <2> QED
      BY <2>1, <1>3 DEF StorageNext, GetObject, PutBegin, PutFails, DeleteObject, PurgeOwner
  <1>5. object[o].version = x.version
    BY <1>2, <1>4 DEF PutCommit
  <1>6. x \in StoredRows
    BY <1>2 DEF KnownRows
  <1>7. object[o] # NoObject
    BY <1>5, <1>6 DEF StoredRows, NoObject
  <1>8. ReadEarlier(x, o)
    BY <1>2 DEF StorageInv, Versioned
  <1> QED
    BY <1>2, <1>5, <1>7, <1>8 DEF ReadEarlier

\* httpapi/storage.go, for any objects, clients, sizes and quota: what is stored stays
\* within what is metered and that within the quota, whichever writes, deletes and
\* purges run against each other, and a conditional put loses no update.
THEOREM StorageHolds == StorageSpec => StorageSound
PROOF
  <1>1. StorageInv /\ [StorageNext]_psVars => [StorageWithinQuota' /\ NoLostUpdate]_psVars
    <2> SUFFICES ASSUME StorageInv, StorageNext PROVE StorageWithinQuota' /\ NoLostUpdate
      OBVIOUS
    <2>1. StorageInv'
      BY StorageStep
    <2> QED
      BY <2>1, StorageNoLostUpdate DEF StorageInv, Metered, StorageWithinQuota
  <1>2. StorageSpec => []StorageInv
    BY StorageInitial, StorageStep, PTL DEF StorageSpec
  <1> QED
    BY <1>1, <1>2, PTL DEF StorageSpec, StorageSound
=============================================================================
