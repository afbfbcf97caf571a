---------------------------- MODULE ServiceProofs ----------------------------
(***************************************************************************)
(* Proofs about the services whose rows several handlers and jobs write:   *)
(* leaderboards, the registry of players, entitlements, game sessions,     *)
(* player slots, servers operators allocate by hand, signals, and the      *)
(* sweep of the sockets: any boards, players, features and requests; every *)
(* bound is a parameter.                                                   *)
(***************************************************************************)
EXTENDS Leaderboard, PlayerRegistry, Entitlements, GameSession, PlayerSlots, ManualServers,
        SessionSignals, SocketSweep,
        FiniteSetTheorems, WellFoundedInduction, TLAPS

-----------------------------------------------------------------------------
(* Leaderboard *)

\* The row of a board, and the types of the rows around it.
Boards == [order : Orders, schedule : Schedules, period : Nat,
           started : {Never} \union Nat, next : Int, deleted : BOOLEAN]

BoardTyped ==
  /\ board \in Boards /\ board.period <= LastPeriod
  /\ entry \in [Scorers \X (0..LastPeriod) -> [attempts : Nat, orders : SUBSET Orders]]
  /\ archive \in SUBSET [period : Nat, started : {Never} \union Nat, ended : Int]
  /\ submit \in [Submissions -> {NotSubmitting} \union
                                [player : Scorers, period : Nat, order : Orders]]
  /\ clock \in Nat

\* SubmitsCurrent: a submission holds the board's row (FOR SHARE), so what it read
\* of the board is so until it commits.
SubmitsCurrent ==
  \A s \in Submissions : submit[s] # NotSubmitting
    => submit[s].period = board.period /\ submit[s].order = board.order

\* PeriodRuns: a scheduled board has a period under way, which began before now
\* and ends after it began.
PeriodRuns ==
  /\ board.started <= clock
  /\ board.schedule # NoSchedule => board.started # Never /\ board.started < board.next

\* The inductive invariant: PeriodsSound needs that the archived periods end
\* before the one under way, and that no submission holds an older period.
BoardInv == BoardTyped /\ SubmitsCurrent /\ PeriodRuns /\ PeriodsInOrder /\ OneOrder

\* period.NextReset lies strictly after the moment it is asked for, so that a
\* period has a length.
LEMMA NextResetLater ==
  ASSUME NEW s \in DOMAIN Lengths, NEW from \in Nat
  PROVE  NextReset(s, from) \in Int /\ NextReset(s, from) > from
PROOF
  <1>1. PICK l \in Nat \ {0} : l = Lengths[s]
    BY BoardAssumption
  <1>2. PICK q \in Nat, m \in Nat : q = from \div l /\ from = l * q + m /\ m < l
    OBVIOUS
  <1>3. l * (q + 1) = l * q + l
    OBVIOUS
  <1> QED
    BY <1>1, <1>2, <1>3 DEF NextReset

\* A board that CreateLeaderboard has just made.
LEMMA BoardInitial == BoardInit => BoardInv
PROOF
  <1> SUFFICES ASSUME BoardInit PROVE BoardInv
    OBVIOUS
  <1>1. PICK order \in Orders, schedule \in Schedules :
          board = [order |-> order, schedule |-> schedule, period |-> 0, deleted |-> FALSE,
                   started |-> IF schedule = NoSchedule THEN Never ELSE 0,
                   next |-> IF schedule = NoSchedule THEN Never ELSE NextReset(schedule, 0)]
    BY DEF BoardInit
  <1>2. schedule # NoSchedule => NextReset(schedule, 0) \in Int /\ NextReset(schedule, 0) > 0
    BY NextResetLater DEF Schedules
  <1>3. board \in Boards /\ PeriodRuns
    BY <1>1, <1>2 DEF Boards, PeriodRuns, Never, BoardInit
  <1>4. BoardTyped
    BY <1>1, <1>3, BoardAssumption DEF BoardTyped, BoardInit, NoEntry
  <1>5. PeriodsInOrder
    BY <1>1 DEF PeriodsInOrder, BoardInit
  <1> QED
    BY <1>3, <1>4, <1>5 DEF BoardInv, BoardInit, SubmitsCurrent, OneOrder, NoEntry

\* The entries of the archived periods stay as they are.
KeptInArchive ==
  \A a \in archive, p \in Scorers : entry'[<<p, a.period>>] = entry[<<p, a.period>>]

\* Every submission, reset and edit of the board keeps the invariant, and leaves
\* the entries of archived periods alone.
LEMMA BoardStep ==
  BoardInv /\ [BoardNext]_lbVars => BoardInv' /\ [KeptInArchive]_lbVars
PROOF
  <1> DEFINE Goal == BoardInv' /\ KeptInArchive
  <1> SUFFICES ASSUME BoardInv, [BoardNext]_lbVars
               PROVE  BoardInv' /\ [KeptInArchive]_lbVars
    OBVIOUS
  <1>0. /\ board \in Boards /\ clock \in Nat /\ board.period \in Nat /\ board.next \in Int
        /\ board.started \in {Never} \union Nat /\ board.schedule \in Schedules /\ board.order \in Orders
    BY DEF BoardInv, BoardTyped, Boards
  <1>1. ASSUME NEW s \in Submissions, NEW p \in Scorers, SubmitRead(s, p) PROVE Goal
    BY <1>0, <1>1 DEF SubmitRead, BoardInv, BoardTyped, SubmitsCurrent, PeriodRuns, PeriodsInOrder, OneOrder, KeptInArchive
  <1>2. ASSUME NEW s \in Submissions, SubmitCommit(s) PROVE Goal
    <2>1. /\ submit[s].player \in Scorers /\ submit[s].period = board.period
          /\ submit[s].order = board.order
      BY <1>2 DEF SubmitCommit, BoardInv, BoardTyped, SubmitsCurrent
    <2> DEFINE D == Scorers \X (0..LastPeriod)
    <2>1a. PICK e \in D : e = <<submit[s].player, board.period>>
      <3>1. board.period \in 0..LastPeriod
        BY <1>0, BoardAssumption DEF BoardInv, BoardTyped
      <3>2. <<submit[s].player, board.period>> \in D
        BY <2>1, <3>1
      <3> QED
        BY Zenon, <3>2
    <2>1b. PICK v : v = [attempts |-> entry[e].attempts + 1,
                         orders |-> entry[e].orders \union {board.order}]
      OBVIOUS
    <2>2. /\ submit' = [submit EXCEPT ![s] = NotSubmitting] /\ UNCHANGED <<board, archive, clock>>
          /\ \/ entry' = entry
             \/ entry' = [entry EXCEPT ![e] = v]
      BY <1>2, <2>1, <2>1a, <2>1b DEF SubmitCommit
    <2> HIDE DEF D
    <2>3. /\ entry \in [D -> [attempts : Nat, orders : SUBSET Orders]] /\ OneOrder
      BY DEF BoardInv, BoardTyped, D
    <2>3a. v \in [attempts : Nat, orders : SUBSET Orders] /\ v.orders \subseteq {board.order}
      BY <1>0, <2>1a, <2>1b, <2>3 DEF OneOrder
    <2>3b. /\ entry' \in [D -> [attempts : Nat, orders : SUBSET Orders]]
           /\ \A d \in D : d # e => entry'[d] = entry[d]
           /\ entry'[e] \in {entry[e], v}
      BY <2>2, <2>3, <2>3a
    <2>4. entry' \in [Scorers \X (0..LastPeriod) -> [attempts : Nat, orders : SUBSET Orders]]
      BY <2>3b DEF D
    <2>5. OneOrder'
      BY <2>2, <2>3, <2>3a, <2>3b DEF OneOrder
    <2>6. KeptInArchive
      <3> SUFFICES ASSUME NEW a \in archive, NEW p \in Scorers
                   PROVE  entry'[<<p, a.period>>] = entry[<<p, a.period>>]
        BY DEF KeptInArchive
      <3>1. a.period \in 0..LastPeriod /\ a.period # board.period
        BY <1>0, BoardAssumption DEF BoardInv, BoardTyped, PeriodsInOrder
      <3>2. <<p, a.period>> # e /\ <<p, a.period>> \in D
        BY <2>1a, <3>1 DEF D
      <3> QED
        BY <2>3b, <3>2
    <2> QED
      BY <2>2, <2>4, <2>5, <2>6 DEF BoardInv, BoardTyped, SubmitsCurrent, PeriodRuns, PeriodsInOrder
  <1>3. ASSUME NEW s \in Submissions, SubmitAborts(s) PROVE Goal
    BY <1>3 DEF SubmitAborts, BoardInv, BoardTyped, SubmitsCurrent, PeriodRuns, PeriodsInOrder, OneOrder, KeptInArchive
  <1>4. ASSUME NEW now \in 0..clock, ResetPeriod(now) PROVE Goal
    <2>1. /\ board.schedule \in DOMAIN Lengths /\ board.next <= now /\ board.started \in Nat
          /\ board.started < board.next
      BY <1>0, <1>4 DEF ResetPeriod, Due, BoardInv, PeriodRuns, Schedules
    <2>2. NextReset(board.schedule, now) \in Int /\ NextReset(board.schedule, now) > now
      BY <2>1, NextResetLater
    <2>3. board' = [order |-> board.order, schedule |-> board.schedule, period |-> board.period + 1,
                    started |-> board.next, next |-> NextReset(board.schedule, now),
                    deleted |-> board.deleted]
      BY <1>0, <1>4 DEF ResetPeriod, Advanced, Boards
    <2>4. PICK new : /\ new = [period |-> board.period, started |-> board.started, ended |-> board.next]
                     /\ archive' = archive \union {new} /\ UNCHANGED <<entry, submit, clock>>
      BY <1>4 DEF ResetPeriod, Archived
    <2>5. BoardTyped'
      <3>1. board'.period <= LastPeriod
        BY <1>0, <1>4, <2>3, BoardAssumption DEF ResetPeriod
      <3> QED
        BY <1>0, <2>1, <2>2, <2>3, <2>4, <3>1 DEF BoardInv, BoardTyped, Boards
    <2>6. SubmitsCurrent'
      BY <1>4, <2>4 DEF ResetPeriod, BoardFree, SubmitsCurrent
    <2>7. PeriodRuns'
      BY <1>0, <2>1, <2>2, <2>3, <2>4 DEF PeriodRuns, Never
    <2>8. PeriodsInOrder'
      <3>1. /\ new.period = board.period /\ new.started = board.started /\ new.ended = board.next
        BY <2>4
      <3>2. {a.period : a \in archive'} = 0..board.period
        BY <1>0, <2>4, <3>1 DEF BoardInv, PeriodsInOrder
      <3>3. \A a \in archive : /\ a.period \in 0..(board.period - 1) /\ a.started # Never /\ a.started < a.ended
                               /\ a.ended <= board.started /\ a.ended \in Int /\ a.started \in Int
        BY DEF BoardInv, PeriodsInOrder, BoardTyped, Never
      <3>4. \A a, b \in archive : /\ a.period = b.period => a = b
                                  /\ a.period < b.period => a.ended <= b.started
        BY DEF BoardInv, PeriodsInOrder
      <3>5. board'.period = board.period + 1 /\ board'.started = board.next
        BY <2>3
      <3>6. ASSUME NEW a \in archive'
            PROVE  /\ a.started # Never /\ a.started < a.ended /\ a.ended <= board'.started
                   /\ \A b \in archive' : a.period = b.period => a = b
                   /\ \A b \in archive' : a.period < b.period => a.ended <= b.started
        BY <1>0, <2>1, <2>4, <3>1, <3>3, <3>4, <3>5 DEF Never
      <3>7. board'.period - 1 = board.period
        BY <1>0, <3>5
      <3> QED
        BY <3>2, <3>6, <3>7 DEF PeriodsInOrder
    <2> QED
      BY <2>3, <2>4, <2>5, <2>6, <2>7, <2>8 DEF BoardInv, OneOrder, KeptInArchive
  <1>5. ASSUME NEW order \in Orders, NEW schedule \in Schedules, WriteBoard(order, schedule) PROVE Goal
    <2> DEFINE next == IF schedule = board.schedule THEN board.next
                       ELSE IF schedule = NoSchedule THEN Never ELSE NextReset(schedule, clock)
               started == IF schedule \notin {board.schedule, NoSchedule}
                             /\ (board.started = Never \/ board.schedule = NoSchedule) THEN clock
                          ELSE board.started
    <2>1. board' = [board EXCEPT !.order = order, !.schedule = schedule, !.next = next,
                                 !.started = started]
      BY <1>5 DEF WriteBoard, Updated
    <2>2. schedule # NoSchedule => NextReset(schedule, clock) \in Int /\ NextReset(schedule, clock) > clock
      BY <1>0, NextResetLater DEF Schedules
    <2>3. /\ next \in Int /\ started \in {Never} \union Nat /\ started <= clock
          /\ board.started <= started
          /\ schedule # NoSchedule => started # Never /\ started < next
      BY <1>0, <2>2 DEF BoardInv, PeriodRuns, Never
    <2> HIDE DEF next, started
    <2>4. board' = [order |-> order, schedule |-> schedule, period |-> board.period, started |-> started,
                    next |-> next, deleted |-> board.deleted]
      BY <1>0, <2>1 DEF Boards
    <2>5. BoardTyped'
      BY <1>0, <1>5, <2>3, <2>4 DEF WriteBoard, BoardInv, BoardTyped, Boards
    <2>6. SubmitsCurrent'
      BY <1>5 DEF WriteBoard, BoardFree, SubmitsCurrent
    <2>7. PeriodRuns'
      BY <1>5, <2>3, <2>4 DEF WriteBoard, PeriodRuns
    <2>8. PeriodsInOrder'
      BY <1>0, <1>5, <2>3, <2>4 DEF WriteBoard, BoardInv, BoardTyped, PeriodsInOrder, Never
    <2>9. OneOrder'
      BY <1>5, <2>4 DEF WriteBoard, HasEntries, NoEntry, BoardInv, OneOrder
    <2> QED
      BY <1>5, <2>5, <2>6, <2>7, <2>8, <2>9 DEF WriteBoard, BoardInv, KeptInArchive
  <1>6. ASSUME DeleteBoard \/ RestoreBoard PROVE Goal
    <2>1. /\ UNCHANGED <<entry, archive, submit, clock>>
          /\ \E d \in BOOLEAN : board' = [board EXCEPT !.deleted = d]
      BY <1>6 DEF DeleteBoard, RestoreBoard
    <2>2. /\ board' \in Boards /\ board'.order = board.order /\ board'.schedule = board.schedule
          /\ board'.period = board.period /\ board'.started = board.started /\ board'.next = board.next
      BY <1>0, <2>1 DEF Boards
    <2> QED
      BY <2>1, <2>2 DEF BoardInv, BoardTyped, SubmitsCurrent, PeriodRuns, PeriodsInOrder, OneOrder, KeptInArchive
  <1>7. ASSUME Tick PROVE Goal
    BY <1>0, <1>7 DEF Tick, BoardInv, BoardTyped, SubmitsCurrent, PeriodRuns, PeriodsInOrder, OneOrder, KeptInArchive, Never
  <1>8. ASSUME UNCHANGED lbVars PROVE BoardInv'
    BY <1>8 DEF lbVars, BoardInv, BoardTyped, SubmitsCurrent, PeriodRuns, PeriodsInOrder, OneOrder
  <1> QED
    BY <1>1, <1>2, <1>3, <1>4, <1>5, <1>6, <1>7, <1>8 DEF BoardNext

\* Whatever submissions, late resets and edits of the schedule interleave, the
\* periods that resetDueBoardsForTenant archives follow each other, are archived
\* once, keep their entries, and every entry has the board's one order.
THEOREM PeriodsHold == BoardSpec => PeriodsSound
PROOF
  <1>1. BoardInv => PeriodsInOrder /\ OneOrder
    BY DEF BoardInv
  <1> QED
    BY BoardInitial, BoardStep, <1>1, PTL DEF BoardSpec, PeriodsSound, KeptInArchive
-----------------------------------------------------------------------------
(* PlayerRegistry *)

\* The row of a player, and the types of what the handlers hold.
PlayerRows == [disabled : {"no", "before", "request"}, requested : {"no", "player", "admin"},
               due : BOOLEAN]

RegistryTyped ==
  /\ player \in [Ids -> {NoPlayerRow} \union PlayerRows]
  /\ count \in Nat
  /\ creating \in [Creators -> {NotCreating} \union [way : Ways, id : Ids]]
  /\ sweeping \in SUBSET Ids /\ suspended \in SUBSET Ids
  /\ IsFiniteSet(Registered)

\* SweptAreDue: the rows that purgeOneBatch has locked are still due.
SweptAreDue == \A p \in sweeping : p \in Registered /\ player[p].requested # "no" /\ player[p].due

\* Suspensions: a suspension stands on the row as one from before any request.
Suspensions == \A p \in suspended : p \in Registered /\ player[p].disabled = "before"

\* PendingDisabled: a row that waits for its deletion is disabled.
PendingDisabled == \A p \in Registered : player[p].requested # "no" => player[p].disabled # "no"

\* The inductive invariant of the registry.
RegistryInv ==
  /\ RegistryTyped /\ SweptAreDue /\ Suspensions /\ PendingDisabled /\ RegisteredWithinQuota

\* A tenant without players.
LEMMA RegistryInitial == RegistryInit => RegistryInv
PROOF
  <1> SUFFICES ASSUME RegistryInit PROVE RegistryInv
    OBVIOUS
  <1>1. Registered = {}
    BY DEF RegistryInit, Registered
  <1> QED
    BY <1>1, FS_EmptySet, RegistryAssumption
    DEF RegistryInit, RegistryInv, RegistryTyped, SweptAreDue, Suspensions, PendingDisabled,
        RegisteredWithinQuota

\* A player's row is not the absence of one.
LEMMA RowOrNone == \A r \in PlayerRows : r # NoPlayerRow
PROOF
  BY DEF PlayerRows, NoPlayerRow

\* A write to the row of a player that the purge does not hold.
LEMMA PlayerWritten ==
  ASSUME RegistryInv, NEW p \in Registered, NEW r \in PlayerRows,
         player' = [player EXCEPT ![p] = r], UNCHANGED <<count, creating, sweeping>>,
         p \in sweeping => r.due /\ r.requested = player[p].requested,
         r.requested # "no" => r.disabled # "no",
         suspended' \in SUBSET (suspended \union {p}),
         p \in suspended' => r.disabled = "before"
  PROVE  RegistryInv' /\ PurgedWhenDue
PROOF
  <1>1. p \in Ids /\ player \in [Ids -> {NoPlayerRow} \union PlayerRows]
    BY DEF RegistryInv, RegistryTyped, Registered
  <1>2. /\ player' \in [Ids -> {NoPlayerRow} \union PlayerRows] /\ player'[p] = r
        /\ \A q \in Ids : q # p => player'[q] = player[q]
    BY <1>1
  <1>3. Registered' = Registered
    BY <1>1, <1>2, RowOrNone DEF Registered
  <1>4. RegistryTyped'
    BY <1>1, <1>2, <1>3 DEF RegistryInv, RegistryTyped
  <1>5. RegisteredWithinQuota'
    BY <1>3 DEF RegistryInv, RegisteredWithinQuota
  <1>6. SweptAreDue'
    BY <1>1, <1>2, <1>3 DEF RegistryInv, SweptAreDue, Registered
  <1>7. Suspensions' /\ PendingDisabled'
    BY <1>1, <1>2, <1>3 DEF RegistryInv, Suspensions, PendingDisabled, Registered
  <1>8. PurgedWhenDue
    BY <1>1, <1>2, RowOrNone DEF PurgedWhenDue, Registered
  <1> QED
    BY <1>4, <1>5, <1>6, <1>7, <1>8 DEF RegistryInv

\* A step that leaves the rows as they are.
LEMMA PlayersSame ==
  ASSUME RegistryInv, UNCHANGED <<player, count, suspended>>,
         creating' \in [Creators -> {NotCreating} \union [way : Ways, id : Ids]],
         sweeping' \in SUBSET Ids,
         \A p \in sweeping' : p \in Registered /\ player[p].requested # "no" /\ player[p].due
  PROVE  RegistryInv' /\ PurgedWhenDue
PROOF
  <1>1. Registered' = Registered
    BY DEF Registered
  <1> QED
    BY <1>1
    DEF RegistryInv, RegistryTyped, SweptAreDue, Suspensions, PendingDisabled, RegisteredWithinQuota,
        PurgedWhenDue, Registered

\* Every sign-up, suspension, request, cancellation and purge keeps the invariant;
\* and only a due row is deleted.
LEMMA RegistryStep ==
  RegistryInv /\ [RegistryNext]_prVars => RegistryInv' /\ [PurgedWhenDue]_prVars
PROOF
  <1> DEFINE Goal == RegistryInv' /\ PurgedWhenDue
  <1> SUFFICES ASSUME RegistryInv, [RegistryNext]_prVars
               PROVE  RegistryInv' /\ [PurgedWhenDue]_prVars
    OBVIOUS
  <1>0. /\ player \in [Ids -> {NoPlayerRow} \union PlayerRows] /\ count \in Nat
        /\ creating \in [Creators -> {NotCreating} \union [way : Ways, id : Ids]]
        /\ sweeping \in SUBSET Ids /\ suspended \in SUBSET Ids /\ IsFiniteSet(Registered)
    BY DEF RegistryInv, RegistryTyped
  <1>0a. ASSUME NEW p \in Ids, player[p] # NoPlayerRow
         PROVE  /\ p \in Registered /\ player[p] \in PlayerRows /\ player[p].due \in BOOLEAN
                /\ player[p].disabled \in {"no", "before", "request"}
                /\ player[p].requested \in {"no", "player", "admin"}
    BY <1>0, <1>0a DEF Registered, PlayerRows
  <1>1. ASSUME NEW c \in Creators, NEW way \in Ways, NEW p \in Ids, CreateRead(c, way, p) PROVE Goal
    BY <1>0, <1>1, PlayersSame DEF CreateRead, RegistryInv, SweptAreDue
  <1>2. ASSUME NEW c \in Creators, CreateCommit(c) PROVE Goal
    <2>1. PICK p \in Ids : /\ p = creating[c].id /\ p \notin sweeping
                           /\ count < PlayerLimit /\ count' = count + 1
                           /\ player' = IF player[p] # NoPlayerRow THEN player
                                 ELSE [player EXCEPT ![p] = [disabled |-> "no", requested |-> "no", due |-> FALSE]]
                           /\ creating' = [creating EXCEPT ![c] = NotCreating]
                           /\ UNCHANGED <<sweeping, suspended>>
      BY <1>0, <1>2 DEF CreateCommit, NotSwept, CanReserve
    <2>2. creating' \in [Creators -> {NotCreating} \union [way : Ways, id : Ids]]
      BY <1>0, <2>1
    <2>3. Cardinality(Registered) \in Nat /\ Cardinality(Registered) <= count /\ count + 1 <= PlayerLimit
      BY <1>0, <2>1, FS_CardinalityType, RegistryAssumption DEF RegistryInv, RegisteredWithinQuota
    <2>4. CASE player[p] # NoPlayerRow
      <3>1. UNCHANGED player /\ Registered' = Registered
        BY <2>1, <2>4 DEF Registered
      <3>2. RegisteredWithinQuota'
        BY <1>0, <2>1, <2>3, <3>1 DEF RegisteredWithinQuota
      <3>3. RegistryTyped'
        BY <1>0, <2>1, <2>2, <3>1 DEF RegistryTyped
      <3>4. SweptAreDue' /\ Suspensions' /\ PendingDisabled'
        BY <2>1, <3>1 DEF RegistryInv, SweptAreDue, Suspensions, PendingDisabled
      <3>5. PurgedWhenDue
        BY <3>1 DEF PurgedWhenDue, Registered
      <3> QED
        BY <3>2, <3>3, <3>4, <3>5 DEF RegistryInv
    <2>5. CASE player[p] = NoPlayerRow
      <3>1. PICK r : r = [disabled |-> "no", requested |-> "no", due |-> FALSE]
        OBVIOUS
      <3>2. r \in PlayerRows /\ r.requested = "no"
        BY <3>1 DEF PlayerRows
      <3>3. /\ player' \in [Ids -> {NoPlayerRow} \union PlayerRows] /\ player'[p] = r
            /\ \A q \in Ids : q # p => player'[q] = player[q]
        BY <1>0, <2>1, <2>5, <3>1, <3>2
      <3>4. Registered' = Registered \union {p} /\ p \notin Registered
        BY <2>5, <3>2, <3>3, RowOrNone DEF Registered
      <3>5. IsFiniteSet(Registered') /\ Cardinality(Registered') = Cardinality(Registered) + 1
        BY <1>0, <3>4, FS_AddElement
      <3>6. RegisteredWithinQuota'
        BY <1>0, <2>1, <2>3, <3>5 DEF RegisteredWithinQuota
      <3>7. RegistryTyped'
        BY <1>0, <2>1, <2>2, <3>3, <3>5 DEF RegistryTyped
      <3>8. SweptAreDue' /\ Suspensions' /\ PendingDisabled'
        BY <1>0, <2>1, <3>2, <3>3, <3>4
        DEF RegistryInv, SweptAreDue, Suspensions, PendingDisabled, Registered
      <3>9. PurgedWhenDue
        BY <3>3, <3>4 DEF PurgedWhenDue, Registered
      <3> QED
        BY <3>6, <3>7, <3>8, <3>9 DEF RegistryInv
    <2> QED
      BY <2>4, <2>5
  <1>3. ASSUME NEW c \in Creators, CreateAborts(c) PROVE Goal
    BY <1>0, <1>3, PlayersSame DEF CreateAborts, RegistryInv, SweptAreDue
  <1>4. ASSUME NEW p \in Ids, Suspend(p) PROVE Goal
    <2>1. PICK r : r = [player[p] EXCEPT !.disabled = "before"]
      OBVIOUS
    <2>2. /\ player' = [player EXCEPT ![p] = r] /\ suspended' = suspended \union {p} /\ p \notin sweeping
          /\ player[p] # NoPlayerRow /\ UNCHANGED <<count, creating, sweeping>> /\ player[p].requested = "no"
      BY <1>4, <2>1 DEF Suspend, NotSwept
    <2>3. r \in PlayerRows /\ r.disabled = "before" /\ r.requested = "no"
      BY <1>0a, <2>1, <2>2 DEF PlayerRows
    <2> QED
      BY <1>0a, <2>2, <2>3, PlayerWritten
  <1>5. ASSUME NEW p \in Ids, Enable(p) PROVE Goal
    <2>1. PICK r : r = [player[p] EXCEPT !.disabled = "no"]
      OBVIOUS
    <2>2. /\ player' = [player EXCEPT ![p] = r] /\ suspended' = suspended \ {p} /\ p \notin sweeping
          /\ player[p] # NoPlayerRow /\ UNCHANGED <<count, creating, sweeping>> /\ player[p].requested = "no"
      BY <1>5, <2>1 DEF Enable, NotSwept
    <2>3. r \in PlayerRows /\ r.disabled = "no" /\ r.requested = "no"
      BY <1>0a, <2>1, <2>2 DEF PlayerRows
    <2> QED
      BY <1>0a, <2>2, <2>3, PlayerWritten
  <1>6. ASSUME NEW p \in Ids, NEW who \in {"player", "admin"}, RequestDelete(p, who) PROVE Goal
    <2>1. PICK kept : kept = IF player[p].disabled = "no" THEN "request" ELSE player[p].disabled
      OBVIOUS
    <2>2. PICK r : r = [disabled |-> kept, requested |-> who, due |-> player[p].due]
      OBVIOUS
    <2>3. /\ player' = [player EXCEPT ![p] = r] /\ p \notin sweeping
          /\ player[p] # NoPlayerRow /\ UNCHANGED <<count, creating, sweeping, suspended>>
      BY <1>6, <2>1, <2>2 DEF RequestDelete, NotSwept
    <2>4. kept \in {"before", "request"} /\ (player[p].disabled = "before" => kept = "before")
      BY <1>0a, <2>1, <2>3
    <2>5. r \in PlayerRows /\ r.disabled = kept
      BY <1>0a, <2>2, <2>3, <2>4 DEF PlayerRows
    <2>6. p \in suspended => player[p].disabled = "before"
      BY DEF RegistryInv, Suspensions
    <2> QED
      BY <1>0a, <2>3, <2>4, <2>5, <2>6, PlayerWritten
  <1>7. ASSUME NEW p \in Ids, NEW who \in {"player", "admin"}, CancelDelete(p, who) PROVE Goal
    <2>1. PICK kept : kept = Lifted(p)
      OBVIOUS
    <2>2. PICK r : r = [disabled |-> kept, requested |-> "no", due |-> FALSE]
      OBVIOUS
    <2>3. /\ player' = [player EXCEPT ![p] = r] /\ p \notin sweeping
          /\ player[p] # NoPlayerRow /\ UNCHANGED <<count, creating, sweeping, suspended>>
      BY <1>7, <2>1, <2>2 DEF CancelDelete, NotSwept
    <2>4. kept \in {"no", "before", "request"} /\ (player[p].disabled = "before" => kept = "before")
      BY <1>0a, <2>1, <2>3 DEF Lifted
    <2>5. r \in PlayerRows /\ r.disabled = kept /\ r.requested = "no"
      BY <2>2, <2>4 DEF PlayerRows
    <2>6. p \in suspended => player[p].disabled = "before"
      BY DEF RegistryInv, Suspensions
    <2> QED
      BY <1>0a, <2>3, <2>4, <2>5, <2>6, PlayerWritten
  <1>8. ASSUME NEW p \in Ids, GracePasses(p) PROVE Goal
    <2>1. PICK r : r = [player[p] EXCEPT !.due = TRUE]
      OBVIOUS
    <2>2. /\ player' = [player EXCEPT ![p] = r]
          /\ player[p] # NoPlayerRow /\ UNCHANGED <<count, creating, sweeping, suspended>>
      BY <1>8, <2>1 DEF GracePasses
    <2>3. /\ r \in PlayerRows /\ r.disabled = player[p].disabled /\ r.requested = player[p].requested
          /\ r.due
      BY <1>0a, <2>1, <2>2 DEF PlayerRows
    <2>4. /\ p \in suspended => player[p].disabled = "before"
          /\ player[p].requested # "no" => player[p].disabled # "no"
      BY <1>0a, <2>2 DEF RegistryInv, Suspensions, PendingDisabled
    <2> QED
      BY <1>0a, <2>2, <2>3, <2>4, PlayerWritten
  <1>9. ASSUME NEW batch \in SUBSET Ids, PurgeLock(batch) PROVE Goal
    BY <1>0, <1>0a, <1>9, PlayersSame DEF PurgeLock
  <1>10. ASSUME PurgeCommit PROVE Goal
    <2>1. /\ player' = [p \in Ids |-> IF p \in sweeping THEN NoPlayerRow ELSE player[p]]
          /\ suspended' = suspended \ sweeping /\ sweeping' = {} /\ UNCHANGED creating
          /\ count' = IF count > Cardinality(sweeping) THEN count - Cardinality(sweeping) ELSE 0
      BY <1>10 DEF PurgeCommit
    <2>2. sweeping \subseteq Registered
      BY DEF RegistryInv, SweptAreDue
    <2>3. Registered' = Registered \ sweeping
      BY <1>0, <2>1 DEF Registered
    <2>4. PICK n \in Nat, m \in Nat, k \in Nat :
            /\ n = Cardinality(Registered) /\ m = Cardinality(sweeping)
            /\ k = Cardinality(Registered \ sweeping) /\ k = n - m /\ m <= n
            /\ IsFiniteSet(Registered \ sweeping)
      <3>1. IsFiniteSet(sweeping) /\ IsFiniteSet(Registered \ sweeping)
        BY <1>0, <2>2, FS_Subset
      <3>2. Cardinality(Registered \ sweeping) = Cardinality(Registered) - Cardinality(Registered \cap sweeping)
        BY <1>0, FS_Difference
      <3>3. Registered \cap sweeping = sweeping
        BY <2>2
      <3> QED
        BY <1>0, <2>2, <3>1, <3>2, <3>3, FS_CardinalityType, FS_Subset
    <2>5. RegisteredWithinQuota' /\ count' \in Nat
      BY <1>0, <2>1, <2>3, <2>4, RegistryAssumption DEF RegistryInv, RegisteredWithinQuota
    <2>6. /\ player' \in [Ids -> {NoPlayerRow} \union PlayerRows]
          /\ \A p \in Ids \ sweeping : player'[p] = player[p]
          /\ \A p \in sweeping : player'[p] = NoPlayerRow
      BY <1>0, <2>1
    <2>7. RegistryTyped'
      BY <1>0, <2>1, <2>3, <2>4, <2>5, <2>6 DEF RegistryTyped
    <2>8. SweptAreDue' /\ Suspensions' /\ PendingDisabled'
      BY <1>0, <2>1, <2>3, <2>6 DEF RegistryInv, SweptAreDue, Suspensions, PendingDisabled, Registered
    <2>9. PurgedWhenDue
      BY <1>0, <2>6 DEF PurgedWhenDue, Registered, RegistryInv, SweptAreDue
    <2> QED
      BY <2>5, <2>7, <2>8, <2>9 DEF RegistryInv
  <1>11. ASSUME PurgeAborts PROVE Goal
    BY <1>0, <1>11, PlayersSame DEF PurgeAborts
  <1>12. ASSUME UNCHANGED prVars PROVE RegistryInv'
    BY <1>0, <1>12, PlayersSame DEF prVars, RegistryInv, SweptAreDue
  <1> QED
    BY <1>1, <1>2, <1>3, <1>4, <1>5, <1>6, <1>7, <1>8, <1>9, <1>10, <1>11, <1>12 DEF RegistryNext

\* However sign-ups, suspensions, deletion requests, cancellations and the purge
\* job interleave, reservePlayerSlot keeps the players within the quota, nobody's
\* suspension is lifted by a cancellation, and purgeOneBatch deletes only players
\* whose deletion is pending and due.
THEOREM PlayersHold == RegistrySpec => PlayersSound
PROOF
  <1>1. RegistryInv => RegisteredWithinQuota /\ SuspensionSurvives
    BY DEF RegistryInv, Suspensions, PendingDisabled, SuspensionSurvives
  <1> QED
    BY RegistryInitial, RegistryStep, <1>1, PTL DEF RegistrySpec, PlayersSound
-----------------------------------------------------------------------------
(* Entitlements *)

\* What a PUT of the entitlements has in hand, by how far it has come.
FactsRead == [at : {"facts"}, desired : Desired, oldClass : Classes, others : SUBSET Axes]
FeaturesRead == [at : {"features"}, desired : Desired, oldClass : Classes, enable : SUBSET Features,
                 disable : SUBSET Features, others : SUBSET Axes]
Answering == [at : {"answering"}, desired : Desired, others : SUBSET Axes]
Puts == {AtRest} \union FactsRead \union FeaturesRead \union Answering
Asked == [at : {"asking", "answered"}, feature : Features, on : BOOLEAN, age : Nat]

\* The types of the tenant's rows, of the handlers and of the feature cache.
EntitlementsTyped ==
  /\ class \in Classes /\ held \in SUBSET Features
  /\ apply \in [Applies -> Puts]
  /\ admin \in [Admins -> {AtRest} \union [at : {"granting", "requesting"}, feature : Features]]
  /\ check \in [Checks -> {AtRest} \union Asked]
  /\ remembered \in [Features -> [on : BOOLEAN, age : Nat]]
  /\ since \in [Features -> [BOOLEAN -> Nat]]
  /\ wanted \in SUBSET Features

\* The database has just given the answer that it would give.
AnswersNow == \A f \in Features : since[f][(f \in held)] = 0

\* What a PUT has read is so, or another writer has changed just that since.
PutHolds(r) ==
  /\ r.at \in {"facts", "features"} => class = r.oldClass \/ "class" \in r.others
  /\ r.at = "features" => \A f \in Features \ r.others :
       /\ f \in r.enable <=> f \notin held /\ f \in r.desired.features
       /\ f \in r.disable <=> f \in held /\ f \notin r.desired.features
  /\ r.at = "answering" =>
       /\ class = r.desired.class \/ "class" \in r.others
       /\ \A f \in Features \ r.others : f \in held <=> f \in r.desired.features

PutsHold == \A a \in Applies : PutHolds(apply[a])

\* The inductive invariant of the entitlements.
EntitlementsInv == EntitlementsTyped /\ AnswersNow /\ PutsHold /\ ChangesTakeEffect

\* Membership has a truth value, which a check stores.
LEMMA Truth ==
  ASSUME NEW x, NEW S
  PROVE  \E w \in BOOLEAN : w = (x \in S)
PROOF
  <1>1. CASE x \in S
    <2>1. TRUE = (x \in S)
      BY <1>1
    <2> QED
      BY Zenon, <2>1
  <1>2. CASE x \notin S
    <2>1. FALSE = (x \in S)
      BY <1>2
    <2> QED
      BY Zenon, <2>1
  <1> QED
    BY <1>1, <1>2

\* What another's commit notes on a PUT.
LEMMA PutNoted ==
  ASSUME NEW r \in Puts \ {AtRest}, NEW wrote \in SUBSET Axes, NEW q,
         q = [r EXCEPT !.others = r.others \union wrote]
  PROVE  /\ q \in Puts /\ q.at = r.at /\ q.desired = r.desired /\ q.others = r.others \union wrote
         /\ r.at \in {"facts", "features"} => q.oldClass = r.oldClass
         /\ r.at = "features" => q.enable = r.enable /\ q.disable = r.disable
PROOF
  <1>1. CASE r \in FactsRead
    <2>1. q = [at |-> "facts", desired |-> r.desired, oldClass |-> r.oldClass, others |-> r.others \union wrote]
      BY <1>1 DEF FactsRead
    <2>2. q \in FactsRead
      BY <1>1, <2>1 DEF FactsRead
    <2> QED
      BY <1>1, <2>1, <2>2 DEF FactsRead, Puts
  <1>2. CASE r \in FeaturesRead
    <2>1. q = [at |-> "features", desired |-> r.desired, oldClass |-> r.oldClass, enable |-> r.enable,
               disable |-> r.disable, others |-> r.others \union wrote]
      BY <1>2 DEF FeaturesRead
    <2>2. q \in FeaturesRead
      BY <1>2, <2>1 DEF FeaturesRead
    <2> QED
      BY <1>2, <2>1, <2>2 DEF FeaturesRead, Puts
  <1>3. CASE r \in Answering
    <2>1. q = [at |-> "answering", desired |-> r.desired, others |-> r.others \union wrote]
      BY <1>3 DEF Answering
    <2>2. q \in Answering
      BY <1>3, <2>1 DEF Answering
    <2> QED
      BY <1>3, <2>1, <2>2 DEF Answering, Puts
  <1> QED
    BY <1>1, <1>2, <1>3 DEF Puts

\* A tenant as it is created: no feature, and nothing cached.
LEMMA EntitlementsInitial == EntitlementsInit => EntitlementsInv
PROOF
  <1> SUFFICES ASSUME EntitlementsInit PROVE EntitlementsInv
    OBVIOUS
  <1>1. since \in [Features -> [BOOLEAN -> Nat]] /\ AnswersNow
    <2>1. \A f \in Features : since[f] = [v \in BOOLEAN |-> IF v THEN GrantTTL ELSE 0]
      BY DEF EntitlementsInit
    <2>2. \A f \in Features : f \notin held
      BY DEF EntitlementsInit
    <2>3. ASSUME NEW f \in Features
          PROVE  since[f] \in [BOOLEAN -> Nat] /\ since[f][(f \in held)] = 0
      <3>1. \A v \in BOOLEAN : (IF v THEN GrantTTL ELSE 0) \in Nat
        BY EntitlementsAssumption
      <3>2. since[f] \in [BOOLEAN -> Nat] /\ since[f][FALSE] = 0
        BY <2>1, <3>1
      <3>3. (f \in held) = FALSE
        BY <2>2
      <3> QED
        BY <3>2, <3>3
    <2> QED
      BY <2>3 DEF EntitlementsInit, AnswersNow
  <1>2. EntitlementsTyped
    BY <1>1, EntitlementsAssumption DEF EntitlementsInit, EntitlementsTyped, Classes, Puts, Unknown
  <1>3. PutsHold
    BY DEF EntitlementsInit, PutsHold, PutHolds, AtRest
  <1>4. ChangesTakeEffect
    BY EntitlementsAssumption DEF EntitlementsInit, ChangesTakeEffect, Fresh, Unknown
  <1> QED
    BY <1>1, <1>2, <1>3, <1>4 DEF EntitlementsInv

\* A commit makes no answer older, and every PUT under way notes what it wrote.
LEMMA CommitKeeps ==
  ASSUME EntitlementsInv, NEW newClass \in Classes, NEW newHeld \in SUBSET Features,
         NEW puts \in SUBSET UnderWay, Commits(newClass, newHeld, puts),
         \A a \in UnderWay \ puts :
           /\ apply[a].at = "features"
           /\ newClass = apply[a].desired.class \/ "class" \in apply[a].others
           /\ \A f \in Features \ apply[a].others : f \in newHeld <=> f \in apply[a].desired.features,
         UNCHANGED <<check, remembered>>, wanted' \in SUBSET Features,
         admin' \in [Admins -> {AtRest} \union [at : {"granting", "requesting"}, feature : Features]]
  PROVE  EntitlementsInv'
PROOF
  <1> DEFINE wrote == (IF newClass # class THEN {"class"} ELSE {})
                        \union {f \in Features : (f \in held) # (f \in newHeld)}
  <1>0. /\ class' = newClass /\ held' = newHeld
        /\ since' = [f \in Features |-> [since[f] EXCEPT ![f \in newHeld] = 0]]
        /\ apply' = [a \in Applies |-> IF a \in puts THEN [apply[a] EXCEPT !.others = @ \union wrote]
                                      ELSE IF apply[a] = AtRest THEN AtRest
                                      ELSE [at |-> "answering", desired |-> apply[a].desired,
                                            others |-> apply[a].others]]
    BY DEF Commits
  <1>1. wrote \in SUBSET Axes
    BY DEF Axes
  <1>2. /\ newClass # class => "class" \in wrote
        /\ \A f \in Features \ wrote : f \in held <=> f \in newHeld
    OBVIOUS
  <1> HIDE DEF wrote
  <1>3. ASSUME NEW a \in Applies
        PROVE  apply'[a] \in Puts /\ PutHolds(apply[a])'
    <2>0. apply[a] \in Puts /\ PutHolds(apply[a])
      BY DEF EntitlementsInv, EntitlementsTyped, PutsHold
    <2>1. CASE a \in puts
      <3>1. apply[a] \in Puts \ {AtRest}
        BY <2>0, <2>1 DEF UnderWay
      <3>2. apply'[a] = [apply[a] EXCEPT !.others = @ \union wrote]
        BY <1>0, <2>1
      <3> DEFINE r == apply[a]
                 q == apply'[a]
      <3>2a. r \in Puts \ {AtRest} /\ q = [r EXCEPT !.others = r.others \union wrote]
        BY <3>1, <3>2
      <3> HIDE DEF q, r
      <3>3. /\ q \in Puts /\ q.at = r.at /\ q.desired = r.desired /\ q.others = r.others \union wrote
            /\ r.at \in {"facts", "features"} => q.oldClass = r.oldClass
            /\ r.at = "features" => q.enable = r.enable /\ q.disable = r.disable
        BY <1>1, <3>2a, PutNoted
      <3>4. q.at \in {"facts", "features"} => class' = q.oldClass \/ "class" \in q.others
        <4>1. r.at \in {"facts", "features"} => class = r.oldClass \/ "class" \in r.others
          BY <2>0 DEF PutHolds, r
        <4>2. "class" \in r.others \/ "class" \in wrote => "class" \in q.others
          BY <3>3
        <4> QED
          BY <1>0, <1>2, <3>3, <4>1, <4>2
      <3>5. q.at = "features" => \A f \in Features \ q.others :
              /\ f \in q.enable <=> f \notin held' /\ f \in q.desired.features
              /\ f \in q.disable <=> f \in held' /\ f \notin q.desired.features
        BY <1>0, <1>2, <2>0, <3>3 DEF PutHolds, r
      <3>6. q.at = "answering" =>
              /\ class' = q.desired.class \/ "class" \in q.others
              /\ \A f \in Features \ q.others : f \in held' <=> f \in q.desired.features
        BY <1>0, <1>2, <2>0, <3>3 DEF PutHolds, r
      <3> QED
        BY <3>3, <3>4, <3>5, <3>6 DEF PutHolds, q
    <2>2. CASE a \notin puts /\ apply[a] = AtRest
      <3>1. apply'[a] = AtRest
        BY <1>0, <2>2
      <3> QED
        BY <3>1 DEF PutHolds, AtRest, Puts
    <2>3. CASE a \notin puts /\ apply[a] # AtRest
      <3>1. a \in UnderWay \ puts
        BY <2>3 DEF UnderWay
      <3>2. apply[a] \in FeaturesRead
        BY <2>0, <3>1 DEF Puts, FactsRead, Answering, AtRest
      <3>3. apply'[a] = [at |-> "answering", desired |-> apply[a].desired, others |-> apply[a].others]
        BY <1>0, <2>3
      <3>4. apply'[a] \in Answering
        BY <3>2, <3>3 DEF FeaturesRead, Answering
      <3> QED
        BY <1>0, <3>1, <3>3, <3>4 DEF PutHolds, Puts
    <2> QED
      BY <2>1, <2>2, <2>3
  <1>4. ASSUME NEW f \in Features
        PROVE  /\ since'[f] \in [BOOLEAN -> Nat] /\ since'[f][(f \in held')] = 0
               /\ \A v \in BOOLEAN : since'[f][v] <= since[f][v]
    <2>1. since[f] \in [BOOLEAN -> Nat]
      BY DEF EntitlementsInv, EntitlementsTyped
    <2>2. PICK w \in BOOLEAN : w = (f \in newHeld)
      BY Truth
    <2>3. since'[f] = [since[f] EXCEPT ![w] = 0]
      BY <1>0, <2>2
    <2>4. since'[f] \in [BOOLEAN -> Nat] /\ since'[f][w] = 0
      BY <2>1, <2>3
    <2>5. \A v \in BOOLEAN : since'[f][v] <= since[f][v]
      BY <2>1, <2>3
    <2> QED
      BY <1>0, <2>2, <2>4, <2>5
  <1>5. EntitlementsTyped'
    <2>1. apply' \in [Applies -> Puts]
      BY <1>0, <1>3
    <2>2. since' \in [Features -> [BOOLEAN -> Nat]]
      BY <1>0, <1>4
    <2> QED
      BY <1>0, <2>1, <2>2 DEF EntitlementsInv, EntitlementsTyped
  <1>6. AnswersNow'
    BY <1>4 DEF AnswersNow
  <1>7. PutsHold'
    BY <1>3 DEF PutsHold
  <1>8. ChangesTakeEffect'
    BY <1>4, <1>5, EntitlementsAssumption
    DEF EntitlementsInv, EntitlementsTyped, ChangesTakeEffect, Fresh, Asked, AtRest
  <1> QED
    BY <1>5, <1>6, <1>7, <1>8 DEF EntitlementsInv

\* A step that changes only what one PUT has in hand.
LEMMA PutWritten ==
  ASSUME EntitlementsInv, NEW a \in Applies, NEW r \in Puts, apply' = [apply EXCEPT ![a] = r],
         PutHolds(r), UNCHANGED <<class, held, wanted, admin, check, remembered, since>>
  PROVE  EntitlementsInv'
PROOF
  <1>1. /\ apply' \in [Applies -> Puts] /\ apply'[a] = r
        /\ \A b \in Applies : b # a => apply'[b] = apply[b]
    BY DEF EntitlementsInv, EntitlementsTyped
  <1>2. EntitlementsTyped'
    BY <1>1 DEF EntitlementsInv, EntitlementsTyped
  <1>3. ASSUME NEW b \in Applies PROVE PutHolds(apply[b])'
    BY <1>1 DEF EntitlementsInv, PutsHold, PutHolds
  <1> QED
    BY <1>2, <1>3 DEF EntitlementsInv, AnswersNow, PutsHold, ChangesTakeEffect

\* A step that leaves what was written and what the PUTs have read as it is.
LEMMA GrantsSame ==
  ASSUME EntitlementsInv, EntitlementsTyped', UNCHANGED <<class, held, apply>>,
         AnswersNow', ChangesTakeEffect'
  PROVE  EntitlementsInv'
PROOF
  BY DEF EntitlementsInv, PutsHold, PutHolds

\* Every step of a PUT, of the control panel, of a check and of time.
LEMMA EntitlementsStep == EntitlementsInv /\ [EntitlementsNext]_enVars => EntitlementsInv'
PROOF
  <1> SUFFICES ASSUME EntitlementsInv, [EntitlementsNext]_enVars PROVE EntitlementsInv'
    OBVIOUS
  <1>0. /\ class \in Classes /\ held \in SUBSET Features /\ wanted \in SUBSET Features
        /\ apply \in [Applies -> Puts]
        /\ admin \in [Admins -> {AtRest} \union [at : {"granting", "requesting"}, feature : Features]]
        /\ check \in [Checks -> {AtRest} \union Asked]
        /\ remembered \in [Features -> [on : BOOLEAN, age : Nat]]
        /\ since \in [Features -> [BOOLEAN -> Nat]] /\ GrantTTL \in Nat
    BY EntitlementsAssumption DEF EntitlementsInv, EntitlementsTyped
  <1>1. ASSUME NEW a \in Applies, NEW d \in Desired, ApplyFacts(a, d) PROVE EntitlementsInv'
    <2>1. PICK r : r = [at |-> "facts", desired |-> d, oldClass |-> class, others |-> {}]
      OBVIOUS
    <2>2. r \in Puts
      BY <1>0, <2>1 DEF Puts, FactsRead
    <2>3. PutHolds(r)
      BY <2>1 DEF PutHolds
    <2> QED
      BY <1>1, <2>1, <2>2, <2>3, PutWritten DEF ApplyFacts
  <1>2. ASSUME NEW a \in Applies, ApplyFeatures(a) PROVE EntitlementsInv'
    <2>1. apply[a] \in FactsRead /\ PutHolds(apply[a]) /\ apply[a].at = "facts"
      BY <1>0, <1>2
      DEF ApplyFeatures, Puts, FeaturesRead, Answering, AtRest, EntitlementsInv, PutsHold
    <2>2. PICK wants \in SUBSET Features : wants = apply[a].desired.features
      BY <2>1 DEF FactsRead, Desired
    <2>3. PICK r : r = [at |-> "features", desired |-> apply[a].desired, oldClass |-> apply[a].oldClass,
                        enable |-> wants \ held, disable |-> held \ wants, others |-> apply[a].others]
      OBVIOUS
    <2>4. apply' = [apply EXCEPT ![a] = r] /\ UNCHANGED <<class, held, wanted, admin, check, remembered, since>>
      BY <1>2, <2>2, <2>3 DEF ApplyFeatures, DiffStates
    <2>5. r \in FeaturesRead
      BY <1>0, <2>1, <2>3 DEF FactsRead, FeaturesRead
    <2>6. PutHolds(r)
      BY <1>0, <2>1, <2>2, <2>3 DEF PutHolds
    <2>7. r \in Puts
      BY <2>5 DEF Puts
    <2> QED
      BY <2>4, <2>6, <2>7, PutWritten
  <1>3. ASSUME NEW a \in Applies, ApplyCommit(a) PROVE EntitlementsInv'
    <2>1. apply[a] \in FeaturesRead /\ PutHolds(apply[a]) /\ apply[a].at = "features"
      BY <1>0, <1>3
      DEF ApplyCommit, Puts, FactsRead, Answering, AtRest, EntitlementsInv, PutsHold
    <2>2. PICK newClass : newClass = IF apply[a].oldClass # apply[a].desired.class
                                     THEN apply[a].desired.class ELSE class
      OBVIOUS
    <2>3. PICK newHeld : newHeld = (held \union apply[a].enable) \ apply[a].disable
      OBVIOUS
    <2>4. newClass \in Classes /\ newHeld \in SUBSET Features
      BY <1>0, <2>1, <2>2, <2>3 DEF FeaturesRead, Desired
    <2>5. Commits(newClass, newHeld, UnderWay \ {a}) /\ UNCHANGED <<wanted, admin, check, remembered>>
      BY <1>3, <2>2, <2>3 DEF ApplyCommit
    <2>6. newClass = apply[a].desired.class \/ "class" \in apply[a].others
      BY <2>1, <2>2 DEF PutHolds
    <2>7. \A f \in Features \ apply[a].others : f \in newHeld <=> f \in apply[a].desired.features
      BY <2>1, <2>3 DEF PutHolds
    <2>8. PICK puts \in SUBSET UnderWay : puts = UnderWay \ {a}
      OBVIOUS
    <2>9. \A b \in UnderWay \ puts : b = a
      BY <2>8
    <2> QED
      BY <1>0, <2>1, <2>4, <2>5, <2>6, <2>7, <2>8, <2>9, CommitKeeps
  <1>4. ASSUME NEW a \in Applies, ApplyAnswers(a) \/ ApplyFails(a) PROVE EntitlementsInv'
    <2>1. AtRest \in Puts /\ PutHolds(AtRest)
      BY DEF Puts, PutHolds, AtRest
    <2> QED
      BY <1>4, <2>1, PutWritten DEF ApplyAnswers, ApplyFails
  <1>5. ASSUME NEW newHeld \in SUBSET Features, NEW newClass \in Classes,
               Commits(newClass, newHeld, UnderWay), UNCHANGED <<check, remembered>>,
               wanted' \in SUBSET Features,
               admin' \in [Admins -> {AtRest} \union [at : {"granting", "requesting"}, feature : Features]]
        PROVE  EntitlementsInv'
    BY <1>5, CommitKeeps
  <1>6. ASSUME NEW h \in Admins, NEW f \in Features, NEW what \in {"granting", "requesting"},
               AdminLooks(h, f, what)
        PROVE  EntitlementsInv'
    <2>1. admin' \in [Admins -> {AtRest} \union [at : {"granting", "requesting"}, feature : Features]]
      BY <1>0, <1>6 DEF AdminLooks
    <2>2. EntitlementsTyped'
      BY <1>0, <1>6, <2>1 DEF AdminLooks, EntitlementsTyped
    <2> QED
      BY <1>6, <2>2, GrantsSame DEF AdminLooks, EntitlementsInv, AnswersNow, ChangesTakeEffect
  <1>7. ASSUME NEW h \in Admins, AdminGrants(h) PROVE EntitlementsInv'
    <2>1. admin[h].feature \in Features
      BY <1>0, <1>7 DEF AdminGrants, AtRest
    <2>2. admin' \in [Admins -> {AtRest} \union [at : {"granting", "requesting"}, feature : Features]]
      BY <1>0, <1>7 DEF AdminGrants
    <2>3. PICK newHeld \in SUBSET Features : newHeld = held \union {admin[h].feature}
      BY <1>0, <2>1
    <2> QED
      BY <1>0, <1>5, <1>7, <2>2, <2>3 DEF AdminGrants
  <1>8. ASSUME NEW h \in Admins, TenantAsks(h) PROVE EntitlementsInv'
    <2>1. admin[h].feature \in Features
      BY <1>0, <1>8 DEF TenantAsks, AtRest
    <2>2. admin' \in [Admins -> {AtRest} \union [at : {"granting", "requesting"}, feature : Features]]
      BY <1>0, <1>8 DEF TenantAsks
    <2>3. EntitlementsTyped'
      BY <1>0, <1>8, <2>1, <2>2 DEF TenantAsks, EntitlementsTyped
    <2> QED
      BY <1>8, <2>3, GrantsSame DEF TenantAsks, EntitlementsInv, AnswersNow, ChangesTakeEffect
  <1>9. ASSUME NEW f \in Features, ApproveFeature(f) PROVE EntitlementsInv'
    <2>1. PICK newHeld \in SUBSET Features : newHeld = held \union {f}
      BY <1>0
    <2> QED
      BY <1>0, <1>5, <1>9, <2>1 DEF ApproveFeature
  <1>10. ASSUME NEW f \in Features, DenyFeature(f) PROVE EntitlementsInv'
    <2>1. EntitlementsTyped'
      BY <1>0, <1>10 DEF DenyFeature, EntitlementsTyped
    <2> QED
      BY <1>10, <2>1, GrantsSame DEF DenyFeature, EntitlementsInv, AnswersNow, ChangesTakeEffect
  <1>11. ASSUME NEW f \in Features, AdminRevokes(f) PROVE EntitlementsInv'
    <2>1. PICK newHeld \in SUBSET Features : newHeld = held \ {f}
      BY <1>0
    <2> QED
      BY <1>0, <1>5, <1>11, <2>1 DEF AdminRevokes
  <1>12. ASSUME NEW c \in Classes, AdminSetsClass(c) PROVE EntitlementsInv'
    BY <1>0, <1>5, <1>12 DEF AdminSetsClass
  <1>13. ASSUME NEW c \in Checks, NEW f \in Features, CheckMisses(c, f) PROVE EntitlementsInv'
    <2>1. PICK k \in Asked : /\ k.at = "asking" /\ check' = [check EXCEPT ![c] = k]
      BY <1>13 DEF CheckMisses, Asked
    <2>2. EntitlementsTyped'
      BY <1>0, <1>13, <2>1 DEF CheckMisses, EntitlementsTyped
    <2>3. ChangesTakeEffect'
      BY <1>0, <1>13, <2>1 DEF CheckMisses, EntitlementsInv, ChangesTakeEffect
    <2> QED
      BY <1>13, <2>2, <2>3, GrantsSame DEF CheckMisses, EntitlementsInv, AnswersNow
  <1>14. ASSUME NEW c \in Checks, CheckReads(c) PROVE EntitlementsInv'
    <2>1. /\ check[c] \in Asked /\ check[c].feature \in Features /\ check[c].age \in Nat
      BY <1>0, <1>14 DEF CheckReads, Asked, AtRest
    <2>2. PICK w \in BOOLEAN : w = (check[c].feature \in held)
      BY Truth
    <2>3. PICK k : k = [at |-> "answered", feature |-> check[c].feature, on |-> w, age |-> check[c].age]
      OBVIOUS
    <2>4. check' = [check EXCEPT ![c] = k]
      BY <1>14, <2>2, <2>3 DEF CheckReads
    <2>5. k \in Asked
      BY <2>1, <2>3 DEF Asked
    <2>6. since[k.feature][k.on] = 0 /\ k.age \in Nat
      BY <2>1, <2>2, <2>3 DEF EntitlementsInv, AnswersNow
    <2>7. EntitlementsTyped'
      BY <1>0, <1>14, <2>4, <2>5 DEF CheckReads, EntitlementsTyped
    <2>8. ChangesTakeEffect'
      BY <1>0, <1>14, <2>4, <2>6 DEF CheckReads, EntitlementsInv, ChangesTakeEffect
    <2> QED
      BY <1>14, <2>7, <2>8, GrantsSame DEF CheckReads, EntitlementsInv, AnswersNow
  <1>15. ASSUME NEW c \in Checks, CheckFails(c) PROVE EntitlementsInv'
    <2>1. EntitlementsTyped'
      BY <1>0, <1>15 DEF CheckFails, EntitlementsTyped
    <2>2. ChangesTakeEffect'
      BY <1>0, <1>15 DEF CheckFails, EntitlementsInv, ChangesTakeEffect
    <2> QED
      BY <1>15, <2>1, <2>2, GrantsSame DEF CheckFails, EntitlementsInv, AnswersNow
  <1>16. ASSUME NEW c \in Checks, CheckStores(c) PROVE EntitlementsInv'
    <2>1. /\ check[c] \in Asked /\ check[c].feature \in Features /\ check[c].at = "answered"
          /\ check[c] # AtRest
      BY <1>0, <1>16 DEF CheckStores, Asked, AtRest
    <2>2. PICK m : m = [on |-> check[c].on, age |-> check[c].age]
      OBVIOUS
    <2>3. /\ remembered' = [remembered EXCEPT ![check[c].feature] = m]
          /\ check' = [check EXCEPT ![c] = AtRest]
          /\ UNCHANGED <<class, held, wanted, apply, admin, since>>
      BY <1>16, <2>2 DEF CheckStores, FromAsking
    <2>4. m \in [on : BOOLEAN, age : Nat] /\ m.on = check[c].on /\ m.age = check[c].age
      BY <2>1, <2>2 DEF Asked
    <2>5. EntitlementsTyped'
      BY <1>0, <2>3, <2>4 DEF EntitlementsTyped
    <2>6. \A f \in Features : Fresh(remembered[f])' => since'[f][remembered'[f].on] <= remembered'[f].age
      BY <1>0, <2>1, <2>3, <2>4 DEF EntitlementsInv, ChangesTakeEffect, Fresh
    <2>7. \A b \in Checks : check'[b] \in {AtRest, check[b]}
      BY <1>0, <2>3
    <2>8. ChangesTakeEffect'
      BY <2>3, <2>6, <2>7 DEF EntitlementsInv, ChangesTakeEffect, Fresh
    <2> QED
      BY <2>3, <2>5, <2>8, GrantsSame DEF EntitlementsInv, AnswersNow
  <1>17. ASSUME GrantsAge PROVE EntitlementsInv'
    <2>1. /\ check' = [c \in Checks |-> IF check[c] = AtRest THEN AtRest ELSE [check[c] EXCEPT !.age = Older(@)]]
          /\ remembered' = [f \in Features |-> [remembered[f] EXCEPT !.age = Older(@)]]
          /\ since' = [f \in Features |-> [v \in BOOLEAN |->
                         IF v = (f \in held) THEN 0 ELSE Older(since[f][v])]]
          /\ UNCHANGED <<class, held, wanted, apply, admin>>
      BY <1>17 DEF GrantsAge
    <2>2. ASSUME NEW n \in Nat PROVE /\ Older(n) \in Nat /\ (Older(n) < GrantTTL => n < GrantTTL /\ Older(n) = n + 1)
                                     /\ Older(n) <= n + 1
      BY <1>0 DEF Older
    <2>3. ASSUME NEW f \in Features
          PROVE  /\ since'[f] \in [BOOLEAN -> Nat] /\ since'[f][(f \in held)] = 0
                 /\ \A v \in BOOLEAN : since'[f][v] <= since[f][v] + 1
      <3>1. PICK w \in BOOLEAN : w = (f \in held)
        BY Truth
      <3>2. since[f] \in [BOOLEAN -> Nat]
        BY <1>0
      <3>3. since'[f] = [v \in BOOLEAN |-> IF v = w THEN 0 ELSE Older(since[f][v])]
        BY <2>1, <3>1
      <3>4. \A v \in BOOLEAN : /\ since[f][v] \in Nat /\ Older(since[f][v]) \in Nat
                               /\ Older(since[f][v]) <= since[f][v] + 1
        BY <2>2, <3>2
      <3>5. \A v \in BOOLEAN : since'[f][v] = IF v = w THEN 0 ELSE Older(since[f][v])
        BY <3>3
      <3>6. since'[f] \in [BOOLEAN -> Nat]
        BY <3>3, <3>4
      <3>7. since'[f][w] = 0 /\ \A v \in BOOLEAN : since'[f][v] <= since[f][v] + 1
        BY <3>4, <3>5
      <3> QED
        BY <3>1, <3>6, <3>7
    <2>4. ASSUME NEW f \in Features
          PROVE  /\ remembered'[f] \in [on : BOOLEAN, age : Nat] /\ remembered'[f].on = remembered[f].on
                 /\ remembered'[f].age = Older(remembered[f].age)
      <3>1. remembered[f] \in [on : BOOLEAN, age : Nat] /\ Older(remembered[f].age) \in Nat
        BY <1>0, <2>2
      <3>2. remembered'[f] = [on |-> remembered[f].on, age |-> Older(remembered[f].age)]
        BY <2>1, <3>1
      <3> QED
        BY <3>1, <3>2
    <2>5. ASSUME NEW c \in Checks, check[c] # AtRest
          PROVE  /\ check'[c] \in Asked /\ check'[c].at = check[c].at /\ check'[c].on = check[c].on
                 /\ check'[c].feature = check[c].feature /\ check'[c].age = Older(check[c].age)
                 /\ check[c] \in Asked /\ check[c].age \in Nat /\ check[c].feature \in Features
      <3>1. check[c] \in Asked /\ check[c].age \in Nat /\ Older(check[c].age) \in Nat
        BY <1>0, <2>2, <2>5 DEF Asked
      <3>2. check'[c] = [at |-> check[c].at, feature |-> check[c].feature, on |-> check[c].on,
                         age |-> Older(check[c].age)]
        BY <2>1, <2>5, <3>1 DEF Asked
      <3> QED
        BY <3>1, <3>2 DEF Asked
    <2>6. \A c \in Checks : check[c] = AtRest => check'[c] = AtRest
      BY <2>1
    <2>7. EntitlementsTyped'
      <3>1. check' \in [Checks -> {AtRest} \union Asked]
        BY <2>1, <2>5, <2>6
      <3>2. remembered' \in [Features -> [on : BOOLEAN, age : Nat]]
        BY <2>1, <2>4
      <3>3. since' \in [Features -> [BOOLEAN -> Nat]]
        BY <2>1, <2>3
      <3> QED
        BY <1>0, <2>1, <3>1, <3>2, <3>3 DEF EntitlementsTyped
    <2>8. AnswersNow'
      BY <2>1, <2>3 DEF AnswersNow
    <2>9. ASSUME NEW f \in Features, NEW v \in BOOLEAN, NEW n \in Nat, Older(n) < GrantTTL,
                 n < GrantTTL => since[f][v] <= n
          PROVE  since'[f][v] <= Older(n)
      <3>1. since[f][v] \in Nat /\ since'[f][v] \in Nat /\ since'[f][v] <= since[f][v] + 1
        BY <1>0, <2>3
      <3> QED
        BY <2>2, <2>9, <3>1
    <2>10. ChangesTakeEffect'
      <3>1. ASSUME NEW f \in Features, Fresh(remembered[f])'
            PROVE  since'[f][remembered'[f].on] <= remembered'[f].age
        <4>1. remembered[f].on \in BOOLEAN /\ remembered[f].age \in Nat
          BY <1>0
        <4>2. Older(remembered[f].age) < GrantTTL
          BY <2>4, <3>1 DEF Fresh
        <4>3. remembered[f].age < GrantTTL => since[f][remembered[f].on] <= remembered[f].age
          BY DEF EntitlementsInv, ChangesTakeEffect, Fresh
        <4> QED
          BY <2>4, <2>9, <4>1, <4>2, <4>3
      <3>2. ASSUME NEW c \in Checks, check'[c] # AtRest, check'[c].at = "answered", Fresh(check[c])'
            PROVE  since'[check'[c].feature][check'[c].on] <= check'[c].age
        <4>1. check[c] # AtRest /\ check[c].on \in BOOLEAN /\ check[c].age \in Nat /\ check[c].at = "answered"
          BY <2>5, <2>6, <3>2 DEF Asked
        <4>2. Older(check[c].age) < GrantTTL
          BY <2>5, <3>2, <4>1 DEF Fresh
        <4>3. check[c].age < GrantTTL => since[check[c].feature][check[c].on] <= check[c].age
          BY <4>1 DEF EntitlementsInv, ChangesTakeEffect, Fresh
        <4> QED
          BY <2>5, <2>9, <4>1, <4>2, <4>3
      <3> QED
        BY <3>1, <3>2 DEF ChangesTakeEffect
    <2> QED
      BY <2>1, <2>7, <2>8, <2>10, GrantsSame
  <1>18. ASSUME UNCHANGED enVars PROVE EntitlementsInv'
    BY <1>18 DEF enVars, EntitlementsInv, EntitlementsTyped, AnswersNow, PutsHold, PutHolds, ChangesTakeEffect
  <1> QED
    BY <1>1, <1>2, <1>3, <1>4, <1>6, <1>7, <1>8, <1>9, <1>10, <1>11, <1>12, <1>13, <1>14, <1>15,
       <1>16, <1>17, <1>18 DEF EntitlementsNext, BillingNext, PanelNext, ChecksNext

\* However PUTs, admins and checks interleave, apply reaches the state it was
\* asked for but for what others changed meanwhile, and FeatureEnabled never gives
\* an answer that the database stopped giving GrantTTL ago.
THEOREM EntitlementsHold == EntitlementsSpec => []EntitlementsSound
PROOF
  <1>1. EntitlementsInv => EntitlementsSound
    BY DEF EntitlementsInv, PutsHold, PutHolds, EntitlementsSound, AppliesReachDesired, UnderWay
  <1> QED
    BY EntitlementsInitial, EntitlementsStep, <1>1, PTL DEF EntitlementsSpec

-----------------------------------------------------------------------------
(* GameSession *)

\* Those who hold a place: seen lately, and not only by a late heartbeat.
Seated == Active \ revived

\* JoinHolds: a join that is past its checks holds the row of an open session
\* with a place for the joiner; if the expiry passed meanwhile, `late' says so.
JoinHolds ==
  joining # NoPlayer =>
    /\ session.state = "open"
    /\ Cardinality(Seated \ {joining}) < session.max
    /\ session.expiry = "past" => late

\* The inductive invariant of a session.
SessionInv == SessionTypeOK /\ JoinHolds /\ SessionsSound

\* Cardinalities of sets of players.
LEMMA PlayersCounted ==
  ASSUME NEW S \in SUBSET Players, NEW T \in SUBSET S
  PROVE  /\ IsFiniteSet(S) /\ IsFiniteSet(T) /\ Cardinality(S) \in Nat /\ Cardinality(T) \in Nat
         /\ Cardinality(T) <= Cardinality(S)
PROOF
  BY FS_Subset, FS_CardinalityType, SessionAssumption

\* Before the session is created.
LEMMA SessionInitial == SessionInit => SessionInv
PROOF
  <1> SUFFICES ASSUME SessionInit PROVE SessionInv
    OBVIOUS
  <1>1. Cardinality(Players) \in Nat
    BY FS_CardinalityType, SessionAssumption
  <1>2. SessionTypeOK
    <2>1. session \in [kind : {"none", "match", "public", "private"},
                       state : {"none", "open", "ended", "deleted"},
                       host : Players \union {NoPlayer},
                       max : 0..Cardinality(Players) \union {MaxPlayers},
                       expiry : {"far", "near", "past"}]
      BY <1>1 DEF SessionInit, Absent
    <2> QED
      <3>1. peer \in [Players -> {"none", "fresh", "stale"}] /\ others \in 0..MaxOpen /\ late \in BOOLEAN
        <4>1. peer \in [Players -> {"none", "fresh", "stale"}]
          BY DEF SessionInit, NoPeers
        <4>2. late \in BOOLEAN
          BY Zenon DEF SessionInit
        <4>3. others \in 0..MaxOpen
          BY SessionAssumption DEF SessionInit
        <4> QED
          BY <4>1, <4>2, <4>3
      <3>2. {invited, rostered, departed, revived} \subseteq SUBSET Players /\ joining \in Players \union {NoPlayer}
        BY DEF SessionInit
      <3> QED
        BY <2>1, <3>1, <3>2 DEF SessionTypeOK
  <1>3. ~Open /\ ~Kept /\ session.state = "none"
    BY DEF SessionInit, Absent, Open, Kept
  <1> QED
    BY <1>2, <1>3, SessionAssumption
    DEF SessionInit, SessionInv, JoinHolds, SessionsSound, EndedIsEmpty, CapacityHolds,
        WithinMaxPlayers, WithinOpenLimit, OpenSessions

\* A step that seats nobody new, ends nothing and opens nothing.
LEMMA SeatsKept ==
  ASSUME SessionInv, SessionTypeOK', Seated' \in SUBSET Seated, others' \in 0..others,
         session'.state = session.state, session'.max = session.max,
         Open' => Open, ~late' => ~late,
         joining' \in {joining, NoPlayer},
         joining' # NoPlayer /\ session'.expiry = "past" => session.expiry = "past" \/ late',
         session.state \in {"ended", "deleted"} => Peers' = {}
  PROVE  SessionInv'
PROOF
  <1>1. /\ others \in Nat /\ others' \in Nat /\ session.max \in Nat /\ session'.max \in Nat
        /\ MaxOpen \in Nat /\ Seated \in SUBSET Players
    BY SessionAssumption, FS_CardinalityType DEF SessionInv, SessionTypeOK, Seated, Active
  <1>2. /\ Cardinality(Seated') <= Cardinality(Seated) /\ Cardinality(Seated) \in Nat
        /\ Cardinality(Seated') \in Nat
    BY <1>1, PlayersCounted
  <1>3. ASSUME joining' # NoPlayer
        PROVE  /\ Cardinality(Seated' \ {joining'}) <= Cardinality(Seated \ {joining'})
               /\ Cardinality(Seated' \ {joining'}) \in Nat /\ Cardinality(Seated \ {joining'}) \in Nat
    BY <1>1, PlayersCounted
  <1>4. JoinHolds'
    BY <1>1, <1>3 DEF SessionInv, JoinHolds
  <1>5. EndedIsEmpty'
    BY DEF EndedIsEmpty
  <1>6. WithinMaxPlayers'
    BY <1>1, <1>2 DEF SessionInv, SessionsSound, CapacityHolds, WithinMaxPlayers, Seated, Kept
  <1>7. WithinOpenLimit'
    <2>1. SUFFICES ASSUME ~late' PROVE OpenSessions' <= MaxOpen
      BY DEF WithinOpenLimit
    <2>2. OpenSessions <= MaxOpen
      BY <2>1 DEF SessionInv, SessionsSound, CapacityHolds, WithinOpenLimit
    <2>3. others <= MaxOpen
      BY DEF SessionInv, SessionTypeOK
    <2>4. (Open' => OpenSessions' = others' + 1) /\ (~Open' => OpenSessions' = others' + 0)
      <3>1. CASE Open'
        BY <1>1, <3>1 DEF OpenSessions
      <3>2. CASE ~Open'
        BY <1>1, <3>2 DEF OpenSessions
      <3> QED
        BY <3>1, <3>2
    <2>5. Open => OpenSessions = others + 1
      BY <1>1 DEF OpenSessions
    <2> QED
      BY <1>1, <2>2, <2>3, <2>4, <2>5
  <1> QED
    BY <1>4, <1>5, <1>6, <1>7 DEF SessionInv, SessionsSound, CapacityHolds

\* A new session.
LEMMA Created ==
  ASSUME SessionInv, NEW kind \in {"match", "public", "private"}, NEW host \in Players,
         NEW members \in SUBSET Players, NEW max \in 0..Cardinality(Players) \union {MaxPlayers},
         NEW expiry \in {"far", "near"}, Cardinality(members) <= max,
         Create(kind, host, members, max, expiry), rostered' \in SUBSET Players
  PROVE  SessionInv'
PROOF
  <1>1. /\ session' = [kind |-> kind, state |-> "open", host |-> host, max |-> max, expiry |-> expiry]
        /\ peer' = [p \in Players |-> IF p \in members THEN "fresh" ELSE "none"]
        /\ UNCHANGED <<invited, joining, others, departed, revived, late>>
        /\ session.state = "none" /\ UnderSessionLimit
    BY DEF Create, Absent
  <1>2. SessionTypeOK'
    <2>1. session' \in [kind : {"none", "match", "public", "private"},
                  state : {"none", "open", "ended", "deleted"},
                  host : Players \union {NoPlayer},
                  max : 0..Cardinality(Players) \union {MaxPlayers},
                  expiry : {"far", "near", "past"}]
      BY <1>1
    <2> QED
      BY <1>1, <2>1 DEF SessionInv, SessionTypeOK
  <1>3. /\ others \in Nat /\ MaxOpen \in Nat /\ max \in Nat
    BY SessionAssumption, FS_CardinalityType DEF SessionInv, SessionTypeOK
  <1>4. joining = NoPlayer
    BY <1>1 DEF SessionInv, JoinHolds
  <1>5. WithinMaxPlayers'
    <2>1. (Active \ revived)' \in SUBSET members
      BY <1>1 DEF Active
    <2>2. Cardinality((Active \ revived)') <= Cardinality(members) /\ Cardinality(members) \in Nat
          /\ Cardinality((Active \ revived)') \in Nat
      BY <2>1, PlayersCounted
    <2> QED
      BY <1>1, <1>3, <2>2 DEF WithinMaxPlayers
  <1>6. WithinOpenLimit'
    BY <1>1, <1>3 DEF WithinOpenLimit, OpenSessions, UnderSessionLimit, Open
  <1>7. EndedIsEmpty' /\ JoinHolds'
    BY <1>1, <1>4 DEF EndedIsEmpty, JoinHolds
  <1> QED
    BY <1>2, <1>5, <1>6, <1>7 DEF SessionInv, SessionsSound, CapacityHolds

\* Every handler, the sweep and the passing of time keep the invariant.
LEMMA SessionStep == SessionInv /\ [SessionNext]_gsVars => SessionInv'
PROOF
  <1> SUFFICES ASSUME SessionInv, [SessionNext]_gsVars PROVE SessionInv'
    OBVIOUS
  <1> DEFINE Sessions == [kind : {"none", "match", "public", "private"},
                  state : {"none", "open", "ended", "deleted"},
                  host : Players \union {NoPlayer},
                  max : 0..Cardinality(Players) \union {MaxPlayers},
                  expiry : {"far", "near", "past"}]
  <1>0. /\ session \in Sessions
        /\ peer \in [Players -> {"none", "fresh", "stale"}]
        /\ joining \in Players \union {NoPlayer}
        /\ others \in 0..MaxOpen /\ others \in Nat
        /\ {invited, rostered, departed, revived} \subseteq SUBSET Players
        /\ late \in BOOLEAN /\ MaxOpen \in Nat /\ session.max \in Nat /\ MaxPlayers \in Nat \ {0}
        /\ Cardinality(Players) \in Nat /\ NoPlayer \notin Players
        /\ Seated \in SUBSET Players
    BY SessionAssumption, FS_CardinalityType DEF SessionInv, SessionTypeOK, Seated, Active
  <1> HIDE DEF Sessions
  <1>1. ASSUME NEW p \in Players, CreateByPlayer(p) PROVE SessionInv'
    <2>1. PICK kind \in {"public", "private"} : Create(kind, p, {p}, MaxPlayers, "far")
      BY <1>1 DEF CreateByPlayer
    <2>2. Cardinality({p}) = 1
      BY FS_Singleton
    <2> QED
      BY <1>0, <1>1, <2>1, <2>2, Created DEF CreateByPlayer
  <1>2. ASSUME NEW p \in Players, NEW roster \in SUBSET Players, CreateMatchSession(p, roster) PROVE SessionInv'
    <2>1. Cardinality(roster) \in 0..Cardinality(Players) /\ Cardinality(roster) <= Cardinality(roster)
      BY <1>0, PlayersCounted
    <2> QED
      BY <1>0, <1>2, <2>1, Created DEF CreateMatchSession
  <1>3. ASSUME NEW p \in Players, JoinCheck(p) PROVE SessionInv'
    <2>1. /\ joining' = p /\ UNCHANGED <<session, peer, invited, others, rostered, departed, revived, late>>
          /\ session.state = "open" /\ session.expiry # "past" /\ ~Full(p) /\ p # NoPlayer
      BY <1>0, <1>3 DEF JoinCheck, Open
    <2>2. Cardinality(Active \ {p}) \in Nat /\ Cardinality(Seated \ {p}) <= Cardinality(Active \ {p})
          /\ Cardinality(Seated \ {p}) \in Nat
      <3>1. Active \ {p} \in SUBSET Players /\ Seated \ {p} \in SUBSET (Active \ {p})
        BY DEF Active, Seated
      <3> QED
        BY <3>1, PlayersCounted
    <2>3. Cardinality(Seated \ {p}) < session.max
      BY <1>0, <2>1, <2>2 DEF Full
    <2>4. Seated' = Seated /\ Active' = Active /\ Peers' = Peers /\ Open' = Open
      BY <2>1 DEF Seated, Active, Peers, Open
    <2>5. JoinHolds'
      BY <2>1, <2>3, <2>4 DEF JoinHolds
    <2> QED
      BY <1>0, <2>1, <2>4, <2>5
      DEF SessionInv, SessionTypeOK, SessionsSound, EndedIsEmpty, CapacityHolds, WithinMaxPlayers,
          WithinOpenLimit, OpenSessions, Kept
  <1>4. CASE JoinCommit
    <2>0. PICK j \in Players : j = joining
      BY <1>0, <1>4 DEF JoinCommit, Unlocked
    <2>1. /\ joining' = NoPlayer /\ peer' = [peer EXCEPT ![j] = "fresh"]
          /\ session' = [session EXCEPT !.expiry = IF session.kind = "match" THEN "far" ELSE session.expiry]
          /\ departed' = departed \ {j} /\ revived' = revived \ {j}
          /\ UNCHANGED <<invited, others, rostered, late>>
      BY <1>4, <2>0 DEF JoinCommit
    <2>2. /\ session.state = "open" /\ Cardinality(Seated \ {j}) < session.max
          /\ session.expiry = "past" => late
      BY <1>0, <2>0 DEF SessionInv, JoinHolds
    <2>3. /\ session' \in Sessions /\ session'.state = "open" /\ session'.max = session.max
      BY <1>0, <2>1, <2>2 DEF Sessions
    <2>4. SessionTypeOK'
      BY <1>0, <2>1, <2>3 DEF SessionTypeOK, Sessions
    <2>5. WithinMaxPlayers'
      <3>1. (Active \ revived)' \subseteq (Seated \ {j}) \union {j}
        BY <1>0, <2>1 DEF Active, Seated
      <3>2. PICK S : S = Seated \ {j}
        OBVIOUS
      <3>3. IsFiniteSet(S) /\ Cardinality(S) \in Nat /\ j \notin S /\ S \in SUBSET Players
        BY <1>0, <3>2, PlayersCounted
      <3>4. Cardinality(S \union {j}) = Cardinality(S) + 1 /\ S \union {j} \in SUBSET Players
        BY <3>3, FS_AddElement
      <3>5. /\ Cardinality((Active \ revived)') <= Cardinality(S \union {j})
            /\ Cardinality((Active \ revived)') \in Nat
        BY <3>1, <3>2, <3>4, PlayersCounted
      <3> QED
        BY <1>0, <2>2, <2>3, <3>2, <3>3, <3>4, <3>5 DEF WithinMaxPlayers
    <2>6. WithinOpenLimit'
      <3>1. ~late => Open
        BY <2>2 DEF Open
      <3> QED
        BY <1>0, <2>1, <3>1 DEF SessionInv, SessionsSound, CapacityHolds, WithinOpenLimit, OpenSessions
    <2> QED
      BY <2>1, <2>3, <2>4, <2>5, <2>6 DEF SessionInv, JoinHolds, SessionsSound, CapacityHolds, EndedIsEmpty
  <1>5. CASE JoinAborts
    <2>1. /\ joining' = NoPlayer /\ UNCHANGED <<session, peer, invited, others, rostered, departed, revived, late>>
      BY <1>5 DEF JoinAborts
    <2>2. SessionTypeOK'
      BY <1>0, <2>1 DEF SessionTypeOK, Sessions
    <2> QED
      BY <1>0, <2>1, <2>2, SeatsKept
      DEF Seated, Active, Open, Peers, SessionInv, SessionsSound, EndedIsEmpty
  <1>6. ASSUME NEW p \in Players, Heartbeat(p) PROVE SessionInv'
    <2>1. PICK x : /\ x = (IF Extends THEN "far" ELSE session.expiry)
                   /\ session' = [session EXCEPT !.expiry = x]
      BY <1>6 DEF Heartbeat
    <2>2. /\ session' \in Sessions /\ session'.state = session.state /\ session'.max = session.max
          /\ session'.expiry = "past" => session.expiry = "past"
          /\ Open' => Open
      BY <1>0, <2>1 DEF Sessions, Extends, Open
    <2>3. /\ peer[p] # "none" /\ peer' = PrunedBy(p) /\ UNCHANGED <<invited, joining, others, rostered, departed, late>>
          /\ revived' = IF peer[p] = "stale" THEN revived \union {p} ELSE revived
      BY <1>6 DEF Heartbeat, Peers
    <2>4. peer' \in [Players -> {"none", "fresh", "stale"}]
      BY <1>0, <2>3 DEF PrunedBy
    <2>5. SessionTypeOK'
      BY <1>0, <2>2, <2>3, <2>4 DEF SessionTypeOK, Sessions
    <2>6. Seated' \in SUBSET Seated
      BY <1>0, <2>3 DEF Seated, Active, PrunedBy
    <2>7. session.state \notin {"ended", "deleted"}
      BY <2>3 DEF SessionInv, SessionsSound, EndedIsEmpty, Peers
    <2> QED
      BY <1>0, <2>2, <2>3, <2>5, <2>6, <2>7, SeatsKept
  <1>7. ASSUME NEW p \in Players, PeerLeaves(p) PROVE SessionInv'
    <2>1. /\ peer' = [peer EXCEPT ![p] = "none"] /\ departed' = departed \union {p} /\ revived' = revived \ {p}
          /\ UNCHANGED <<session, invited, joining, others, rostered, late>>
      BY <1>7 DEF PeerLeaves
    <2>2. SessionTypeOK'
      BY <1>0, <2>1 DEF SessionTypeOK, Sessions
    <2>3. Seated' \in SUBSET Seated /\ Peers' \subseteq Peers
      BY <1>0, <2>1 DEF Seated, Active, Peers
    <2> QED
      BY <1>0, <2>1, <2>2, <2>3, SeatsKept DEF Open, SessionInv, SessionsSound, EndedIsEmpty
  <1>8. ASSUME NEW p \in Players, PeerGoesStale(p) PROVE SessionInv'
    <2>1. /\ peer' = [peer EXCEPT ![p] = "stale"] /\ revived' = revived \ {p} /\ peer[p] = "fresh"
          /\ UNCHANGED <<session, invited, joining, others, rostered, departed, late>>
      BY <1>8 DEF PeerGoesStale
    <2>2. SessionTypeOK'
      BY <1>0, <2>1 DEF SessionTypeOK, Sessions
    <2>3. Seated' \in SUBSET Seated /\ Peers' \subseteq Peers
      BY <1>0, <2>1 DEF Seated, Active, Peers
    <2> QED
      BY <1>0, <2>1, <2>2, <2>3, SeatsKept DEF Open, SessionInv, SessionsSound, EndedIsEmpty
  <1>9. ASSUME /\ UNCHANGED <<session, peer, joining, others, rostered, departed, revived, late>>
               /\ invited' \in SUBSET Players
        PROVE  SessionInv'
    <2>1. SessionTypeOK'
      BY <1>0, <1>9 DEF SessionTypeOK, Sessions
    <2> QED
      BY <1>0, <1>9, <2>1, SeatsKept
      DEF Seated, Active, Open, Peers, SessionInv, SessionsSound, EndedIsEmpty
  <1>10. CASE CreateOther
    <2>1. /\ others' = others + 1 /\ UnderSessionLimit
          /\ UNCHANGED <<session, peer, invited, joining, rostered, departed, revived, late>>
      BY <1>10 DEF CreateOther
    <2>2. others' \in 0..MaxOpen /\ OpenSessions' <= MaxOpen
      BY <1>0, <2>1 DEF UnderSessionLimit, OpenSessions, Open
    <2> QED
      BY <1>0, <2>1, <2>2
      DEF SessionInv, SessionTypeOK, JoinHolds, SessionsSound, EndedIsEmpty, CapacityHolds, Seated, Active,
          Peers, WithinMaxPlayers, WithinOpenLimit, Kept, Sessions
  <1>11. CASE OtherCloses
    <2>1. /\ others' = others - 1 /\ others > 0
          /\ UNCHANGED <<session, peer, invited, joining, rostered, departed, revived, late>>
      BY <1>11 DEF OtherCloses
    <2>2. SessionTypeOK'
      BY <1>0, <2>1 DEF SessionTypeOK, Sessions
    <2> QED
      BY <1>0, <2>1, <2>2, SeatsKept
      DEF Seated, Active, Open, Peers, SessionInv, SessionsSound, EndedIsEmpty
  <1>12. ASSUME peer' = NoPeers, session'.state \in {"ended", "deleted"}, session' \in Sessions,
                Unlocked, HistoryEnds, UNCHANGED <<joining, others, late>>, invited' \in SUBSET Players
         PROVE SessionInv'
    <2>2. Peers' = {} /\ Active' = {} /\ ~Open' /\ joining' = NoPlayer
      BY <1>12 DEF NoPeers, Peers, Open, Active, Unlocked
    <2>3. SessionTypeOK'
      BY <1>0, <1>12 DEF SessionTypeOK, Sessions, NoPeers, HistoryEnds
    <2>4. (Active \ revived)' = {} /\ Cardinality({}) = 0 /\ session'.max \in Nat
      BY <1>0, <1>12, <2>2, FS_EmptySet DEF Sessions
    <2>5. CapacityHolds'
      BY <1>0, <1>12, <2>2, <2>4 DEF CapacityHolds, WithinMaxPlayers, WithinOpenLimit, OpenSessions
    <2> QED
      BY <2>2, <2>3, <2>5 DEF SessionInv, SessionsSound, EndedIsEmpty, JoinHolds
  <1>13. CASE HostLeaves
    <2>1. session' = [session EXCEPT !.state = "ended"]
      BY <1>13 DEF HostLeaves
    <2>2. session' \in Sessions /\ session'.state = "ended"
      BY <1>0, <2>1 DEF Sessions
    <2> QED
      BY <1>0, <1>12, <1>13, <2>2 DEF HostLeaves
  <1>14. CASE SweepSession
    <2>2. session' \in Sessions /\ session'.state = "deleted"
      BY <1>0, <1>14 DEF Sessions, SweepSession, Absent
    <2> QED
      BY <1>0, <1>12, <1>14, <2>2 DEF SweepSession
  <1>15. ASSUME NEW x \in {"near", "past"}, session' = [session EXCEPT !.expiry = x],
                session.expiry # "past", late' = (late \/ (x = "past" /\ ~Unlocked)),
                UNCHANGED <<peer, invited, joining, others, rostered, departed, revived>>
         PROVE  SessionInv'
    <2>1. /\ session' \in Sessions /\ session'.state = session.state /\ session'.max = session.max
          /\ session'.expiry = x /\ late' \in BOOLEAN
      BY <1>0, <1>15 DEF Sessions
    <2>2. SessionTypeOK'
      BY <1>0, <1>15, <2>1 DEF SessionTypeOK, Sessions
    <2>3. Seated' \in SUBSET Seated /\ Peers' = Peers /\ (Open' => Open)
      BY <1>15, <2>1 DEF Seated, Active, Peers, Open
    <2>4. late => late'
      BY <1>15
    <2>5. joining' # NoPlayer /\ session'.expiry = "past" => late'
      BY <1>15, <2>1 DEF Unlocked
    <2>6. session.state \in {"ended", "deleted"} => Peers' = {}
      BY <2>3 DEF SessionInv, SessionsSound, EndedIsEmpty
    <2> QED
      BY <1>0, <1>15, <2>1, <2>2, <2>3, <2>4, <2>5, <2>6, SeatsKept
  <1>16. CASE ExpiryNears
    <2>1. late' = (late \/ ("near" = "past" /\ ~Unlocked))
      BY <1>0, <1>16 DEF ExpiryNears
    <2> QED
      BY <1>15, <1>16, <2>1 DEF ExpiryNears
  <1>17. CASE ExpiryPasses
    BY <1>15, <1>17 DEF ExpiryPasses
  <1>18. CASE UNCHANGED gsVars
    BY <1>0, <1>9, <1>18 DEF gsVars
  <1>19. ASSUME NEW p \in Players, NEW q \in Players, Invite(p, q) PROVE SessionInv'
    BY <1>0, <1>9, <1>19 DEF Invite
  <1>20. ASSUME NEW p \in Players, InviteEnds(p) PROVE SessionInv'
    BY <1>0, <1>9, <1>20 DEF InviteEnds
  <1> QED
    BY <1>1, <1>2, <1>3, <1>4, <1>5, <1>6, <1>7, <1>8, <1>10, <1>11, <1>13, <1>14, <1>16, <1>17, <1>18,
       <1>19, <1>20 DEF SessionNext

\* Whatever joins, heartbeats, departures, expiries and sweeps interleave, a session
\* that gameSessionLeave ended or SweepExpiredGameSessions deleted has no peers,
\* gameSessionJoin never seats more than max_players and checkOpenSessionLimit keeps
\* the project within its limit: for any players and limits.  It rests on JoinHolds,
\* what the row lock of a join protects between its checks and its commit.
THEOREM SessionsHold == SessionSpec => []SessionsSound
PROOF
  <1>1. SessionInv => SessionsSound
    BY DEF SessionInv
  <1> QED
    BY SessionInitial, SessionStep, <1>1, PTL DEF SessionSpec

-----------------------------------------------------------------------------
(* ManualServers *)

\* The row of an allocation, a call of Allocate and a call of Deallocate.
LedgerRows == [status : {"none", "pending", "ready", "failed", "shutdown"}, ref : Attempts \union {NoRef}]
Requests == [at : {"idle", "named", "asks", "marks", "cleans", "fails", "done"}, ref : Attempts \union {NoRef}]
Removals == [at : {"calls", "releases"}, row : Ledger, ref : Attempts \union {NoRef}]

\* The types of the rows and of the calls under way.
ManualTyped ==
  /\ ledger \in [Ledger -> LedgerRows]
  /\ request \in [Ledger -> Requests]
  /\ remover \in [Removers -> {NoRemoval} \union Removals]
  /\ machines \subseteq Machines /\ strays \subseteq Machines

\* RowOf: how far the row of a request has come, by how far the request has.
RowOf(a) ==
  /\ request[a].at \in {"idle", "named"} => ledger[a].status = "none"
  /\ request[a].at \in {"asks", "marks"} => ledger[a].status = "pending" /\ request[a].ref # NoRef
  /\ ledger[a].status \in {"none", "pending"} => ledger[a].ref = NoRef
  /\ request[a].at \in {"cleans", "fails"} => ledger[a].status # "none" /\ request[a].ref # NoRef
  /\ request[a].at = "cleans" /\ ledger[a].status = "ready" => ledger[a].ref = request[a].ref
  /\ request[a].at = "fails" /\ ledger[a].status = "ready"
       => Machine(a, ledger[a].ref) \notin machines \ strays

\* RowsFollow: of every row.
RowsFollow == \A a \in Ledger : RowOf(a)

\* RemovalHolds: a deallocation that has a reference has its row's, which never
\* changes again, and releases a row only once that server is gone.
RemovalHolds(d) ==
  remover[d].at # "idle" =>
    /\ remover[d].ref # NoRef => ledger[remover[d].row].ref = remover[d].ref
    /\ remover[d].at = "releases" =>
         /\ remover[d].ref # NoRef
         /\ Machine(remover[d].row, remover[d].ref) \notin machines

\* RemovalsHold: of every deallocation.
RemovalsHold == \A d \in Removers : RemovalHolds(d)

\* The inductive invariant of the servers that operators allocate.
ManualInv == ManualTyped /\ RowsFollow /\ RemovalsHold /\ ServersAccounted

\* A row that was released stays as it is.
ShutdownStays == \A a \in Ledger : ledger[a].status = "shutdown" => ledger'[a] = ledger[a]

\* No row, no request and no server.
LEMMA ManualInitial == ManualInit => ManualInv
PROOF
  <1> SUFFICES ASSUME ManualInit PROVE ManualInv
    OBVIOUS
  <1>1. NoEntryYet \in LedgerRows /\ NoRequest \in Requests
    BY DEF NoEntryYet, LedgerRows, NoRequest, Requests
  <1>2. ManualTyped
    BY <1>1, Zenon DEF ManualInit, ManualTyped
  <1>3. RowsFollow
    BY DEF ManualInit, RowsFollow, RowOf, NoEntryYet, NoRequest
  <1>4. RemovalsHold
    BY DEF ManualInit, RemovalsHold, RemovalHolds, NoRemoval
  <1> QED
    BY <1>2, <1>3, <1>4 DEF ManualInit, ManualInv, ServersAccounted

\* Servers are told apart by their row and the attempt.
LEMMA MachineParts ==
  ASSUME NEW m \in Machines
  PROVE  m = Machine(m.row, m.ref) /\ m.row \in Ledger /\ m.ref \in Attempts
PROOF
  BY DEF Machines, Machine

\* The server that an attempt for a row makes.
LEMMA MachineOf ==
  ASSUME NEW a \in Ledger, NEW r \in Attempts
  PROVE  Machine(a, r) \in Machines /\ Machine(a, r).row = a /\ Machine(a, r).ref = r
PROOF
  BY DEF Machines, Machine

\* Explained: every server of a row is a stray, in the hands of the request r, or
\* on the row.
Explained(a, r, row) ==
  \A m \in machines : m.row = a =>
    \/ m \in strays
    \/ r.at \in {"marks", "cleans"} /\ r.ref = m.ref
    \/ row.status = "ready" /\ row.ref = m.ref

\* Servers that a step makes are of the one row, and not the one on it.
NewOf(a) == \A m \in machines' \ machines : m.row = a /\ m.ref # ledger[a].ref

\* A step of one request: its row, itself and the servers it makes or loses.
LEMMA RequestStep ==
  ASSUME ManualInv, NEW a \in Ledger, NEW r \in Requests, NEW row \in LedgerRows,
         request' = [request EXCEPT ![a] = r], ledger' = [ledger EXCEPT ![a] = row],
         UNCHANGED remover, machines' \subseteq Machines, strays' \subseteq Machines,
         strays \subseteq strays',
         RowOf(a)',
         ledger[a].ref # NoRef => row.ref = ledger[a].ref,
         ledger[a].status = "shutdown" => row = ledger[a],
         NewOf(a), Explained(a, r, row)'
  PROVE  ManualInv' /\ ShutdownStays
PROOF
  <1>1. /\ request \in [Ledger -> Requests] /\ ledger \in [Ledger -> LedgerRows]
        /\ machines \subseteq Machines /\ strays \subseteq Machines
        /\ remover \in [Removers -> {NoRemoval} \union Removals]
    BY DEF ManualInv, ManualTyped
  <1>2. /\ request' \in [Ledger -> Requests] /\ ledger' \in [Ledger -> LedgerRows]
        /\ request'[a] = r /\ ledger'[a] = row
        /\ \A b \in Ledger : b # a => request'[b] = request[b] /\ ledger'[b] = ledger[b]
    BY <1>1
  <1>3. ManualTyped'
    BY <1>1, <1>2 DEF ManualTyped
  <1>4. ASSUME NEW b \in Ledger, b # a PROVE RowOf(b)'
    <2>1. RowOf(b) /\ request'[b] = request[b] /\ ledger'[b] = ledger[b]
      BY <1>2, <1>4 DEF ManualInv, RowsFollow
    <2>2. \A ref : Machine(b, ref) \in machines' => Machine(b, ref) \in machines
      BY <1>4 DEF Machine, NewOf
    <2> QED
      BY <2>1, <2>2 DEF RowOf
  <1>5. RowsFollow'
    BY <1>4 DEF RowsFollow
  <1>6. RemovalsHold'
    <2> SUFFICES ASSUME NEW d \in Removers PROVE RemovalHolds(d)'
      BY DEF RemovalsHold
    <2>1. SUFFICES ASSUME remover[d].at # "idle" PROVE RemovalHolds(d)'
      BY DEF RemovalHolds
    <2>2. RemovalHolds(d) /\ remover[d].row \in Ledger /\ remover[d].ref \in Attempts \union {NoRef}
      BY <1>1, <2>1 DEF ManualInv, RemovalsHold, Removals, NoRemoval
    <2>3. remover[d].ref # NoRef => ledger'[remover[d].row].ref = remover[d].ref
      BY <1>2, <2>1, <2>2 DEF RemovalHolds
    <2>4. remover[d].at = "releases" /\ remover[d].ref # NoRef
            => Machine(remover[d].row, remover[d].ref) \notin machines'
      <3>1. SUFFICES ASSUME remover[d].at = "releases", remover[d].ref # NoRef,
                            Machine(remover[d].row, remover[d].ref) \in machines'
                     PROVE  FALSE
        OBVIOUS
      <3>2. Machine(remover[d].row, remover[d].ref) \notin machines /\ ledger[remover[d].row].ref = remover[d].ref
        BY <2>1, <2>2, <3>1 DEF RemovalHolds
      <3>3. Machine(remover[d].row, remover[d].ref) \in machines' \ machines
        BY <3>1, <3>2
      <3> QED
        BY <2>2, <3>2, <3>1, <3>3, MachineOf DEF NewOf
    <2> QED
      BY <2>1, <2>2, <2>3, <2>4 DEF RemovalHolds
  <1>7. ServersAccounted'
    <2> SUFFICES ASSUME NEW m \in machines'
                 PROVE  \/ m \in strays'
                        \/ request'[m.row].at \in {"marks", "cleans"} /\ request'[m.row].ref = m.ref
                        \/ ledger'[m.row] = [status |-> "ready", ref |-> m.ref]
      BY DEF ServersAccounted
    <2>1. m.row \in Ledger
      BY MachineParts
    <2>2. CASE m.row = a
      <3>1. row.status = "ready" /\ row.ref = m.ref => row = [status |-> "ready", ref |-> m.ref]
        BY DEF LedgerRows
      <3> QED
        BY <1>2, <2>2, <3>1 DEF Explained
    <2>3. CASE m.row # a
      <3>1. m \in machines
        BY <2>3 DEF NewOf
      <3> QED
        BY <1>2, <2>1, <2>3, <3>1 DEF ManualInv, ServersAccounted
    <2> QED
      BY <2>2, <2>3
  <1>8. ShutdownStays
    BY <1>2 DEF ShutdownStays
  <1> QED
    BY <1>3, <1>5, <1>6, <1>7, <1>8 DEF ManualInv

\* A step of one deallocation that leaves the rows alone.
LEMMA RemovalStep ==
  ASSUME ManualInv, NEW d \in Removers, NEW v \in {NoRemoval} \union Removals,
         remover' = [remover EXCEPT ![d] = v], UNCHANGED <<ledger, request, strays>>,
         machines' \subseteq machines, RemovalHolds(d)'
  PROVE  ManualInv' /\ ShutdownStays
PROOF
  <1>1. remover \in [Removers -> {NoRemoval} \union Removals]
    BY DEF ManualInv, ManualTyped
  <1>2. /\ remover' \in [Removers -> {NoRemoval} \union Removals]
        /\ \A e \in Removers : e # d => remover'[e] = remover[e]
    BY <1>1
  <1>3. ManualTyped'
    BY <1>2 DEF ManualInv, ManualTyped
  <1>4. RowsFollow'
    BY DEF ManualInv, RowsFollow, RowOf
  <1>5. RemovalsHold'
    BY <1>2 DEF ManualInv, RemovalsHold, RemovalHolds
  <1> QED
    BY <1>3, <1>4, <1>5 DEF ManualInv, ServersAccounted, ShutdownStays

\* Every step of Allocate, of Deallocate and of the backend.
LEMMA ManualStep == ManualInv /\ [ManualNext]_msVars => ManualInv' /\ [ShutdownStays]_msVars
PROOF
  <1> DEFINE Goal == ManualInv' /\ ShutdownStays
  <1> SUFFICES ASSUME ManualInv, [ManualNext]_msVars PROVE ManualInv' /\ [ShutdownStays]_msVars
    OBVIOUS
  <1>0. /\ request \in [Ledger -> Requests] /\ ledger \in [Ledger -> LedgerRows]
        /\ machines \subseteq Machines /\ strays \subseteq Machines
        /\ remover \in [Removers -> {NoRemoval} \union Removals]
        /\ Retries \in Nat /\ NoRef \notin Attempts /\ \A a \in Ledger : RowOf(a)
    BY ManualAssumption DEF ManualInv, ManualTyped, NoRef, Attempts, RowsFollow
  <1>1. ASSUME NEW a \in Ledger
        PROVE  /\ ledger[a] \in LedgerRows /\ request[a] \in Requests
               /\ ledger = [ledger EXCEPT ![a] = ledger[a]]
               /\ ledger[a].ref \in Attempts \union {NoRef} /\ request[a].ref \in Attempts \union {NoRef}
               /\ request[a].ref # NoRef => request[a].ref \in Attempts
               /\ \A m \in machines : m \in Machines
               /\ \A m \in machines : m.row = a =>
                    \/ m \in strays
                    \/ request[a].at \in {"marks", "cleans"} /\ request[a].ref = m.ref
                    \/ ledger[a].status = "ready" /\ ledger[a].ref = m.ref
    <2>1. ledger[a] \in LedgerRows /\ request[a] \in Requests /\ ledger = [ledger EXCEPT ![a] = ledger[a]]
      BY <1>0
    <2>2. /\ ledger[a].ref \in Attempts \union {NoRef} /\ request[a].ref \in Attempts \union {NoRef}
          /\ request[a].ref # NoRef => request[a].ref \in Attempts
      BY <2>1 DEF LedgerRows, Requests
    <2>3. ASSUME NEW m \in machines, m.row = a
          PROVE  \/ m \in strays
                 \/ request[a].at \in {"marks", "cleans"} /\ request[a].ref = m.ref
                 \/ ledger[a].status = "ready" /\ ledger[a].ref = m.ref
      <3>1. \/ m \in strays
            \/ request[a].at \in {"marks", "cleans"} /\ request[a].ref = m.ref
            \/ ledger[a] = [status |-> "ready", ref |-> m.ref]
        BY <2>3 DEF ManualInv, ServersAccounted
      <3> QED
        BY <3>1
    <2> QED
      BY <1>0, <2>1, <2>2, <2>3
  \* A request that only moves on.
  <1>2. ASSUME NEW a \in Ledger, NEW r \in Requests, request' = [request EXCEPT ![a] = r],
               UNCHANGED <<ledger, remover>>, machines' \subseteq Machines, strays' \subseteq Machines,
               strays \subseteq strays',
               RowOf(a)', NewOf(a),
               \A m \in machines' : m.row = a =>
                 \/ m \in strays'
                 \/ r.at \in {"marks", "cleans"} /\ r.ref = m.ref
                 \/ ledger[a].status = "ready" /\ ledger[a].ref = m.ref
        PROVE  Goal
    <2>1. PICK row \in LedgerRows : row = ledger[a]
      BY <1>1
    <2>2. ledger' = [ledger EXCEPT ![a] = row]
      BY <1>1, <1>2, <2>1
    <2>3. (ledger[a].ref # NoRef => row.ref = ledger[a].ref) /\ (ledger[a].status = "shutdown" => row = ledger[a])
      BY <2>1
    <2>4. Explained(a, r, row)'
      BY <1>2, <2>1 DEF Explained
    <2>5. /\ UNCHANGED remover /\ machines' \subseteq Machines /\ strays' \subseteq Machines /\ strays \subseteq strays'
          /\ request' = [request EXCEPT ![a] = r]
          /\ NewOf(a)
      BY <1>2
    <2>6. RowOf(a)'
      BY <1>2
    <2> QED
      BY <2>2, <2>3, <2>4, <2>5, <2>6, RequestStep
  <1>3. ASSUME NEW a \in Ledger, NEW t \in Templates, AskByName(a, t) PROVE Goal
    <2>1. PICK r : r = [at |-> "named", ref |-> request[a].ref]
      OBVIOUS
    <2>2. /\ r \in Requests /\ request' = [request EXCEPT ![a] = r] /\ request[a].at = "idle"
          /\ UNCHANGED <<ledger, remover, machines, strays>>
      BY <1>0, <1>1, <1>3, <2>1 DEF AskByName, Goes, Requests
    <2>3. RowOf(a)'
      BY <1>0, <2>1, <2>2 DEF RowOf
    <2> QED
      BY <1>0, <1>1, <1>2, <2>1, <2>2, <2>3, ZenonT(60) DEF NewOf
  <1>4. ASSUME NEW a \in Ledger, InsertPending(a) PROVE Goal
    <2>1. PICK r, row : r = [at |-> "asks", ref |-> 1] /\ row = [status |-> "pending", ref |-> ledger[a].ref]
      OBVIOUS
    <2>2. /\ r \in Requests /\ row \in LedgerRows /\ request' = [request EXCEPT ![a] = r]
          /\ ledger' = [ledger EXCEPT ![a] = row]
          /\ request[a].at = "named" /\ ledger[a].status = "none" /\ ledger[a].ref = NoRef
          /\ UNCHANGED <<remover, machines, strays>>
      <3>1. r \in Requests /\ row \in LedgerRows
        BY <1>0, <1>1, <2>1 DEF Requests, LedgerRows, Attempts
      <3>2. ledger' = [ledger EXCEPT ![a] = row]
        <4>1. row = [ledger[a] EXCEPT !.status = "pending"]
          BY <1>1, <2>1 DEF LedgerRows
        <4> QED
          BY <1>4, <4>1 DEF InsertPending
      <3> QED
        BY <1>0, <1>4, <2>1, <3>1, <3>2 DEF InsertPending, RowOf
    <2>3. RowOf(a)'
      BY <1>0, <2>1, <2>2 DEF RowOf, NoRef
    <2> QED
      BY <1>0, <1>1, <2>1, <2>2, <2>3, RequestStep DEF NewOf, Explained
  <1>5. ASSUME NEW a \in Ledger, BackendAllocates(a) PROVE Goal
    <2>1. PICK r, m : r = [at |-> "marks", ref |-> request[a].ref] /\ m = Machine(a, request[a].ref)
      OBVIOUS
    <2>2. /\ r \in Requests /\ request' = [request EXCEPT ![a] = r] /\ request[a].at = "asks"
          /\ machines' = machines \union {m} /\ request[a].ref # NoRef /\ ledger[a].ref = NoRef
          /\ ledger[a].status = "pending"
          /\ UNCHANGED <<ledger, remover, strays>>
      BY <1>0, <1>1, <1>5, <2>1 DEF BackendAllocates, Goes, Requests, RowOf
    <2>3. m \in Machines /\ m.row = a /\ m.ref = request[a].ref
      BY <1>1, <2>1, <2>2, MachineOf
    <2>4. RowOf(a)'
      BY <1>0, <2>1, <2>2 DEF RowOf
    <2>5. \A n \in machines' : n.row = a =>
            \/ n \in strays'
            \/ r.at \in {"marks", "cleans"} /\ r.ref = n.ref
            \/ ledger[a].status = "ready" /\ ledger[a].ref = n.ref
      BY <1>1, <2>1, <2>2, <2>3
    <2>6. /\ machines' \subseteq Machines /\ strays' \subseteq Machines /\ strays \subseteq strays'
          /\ NewOf(a)
      BY <1>0, <2>2, <2>3 DEF NewOf
    <2> QED
      BY <1>2, <2>2, <2>4, <2>5, <2>6
  <1>6. ASSUME NEW a \in Ledger, NEW made \in BOOLEAN, BackendErrs(a, made) PROVE Goal
    <2>1. PICK M : M = IF made THEN {Machine(a, request[a].ref)} ELSE {}
      OBVIOUS
    <2>2. PICK r : r = IF request[a].ref > Retries THEN [at |-> "fails", ref |-> request[a].ref]
                       ELSE [at |-> "asks", ref |-> request[a].ref + 1]
      OBVIOUS
    <2>3. /\ request' = [request EXCEPT ![a] = r] /\ request[a].at = "asks"
          /\ machines' = machines \union M /\ strays' = strays \union M
          /\ request[a].ref # NoRef /\ ledger[a].ref = NoRef /\ ledger[a].status = "pending"
          /\ UNCHANGED <<ledger, remover>>
      BY <1>0, <1>1, <1>6, <2>1, <2>2 DEF BackendErrs, RowOf
    <2>4. r \in Requests /\ r.at \in {"asks", "fails"} /\ r.ref # NoRef
      <3>1. request[a].ref \in 1..(Retries + 1)
        BY <1>1, <2>3 DEF Attempts
      <3>2. CASE request[a].ref > Retries
        BY <1>0, <2>2, <2>3, <3>1, <3>2 DEF Requests, Attempts
      <3>3. CASE ~(request[a].ref > Retries)
        <4>1. request[a].ref + 1 \in 1..(Retries + 1) /\ request[a].ref + 1 # 0
          BY <1>0, <3>1, <3>3
        <4> QED
          BY <2>2, <3>3, <4>1 DEF Requests, Attempts, NoRef
      <3> QED
        BY <3>2, <3>3
    <2>5. M \subseteq Machines /\ \A m \in M : m.row = a /\ m.ref # NoRef
      BY <1>0, <1>1, <2>1, <2>3, MachineOf
    <2>6. RowOf(a)'
      BY <1>0, <2>3, <2>4 DEF RowOf
    <2> QED
      BY <1>0, <1>1, <1>2, <2>3, <2>4, <2>5, <2>6 DEF NewOf
  <1>7. ASSUME NEW a \in Ledger, request[a].at \notin {"idle"}, NEW M \in SUBSET {Machine(a, request[a].ref)},
               Goes(a, "done"), M \subseteq Machines, strays' = strays \union M,
               request[a].at \in {"marks", "cleans"} => M = {Machine(a, request[a].ref)},
               UNCHANGED <<ledger, remover, machines>>
        PROVE Goal
    <2>1. PICK r : r = [at |-> "done", ref |-> NoRef]
      OBVIOUS
    <2>2. r \in Requests /\ request' = [request EXCEPT ![a] = r]
      BY <1>7, <2>1 DEF Goes, Requests
    <2>3. RowOf(a)'
      BY <1>0, <1>7, <2>1, <2>2 DEF RowOf
    <2>4. \A m \in machines : m.row = a /\ request[a].at \in {"marks", "cleans"} /\ m.ref = request[a].ref => m \in M
      BY <1>0, <1>7, MachineParts
    <2>5. \A m \in machines' : m.row = a =>
            \/ m \in strays'
            \/ r.at \in {"marks", "cleans"} /\ r.ref = m.ref
            \/ ledger[a].status = "ready" /\ ledger[a].ref = m.ref
      BY <1>1, <1>7, <2>4
    <2>6. /\ machines' \subseteq Machines /\ strays' \subseteq Machines /\ strays \subseteq strays'
          /\ NewOf(a) /\ UNCHANGED <<ledger, remover>>
      BY <1>0, <1>7 DEF NewOf
    <2> QED
      BY <1>2, <2>2, <2>3, <2>5, <2>6
  <1>8. ASSUME NEW a \in Ledger, BackoffEnds(a) PROVE Goal
    <2>1. /\ request[a].at = "asks" /\ Goes(a, "done") /\ strays' = strays \union {}
          /\ UNCHANGED <<ledger, remover, machines>>
      BY <1>8 DEF BackoffEnds
    <2>2. PICK M \in SUBSET {Machine(a, request[a].ref)} : M = {}
      OBVIOUS
    <2>3. /\ request[a].at \notin {"idle"} /\ request[a].at \notin {"marks", "cleans"}
          /\ strays' = strays \union M /\ M \subseteq Machines
      BY <2>1, <2>2
    <2> QED
      BY <1>7, <2>1, <2>3
  <1>9. ASSUME NEW a \in Ledger, NEW answered \in BOOLEAN, MarkReady(a, answered) PROVE Goal
    <2>0. /\ request[a].at = "marks" /\ request[a].ref \in Attempts /\ ledger[a].status = "pending"
          /\ ledger[a].ref = NoRef /\ UNCHANGED <<remover, machines, strays>>
      BY <1>0, <1>1, <1>9 DEF MarkReady, RowOf
    <2>1. CASE ledger' = [ledger EXCEPT ![a] = [status |-> "ready", ref |-> request[a].ref]]
               /\ Goes(a, IF answered THEN "done" ELSE "cleans")
      <3>1. PICK r, row : /\ r = (IF answered THEN [at |-> "done", ref |-> NoRef]
                                  ELSE [at |-> "cleans", ref |-> request[a].ref])
                          /\ row = [status |-> "ready", ref |-> request[a].ref]
        OBVIOUS
      <3>2. request' = [request EXCEPT ![a] = r] /\ ledger' = [ledger EXCEPT ![a] = row]
        BY <2>1, <3>1 DEF Goes
      <3>3. /\ r \in Requests /\ row \in LedgerRows /\ r.at \in {"done", "cleans"}
            /\ r.at = "cleans" => r.ref = request[a].ref
        BY <2>0, <3>1 DEF Requests, LedgerRows
      <3>4. RowOf(a)'
        BY <1>0, <2>0, <3>1, <3>2, <3>3 DEF RowOf
      <3>5. \A m \in machines : m.row = a =>
              \/ m \in strays
              \/ r.at \in {"marks", "cleans"} /\ r.ref = m.ref
              \/ row.status = "ready" /\ row.ref = m.ref
        BY <1>1, <2>0, <3>1
      <3>6. /\ machines' \subseteq Machines /\ strays' \subseteq Machines /\ strays \subseteq strays'
            /\ (ledger[a].ref # NoRef => row.ref = ledger[a].ref) /\ ledger[a].status # "shutdown"
        BY <1>0, <2>0
      <3>7. /\ UNCHANGED remover
            /\ ledger[a].status = "shutdown" => row = ledger[a]
            /\ NewOf(a) /\ Explained(a, r, row)'
        BY <2>0, <3>5 DEF NewOf, Explained
      <3> QED
        BY <3>2, <3>3, <3>4, <3>6, <3>7, RequestStep
    <2>2. CASE Goes(a, "cleans") /\ UNCHANGED ledger
      <3>1. PICK r : r = [at |-> "cleans", ref |-> request[a].ref]
        OBVIOUS
      <3>2. request' = [request EXCEPT ![a] = r] /\ r \in Requests
        BY <2>0, <2>2, <3>1 DEF Goes, Requests
      <3>3. RowOf(a)'
        BY <1>0, <2>0, <2>2, <3>1, <3>2 DEF RowOf
      <3> QED
        BY <1>0, <1>1, <1>2, <2>0, <2>2, <3>1, <3>2, <3>3 DEF NewOf
    <2> QED
      BY <1>9, <2>1, <2>2 DEF MarkReady
  <1>10. ASSUME NEW a \in Ledger, CleanUp(a) \/ CleanUpErrs(a) PROVE Goal
    <2>1. PICK r, m : r = [at |-> "fails", ref |-> request[a].ref] /\ m = Machine(a, request[a].ref)
      OBVIOUS
    <2>2. /\ r \in Requests /\ request' = [request EXCEPT ![a] = r] /\ request[a].at = "cleans"
          /\ request[a].ref \in Attempts /\ UNCHANGED <<ledger, remover>>
          /\ \/ machines' = machines \ {m} /\ strays' = strays
             \/ machines' = machines /\ strays' = strays \union {m}
      BY <1>0, <1>1, <1>10, <2>1 DEF CleanUp, CleanUpErrs, Goes, Requests, RowOf
    <2>3. m \in Machines /\ m.row = a /\ m.ref = request[a].ref
      BY <2>1, <2>2, MachineOf
    <2>4. \A n \in machines : n.row = a /\ n.ref = request[a].ref => n = m
      BY <1>0, <2>1, MachineParts
    <2>5. RowOf(a)'
      BY <1>0, <2>1, <2>2 DEF RowOf
    <2> QED
      BY <1>0, <1>1, <1>2, <2>1, <2>2, <2>3, <2>4, <2>5, ZenonT(60) DEF NewOf
  <1>11. ASSUME NEW a \in Ledger, MarkFailed(a) PROVE Goal
    <2>1. PICK r, row : r = [at |-> "done", ref |-> NoRef] /\ row = Failed(ledger[a])
      OBVIOUS
    <2>2. /\ r \in Requests /\ request' = [request EXCEPT ![a] = r] /\ request[a].at = "fails"
          /\ ledger' = [ledger EXCEPT ![a] = row] /\ UNCHANGED <<remover, machines, strays>>
          /\ ledger[a].status # "none"
      BY <1>0, <1>1, <1>11, <2>1 DEF MarkFailed, Goes, Requests, RowOf
    <2>3. /\ row \in LedgerRows /\ row.ref = ledger[a].ref /\ row.status \in {"failed", "shutdown"}
          /\ ledger[a].status = "shutdown" => row = ledger[a]
      BY <1>1, <2>1 DEF Failed, LedgerRows
    <2>4. RowOf(a)'
      BY <1>0, <2>1, <2>2, <2>3 DEF RowOf
    <2>5. \A m \in machines : m.row = a => m \in strays
      BY <1>0, <1>1, <2>2, MachineParts DEF RowOf
    <2> QED
      BY <1>0, <1>1, <2>1, <2>2, <2>3, <2>4, <2>5, RequestStep DEF NewOf, Explained
  <1>12. ASSUME NEW a \in Ledger, RequestEnds(a) PROVE Goal
    <2>1. PICK M : M = IF request[a].at \in {"marks", "cleans"} THEN {Machine(a, request[a].ref)} ELSE {}
      OBVIOUS
    <2>2. /\ request[a].at \notin {"idle"} /\ Goes(a, "done") /\ strays' = strays \union M
          /\ UNCHANGED <<ledger, remover, machines>>
      BY <1>12, <2>1 DEF RequestEnds
    <2>3. M \subseteq Machines /\ M \in SUBSET {Machine(a, request[a].ref)}
      BY <1>0, <1>1, <2>1, MachineOf DEF RowOf
    <2> QED
      BY <1>7, <2>1, <2>2, <2>3
  <1>13. ASSUME NEW d \in Removers, NEW a \in Ledger, ReadRow(d, a) PROVE Goal
    <2>1. PICK v : v = [at |-> "calls", row |-> a, ref |-> ledger[a].ref]
      OBVIOUS
    <2>2. /\ v \in Removals /\ remover' = [remover EXCEPT ![d] = v]
          /\ UNCHANGED <<ledger, request, machines, strays>>
      BY <1>1, <1>13, <2>1 DEF ReadRow, Removals
    <2>3. RemovalHolds(d)'
      BY <1>0, <2>1, <2>2 DEF RemovalHolds
    <2> QED
      BY <2>2, <2>3, RemovalStep
  <1>14. ASSUME NEW d \in Removers, Finds(d, "idle"), UNCHANGED <<ledger, request, strays>>,
                machines' \subseteq machines
         PROVE  Goal
    <2>1. remover' = [remover EXCEPT ![d] = NoRemoval]
      BY <1>14 DEF Finds
    <2>2. RemovalHolds(d)'
      BY <1>0, <2>1 DEF RemovalHolds, NoRemoval
    <2> QED
      BY <1>14, <2>1, <2>2, RemovalStep
  <1>15. ASSUME NEW d \in Removers, BackendDeletes(d) PROVE Goal
    <2>1. PICK v : v = [at |-> "releases", row |-> remover[d].row, ref |-> remover[d].ref]
      OBVIOUS
    <2>2. /\ remover[d] \in Removals /\ remover' = [remover EXCEPT ![d] = v] /\ remover[d].ref # NoRef
          /\ remover[d].at = "calls"
          /\ machines' = machines \ {Machine(remover[d].row, remover[d].ref)}
          /\ UNCHANGED <<ledger, request, strays>>
      BY <1>0, <1>15, <2>1 DEF BackendDeletes, Finds, NoRemoval
    <2>3. v \in Removals
      BY <2>1, <2>2 DEF Removals
    <2>4. RemovalHolds(d)
      BY DEF ManualInv, RemovalsHold
    <2>5. RemovalHolds(d)'
      BY <1>0, <2>1, <2>2, <2>4 DEF RemovalHolds
    <2> QED
      BY <2>2, <2>3, <2>5, RemovalStep
  <1>16. ASSUME NEW d \in Removers, BackendRefuses(d) PROVE Goal
    BY <1>14, <1>16 DEF BackendRefuses, AfterErr
  <1>17. ASSUME NEW d \in Removers, ReleaseErrs(d) PROVE Goal
    BY <1>14, <1>17 DEF ReleaseErrs
  <1>18. ASSUME NEW d \in Removers, Release(d) PROVE Goal
    <2>1. remover[d] \in Removals /\ remover[d].at = "releases"
      BY <1>0, <1>18 DEF Release, NoRemoval
    <2>1a. PICK a \in Ledger : a = remover[d].row
      BY <2>1 DEF Removals
    <2>2. PICK row : a = remover[d].row /\ row = [status |-> "shutdown", ref |-> ledger[a].ref]
      BY <2>1a
    <2>3. /\ remover' = [remover EXCEPT ![d] = NoRemoval] /\ UNCHANGED <<request, machines, strays>>
          /\ ledger' = [ledger EXCEPT ![a] = row]
      <3>1. row = [ledger[a] EXCEPT !.status = "shutdown"]
        BY <1>1, <2>2 DEF LedgerRows
      <3> QED
        BY <1>18, <2>2, <3>1 DEF Release, Finds
    <2>4. row \in LedgerRows /\ (ledger[a].status = "shutdown" => row = ledger[a])
      BY <1>1, <2>2 DEF LedgerRows
    <2>5. /\ ledger[a].ref = remover[d].ref /\ remover[d].ref # NoRef
          /\ Machine(a, remover[d].ref) \notin machines
      BY <2>1, <2>2 DEF ManualInv, RemovalsHold, RemovalHolds
    <2>6. /\ ledger' \in [Ledger -> LedgerRows] /\ ledger'[a] = row
          /\ \A b \in Ledger : b # a => ledger'[b] = ledger[b]
      BY <1>0, <2>3, <2>4
    <2>7. /\ remover' \in [Removers -> {NoRemoval} \union Removals] /\ remover'[d] = NoRemoval
          /\ \A e \in Removers : e # d => remover'[e] = remover[e]
      BY <1>0, <2>3
    <2>8. ManualTyped'
      BY <1>0, <2>3, <2>6, <2>7 DEF ManualTyped
    <2>9. RowOf(a)'
      BY <1>0, <2>2, <2>3, <2>5, <2>6 DEF RowOf
    <2>10. RowsFollow'
      BY <1>0, <2>3, <2>6, <2>9 DEF RowsFollow, RowOf
    <2>11. ASSUME NEW e \in Removers PROVE RemovalHolds(e)'
      <3>1. RemovalHolds(e) /\ (remover[e].at # "idle" => remover[e] \in Removals)
        BY <1>0 DEF ManualInv, RemovalsHold, NoRemoval
      <3>2. \A b \in Ledger : ledger'[b].ref = ledger[b].ref
        BY <2>2, <2>6
      <3> QED
        BY <2>3, <2>7, <3>1, <3>2 DEF RemovalHolds, NoRemoval, Removals
    <2>12. ServersAccounted'
      <3> SUFFICES ASSUME NEW m \in machines
                   PROVE  \/ m \in strays
                          \/ request[m.row].at \in {"marks", "cleans"} /\ request[m.row].ref = m.ref
                          \/ ledger'[m.row] = [status |-> "ready", ref |-> m.ref]
        BY <2>3 DEF ServersAccounted
      <3>1. /\ m.row \in Ledger /\ m = Machine(m.row, m.ref)
            /\ \/ m \in strays
               \/ request[m.row].at \in {"marks", "cleans"} /\ request[m.row].ref = m.ref
               \/ ledger[m.row] = [status |-> "ready", ref |-> m.ref]
        BY <1>0, MachineParts DEF ManualInv, ServersAccounted
      <3> QED
        BY <2>5, <2>6, <3>1
    <2>13. ShutdownStays
      BY <2>4, <2>6 DEF ShutdownStays
    <2> QED
      BY <2>8, <2>10, <2>11, <2>12, <2>13 DEF ManualInv, RemovalsHold
  <1>19. ASSUME NEW t \in Templates, CreateTemplate(t) \/ DeleteTemplate(t) PROVE Goal
    BY <1>19
    DEF CreateTemplate, DeleteTemplate, ManualInv, ManualTyped, RowsFollow, RowOf, RemovalsHold,
        RemovalHolds, ServersAccounted, ShutdownStays
  <1>20. CASE UNCHANGED msVars
    BY <1>20
    DEF msVars, ManualInv, ManualTyped, RowsFollow, RowOf, RemovalsHold, RemovalHolds, ServersAccounted
  <1> QED
    BY <1>3, <1>4, <1>5, <1>6, <1>8, <1>9, <1>10, <1>11, <1>12, <1>13, <1>15, <1>16, <1>17, <1>18, <1>19,
       <1>20 DEF ManualNext

\* However operators, retries and failing calls interleave in Manager.Allocate and
\* Manager.Deallocate, every server that runs is on its row, in the hands of its
\* request, or was lost by a call that failed, and a released row is never taken up
\* again: for any number of rows, requests and retries.  It rests on RowsFollow, by
\* which a row fails only once its server is gone, and on RemovalsHold.
THEOREM ManualServersHold == ManualSpec => ManualSound
PROOF
  <1>1. ManualInv' => ServersAccounted'
    BY DEF ManualInv
  <1> QED
    BY ManualInitial, ManualStep, <1>1, PTL DEF ManualSpec, ManualSound, ShutdownStays

-----------------------------------------------------------------------------
(* PlayerSlots *)

\* Where a connection is, and what is kept of it.
Stages == {"none", "upgrading", "waits", "pings", "revalidates", "closing"}
ConnRows == [at : Stages, since : Nat, phase : Nat, due : BOOLEAN]

\* AgeBound: how old the counter can be under one connection, by how far that
\* connection has come since it last refreshed it.  The ticker fires during a
\* revalidation that takes a whole interval, so the wait after it is the shorter.
AgeBound(r) ==
  /\ r.at = "none" => r = NoConn
  /\ r.at = "upgrading" => slot.age <= r.since /\ r.since <= SlotOverhead /\ r.phase = 0 /\ ~r.due
  /\ r.at = "waits" /\ r.due => slot.age <= HeartbeatInterval + SlotOverhead
  /\ r.at = "waits" /\ ~r.due => slot.age <= SlotOverhead + r.phase
  /\ r.at = "pings" =>
       r.since <= HeartbeatInterval /\ slot.age <= HeartbeatInterval + SlotOverhead + r.since
  /\ r.at = "revalidates" =>
       r.since <= HeartbeatInterval /\ slot.age <= r.since /\ (~r.due => slot.age <= r.phase)
  /\ r.at = "closing" =>
       r.since <= SlotOverhead /\ slot.age <= 2 * HeartbeatInterval + SlotOverhead + r.since
  /\ r.phase < HeartbeatInterval

\* The inductive invariant: the counter is the number of connections, and exists,
\* not expired, as long as there is one.
SlotsInv ==
  /\ conn \in [Conns -> ConnRows]
  /\ slot \in [count : Nat, age : Nat, exists : BOOLEAN]
  /\ IsFiniteSet(HoldingSlot) /\ slot.count = Cardinality(HoldingSlot) /\ slot.count <= MaxPerPlayer
  /\ HoldingSlot # {} => slot.exists
  /\ \A c \in Conns : AgeBound(conn[c])

\* What the bounds come to: the counter does not expire under a connection.
LEMMA NeverLapses ==
  ASSUME SlotsInv, HoldingSlot # {}
  PROVE  ~SlotLapsed /\ slot.exists /\ SlotCount = slot.count
PROOF
  <1>1. PICK c \in Conns : conn[c].at # "none"
    BY DEF HoldingSlot
  <1>2. /\ conn[c].at \in Stages /\ conn[c].since \in Nat /\ conn[c].phase \in Nat /\ slot.age \in Nat
        /\ conn[c].due \in BOOLEAN /\ AgeBound(conn[c])
    BY DEF SlotsInv, ConnRows
  <1>3. slot.age <= 2 * HeartbeatInterval + 2 * SlotOverhead
    BY <1>1, <1>2, SlotsAssumption DEF AgeBound, Stages
  <1>4. ~SlotLapsed
    BY <1>2, <1>3, SlotsAssumption DEF SlotLapsed, SlotTTL
  <1> QED
    BY <1>4 DEF SlotsInv, SlotCount

\* The counter, read as AcquireSlot reads it, is the stored number.
LEMMA SlotsCounted ==
  ASSUME SlotsInv PROVE SlotCount = slot.count
PROOF
  <1>1. CASE HoldingSlot # {}
    BY <1>1, NeverLapses
  <1>2. CASE HoldingSlot = {}
    <2>1. slot.count = 0
      BY <1>2, FS_EmptySet DEF SlotsInv
    <2> QED
      BY <2>1 DEF SlotCount
  <1> QED
    BY <1>1, <1>2

\* A server without connections.
LEMMA SlotsInitial == SlotsInit => SlotsInv
PROOF
  <1> SUFFICES ASSUME SlotsInit PROVE SlotsInv
    OBVIOUS
  <1>1. conn \in [Conns -> ConnRows] /\ HoldingSlot = {}
    BY DEF SlotsInit, NoConn, ConnRows, Stages, HoldingSlot
  <1>2. slot \in [count : Nat, age : Nat, exists : BOOLEAN] /\ slot.count = 0
    BY DEF SlotsInit, NoSlot
  <1>3. \A c \in Conns : AgeBound(conn[c])
    BY SlotsAssumption DEF SlotsInit, AgeBound, NoConn
  <1> QED
    BY <1>1, <1>2, <1>3, FS_EmptySet, SlotsAssumption DEF SlotsInv

\* A younger counter keeps every bound.
LEMMA Younger ==
  ASSUME NEW r \in ConnRows, slot.age \in Nat, slot'.age \in 0..slot.age, AgeBound(r)
  PROVE  AgeBound(r)'
PROOF
  BY SlotsAssumption DEF AgeBound, ConnRows

\* A step of one connection that has a slot, before and after.
LEMMA ConnMoves ==
  ASSUME SlotsInv, NEW c \in Conns, NEW r \in ConnRows, conn' = [conn EXCEPT ![c] = r],
         conn[c].at # "none", r.at # "none",
         slot' \in [count : Nat, age : Nat, exists : BOOLEAN], slot'.age \in 0..slot.age,
         slot'.count = slot.count, slot'.exists = slot.exists, AgeBound(r)'
  PROVE  SlotsInv'
PROOF
  <1>1. /\ conn' \in [Conns -> ConnRows] /\ conn'[c] = r /\ \A d \in Conns : d # c => conn'[d] = conn[d]
        /\ \A d \in Conns : conn[d] \in ConnRows /\ AgeBound(conn[d])
        /\ slot.age \in Nat
    BY DEF SlotsInv
  <1>2. HoldingSlot' = HoldingSlot
    BY <1>1 DEF HoldingSlot
  <1>3. ASSUME NEW d \in Conns PROVE AgeBound(conn[d])'
    <2>1. CASE d = c
      BY <1>1, <2>1
    <2>2. CASE d # c
      <3>1. PICK q \in ConnRows : q = conn[d]
        BY <1>1
      <3>2. AgeBound(q)'
        BY <1>1, <3>1, Younger
      <3>3. conn'[d] = q
        BY <1>1, <2>2, <3>1
      <3> QED
        BY <3>2, <3>3
    <2> QED
      BY <2>1, <2>2
  <1> QED
    BY <1>1, <1>2, <1>3 DEF SlotsInv

\* A tick: every connection gets older, and its ticker goes on.
LEMMA TickKeeps ==
  ASSUME SlotsInv, SlotTick
  PROVE  SlotsInv'
PROOF
  <1> DEFINE H == HeartbeatInterval
             O == SlotOverhead
  <1>0. H \in Nat \ {0} /\ O \in Nat /\ 2 * O < H /\ MaxPerPlayer \in Nat
    BY SlotsAssumption
  <1>1. /\ conn \in [Conns -> ConnRows] /\ slot \in [count : Nat, age : Nat, exists : BOOLEAN]
        /\ \A c \in Conns : conn[c] \in ConnRows /\ AgeBound(conn[c])
        /\ slot.age \in Nat
    BY DEF SlotsInv
  <1>2. /\ slot' \in [count : Nat, age : Nat, exists : BOOLEAN] /\ slot'.count = slot.count
        /\ slot'.exists = slot.exists /\ slot'.age \in Nat /\ slot'.age <= slot.age + 1
    BY <1>1 DEF SlotTick
  <1>3. \A c \in Conns : conn'[c] = ConnAged(c)
    BY DEF SlotTick
  <1>4. ASSUME NEW c \in Conns PROVE conn'[c] \in ConnRows /\ conn'[c].at = conn[c].at /\ AgeBound(conn[c])'
    <2>1. PICK r \in ConnRows : r = conn[c]
      BY <1>1
    <2>2. /\ r.at \in Stages /\ r.since \in Nat /\ r.phase \in Nat /\ r.due \in BOOLEAN /\ AgeBound(r)
          /\ r.phase < H
      BY <1>1, <2>1 DEF ConnRows, AgeBound
    <2>3. PICK q : q = ConnAged(c) /\ q = conn'[c]
      BY <1>3
    <2>4. r.at # "none" => r.since < StageTime(r.at) /\ ~(r.at = "waits" /\ r.due)
      BY <2>1 DEF SlotTick, HoldingSlot
    <2>5. CASE r.at = "none"
      <3>1. r = NoConn
        BY <2>2, <2>5 DEF AgeBound
      <3>2. q = NoConn
        BY <2>1, <2>3, <3>1, Zenon DEF ConnAged
      <3>3. AgeBound(NoConn)'
        BY <1>0 DEF AgeBound, NoConn
      <3> QED
        BY <2>1, <2>3, <3>1, <3>2, <3>3
    <2>6. CASE r.at \in {"upgrading", "closing"}
      <3>1. q = [at |-> r.at, since |-> r.since + 1, phase |-> r.phase, due |-> r.due]
        <4>1. r # NoConn /\ ~SocketOpen(c)
          BY <2>1, <2>6 DEF NoConn, SocketOpen
        <4>2. q = [r EXCEPT !.since = r.since + 1]
          BY <2>1, <2>3, <4>1, Zenon DEF ConnAged
        <4> QED
          BY <4>2 DEF ConnRows
      <3>2. r.since + 1 <= O
        BY <1>0, <2>2, <2>4, <2>6 DEF StageTime
      <3>3. q \in ConnRows /\ q.at = r.at
        BY <2>2, <3>1 DEF ConnRows
      <3>4. AgeBound(q)'
        BY <1>0, <1>1, <1>2, <2>2, <2>6, <3>1, <3>2 DEF AgeBound
      <3> QED
        BY <2>1, <2>3, <3>3, <3>4
    <2>7. CASE r.at \in {"waits", "pings", "revalidates"}
      <3>1. PICK s, f, u : /\ s = (IF r.at = "waits" THEN 0 ELSE r.since + 1)
                           /\ f = (IF r.phase + 1 = H THEN 0 ELSE r.phase + 1)
                           /\ u = (r.due \/ r.phase + 1 = H)
        OBVIOUS
      <3>2. q = [at |-> r.at, since |-> s, phase |-> f, due |-> u]
        <4>1. r # NoConn /\ SocketOpen(c)
          BY <2>1, <2>7 DEF NoConn, SocketOpen
        <4> QED
          BY <2>1, <2>3, <3>1, <4>1, Zenon DEF ConnAged
      <3>3. /\ s \in Nat /\ f \in Nat /\ f < H /\ (r.phase + 1 # H => f = r.phase + 1)
            /\ r.at # "waits" => s = r.since + 1
        BY <1>0, <2>2, <3>1
      <3>4. u \in BOOLEAN /\ (~u => ~r.due /\ r.phase + 1 # H) /\ (u /\ ~r.due => r.phase + 1 = H)
        BY <2>2, <3>1
      <3>5. q \in ConnRows /\ q.at = r.at /\ q.since = s /\ q.phase = f /\ q.due = u
        BY <2>2, <3>2, <3>3, <3>4 DEF ConnRows
      <3>6. r.at # "waits" => r.since + 1 <= H
        <4>1. r.at # "waits" => StageTime(r.at) = H
          BY <2>7 DEF StageTime
        <4>2. r.at # "waits" => r.since < H
          BY <2>4, <2>7, <4>1
        <4> QED
          BY <1>0, <2>2, <4>2
      <3>7. ASSUME r.at = "waits" PROVE AgeBound(q)'
        BY <1>0, <1>1, <1>2, <2>2, <2>4, <3>3, <3>4, <3>5, <3>7 DEF AgeBound
      <3>8. ASSUME r.at = "pings" PROVE AgeBound(q)'
        BY <1>0, <1>1, <1>2, <2>2, <3>3, <3>4, <3>5, <3>6, <3>8 DEF AgeBound
      <3>9. ASSUME r.at = "revalidates" PROVE AgeBound(q)'
        BY <1>0, <1>1, <1>2, <2>2, <3>3, <3>4, <3>5, <3>6, <3>9 DEF AgeBound
      <3>10. AgeBound(q)'
        BY <2>7, <3>7, <3>8, <3>9
      <3> QED
        BY <2>1, <2>3, <3>5, <3>10
    <2> QED
      BY <2>2, <2>5, <2>6, <2>7 DEF Stages
  <1>5. conn' \in [Conns -> ConnRows]
    <2>1. conn' = [c \in Conns |-> ConnAged(c)]
      BY DEF SlotTick
    <2> QED
      BY <1>3, <1>4, <2>1
  <1>6. HoldingSlot' = HoldingSlot
    BY <1>4 DEF HoldingSlot
  <1> QED
    BY <1>2, <1>4, <1>5, <1>6 DEF SlotsInv

\* Every step of a connection, of the janitor and of time.
LEMMA SlotsStep == SlotsInv /\ [SlotsNext]_pcVars => SlotsInv'
PROOF
  <1> SUFFICES ASSUME SlotsInv, [SlotsNext]_pcVars PROVE SlotsInv'
    OBVIOUS
  <1>0. /\ conn \in [Conns -> ConnRows] /\ slot \in [count : Nat, age : Nat, exists : BOOLEAN]
        /\ HeartbeatInterval \in Nat \ {0} /\ SlotOverhead \in Nat /\ 2 * SlotOverhead < HeartbeatInterval
        /\ MaxPerPlayer \in Nat /\ slot.count \in Nat /\ slot.age \in Nat
    BY SlotsAssumption DEF SlotsInv
  <1>1. ASSUME NEW c \in Conns
        PROVE  /\ conn[c] \in ConnRows /\ AgeBound(conn[c]) /\ conn[c].at \in Stages /\ conn[c].since \in Nat
               /\ conn[c].phase \in Nat /\ conn[c].due \in BOOLEAN /\ conn[c].phase < HeartbeatInterval
    BY DEF SlotsInv, ConnRows, AgeBound
  <1>2. ASSUME NEW c \in Conns, AcquireSlot(c) PROVE SlotsInv'
    <2>1. PICK r : r = [at |-> "upgrading", since |-> 0, phase |-> conn[c].phase, due |-> conn[c].due]
      OBVIOUS
    <2>2. /\ conn[c] = NoConn /\ slot.count < MaxPerPlayer /\ conn' = [conn EXCEPT ![c] = r]
          /\ slot' = [count |-> slot.count + 1, age |-> 0, exists |-> TRUE]
      BY <1>2, <2>1, SlotsCounted DEF AcquireSlot, Moves
    <2>3. r \in ConnRows /\ r.at = "upgrading" /\ r.phase = 0 /\ ~r.due /\ r.since = 0
      BY <2>1, <2>2 DEF ConnRows, Stages, NoConn
    <2>4. /\ conn' \in [Conns -> ConnRows] /\ conn'[c] = r /\ \A d \in Conns : d # c => conn'[d] = conn[d]
      BY <1>0, <2>2, <2>3
    <2>5. HoldingSlot' = HoldingSlot \union {c} /\ c \notin HoldingSlot
      BY <2>2, <2>3, <2>4 DEF HoldingSlot, NoConn
    <2>6. IsFiniteSet(HoldingSlot') /\ Cardinality(HoldingSlot') = Cardinality(HoldingSlot) + 1
      BY <2>5, FS_AddElement DEF SlotsInv
    <2>7. slot' \in [count : Nat, age : Nat, exists : BOOLEAN] /\ slot'.age \in 0..slot.age /\ slot'.age = 0
      BY <1>0, <2>2
    <2>8. ASSUME NEW d \in Conns PROVE AgeBound(conn[d])'
      <3>1. CASE d = c
        <4>1. AgeBound(r)'
          BY <1>0, <2>3, <2>7 DEF AgeBound
        <4> QED
          BY <2>4, <3>1, <4>1
      <3>2. CASE d # c
        <4>1. PICK q \in ConnRows : q = conn[d] /\ AgeBound(q)
          BY <1>1
        <4>2. AgeBound(q)'
          BY <1>0, <2>7, <4>1, Younger
        <4> QED
          BY <2>4, <3>2, <4>1, <4>2
      <3> QED
        BY <3>1, <3>2
    <2> QED
      BY <1>0, <2>2, <2>4, <2>6, <2>7, <2>8 DEF SlotsInv
  <1>3. ASSUME NEW c \in Conns, NEW r \in ConnRows, conn' = [conn EXCEPT ![c] = r],
               conn[c].at # "none", r.at # "none", slot' = slot, AgeBound(r)
        PROVE  SlotsInv'
    <2>1. slot' \in [count : Nat, age : Nat, exists : BOOLEAN] /\ slot'.age \in 0..slot.age
          /\ slot'.count = slot.count /\ slot'.exists = slot.exists
      BY <1>0, <1>3
    <2>2. AgeBound(r)'
      BY <1>0, <1>3, <2>1, Younger
    <2> QED
      BY <1>3, <2>1, <2>2, ConnMoves
  <1>4. ASSUME NEW c \in Conns, Upgraded(c) PROVE SlotsInv'
    <2>1. PICK r : r = [at |-> "waits", since |-> 0, phase |-> conn[c].phase, due |-> conn[c].due]
      OBVIOUS
    <2>2. r \in ConnRows /\ r.at = "waits" /\ conn' = [conn EXCEPT ![c] = r] /\ slot' = slot /\ conn[c].at = "upgrading"
      BY <1>1, <1>4, <2>1 DEF Upgraded, Moves, ConnRows, Stages
    <2>3. AgeBound(r)
      BY <1>0, <1>1, <2>1, <2>2 DEF AgeBound
    <2> QED
      BY <1>3, <2>2, <2>3
  <1>5. ASSUME NEW c \in Conns, SocketEnds(c) PROVE SlotsInv'
    <2>1. PICK r : r = [at |-> "closing", since |-> 0, phase |-> 0, due |-> FALSE]
      OBVIOUS
    <2>2. /\ r \in ConnRows /\ r.at = "closing" /\ conn' = [conn EXCEPT ![c] = r] /\ slot' = slot
          /\ conn[c].at \in {"upgrading", "waits", "pings", "revalidates"}
      BY <1>5, <2>1 DEF SocketEnds, ConnRows, Stages
    <2>3. slot.age <= 2 * HeartbeatInterval + SlotOverhead
      BY <1>0, <1>1, <2>2 DEF AgeBound
    <2>4. AgeBound(r)
      BY <1>0, <2>1, <2>3 DEF AgeBound
    <2> QED
      BY <1>3, <2>2, <2>4
  <1>6. ASSUME NEW c \in Conns, HeartbeatTicks(c) PROVE SlotsInv'
    <2>1. PICK r : r = [at |-> "pings", since |-> 0, phase |-> conn[c].phase, due |-> FALSE]
      OBVIOUS
    <2>2. /\ r \in ConnRows /\ r.at = "pings" /\ conn' = [conn EXCEPT ![c] = r] /\ slot' = slot
          /\ conn[c].at = "waits" /\ conn[c].due
      BY <1>1, <1>6, <2>1 DEF HeartbeatTicks, ConnRows, Stages
    <2>3. AgeBound(r)
      BY <1>0, <1>1, <2>1, <2>2 DEF AgeBound
    <2> QED
      BY <1>3, <2>2, <2>3
  <1>7. ASSUME NEW c \in Conns, Revalidated(c) PROVE SlotsInv'
    <2>1. PICK r : r = [at |-> "waits", since |-> 0, phase |-> conn[c].phase, due |-> conn[c].due]
      OBVIOUS
    <2>2. r \in ConnRows /\ r.at = "waits" /\ conn' = [conn EXCEPT ![c] = r] /\ slot' = slot /\ conn[c].at = "revalidates"
      BY <1>1, <1>7, <2>1 DEF Revalidated, Moves, ConnRows, Stages
    <2>3. AgeBound(r)
      BY <1>0, <1>1, <2>1, <2>2 DEF AgeBound
    <2> QED
      BY <1>3, <2>2, <2>3
  <1>8. /\ SlotRefreshed \in [count : Nat, age : Nat, exists : BOOLEAN] /\ SlotRefreshed.age = 0
        /\ SlotRefreshed.count = slot.count /\ SlotRefreshed.exists = slot.exists
    BY <1>0 DEF SlotRefreshed
  <1>9. ASSUME NEW c \in Conns, PingBack(c) PROVE SlotsInv'
    <2>1. PICK r : r = [at |-> "revalidates", since |-> 0, phase |-> conn[c].phase, due |-> conn[c].due]
      OBVIOUS
    <2>2. r \in ConnRows /\ r.at = "revalidates" /\ conn' = [conn EXCEPT ![c] = r] /\ slot' = SlotRefreshed /\ conn[c].at = "pings"
      BY <1>1, <1>9, <2>1 DEF PingBack, Moves, ConnRows, Stages
    <2>3. /\ slot' \in [count : Nat, age : Nat, exists : BOOLEAN] /\ slot'.age \in 0..slot.age /\ slot'.age = 0
          /\ slot'.count = slot.count /\ slot'.exists = slot.exists
      BY <1>0, <1>8, <2>2
    <2>4. AgeBound(r)'
      BY <1>0, <1>1, <2>1, <2>2, <2>3 DEF AgeBound
    <2> QED
      BY <2>2, <2>3, <2>4, ConnMoves
  <1>10. ASSUME NEW c \in Conns, Inbound(c) PROVE SlotsInv'
    <2>1. PICK r \in ConnRows : r = conn[c] /\ r.at # "none"
      BY <1>1, <1>10 DEF Inbound, SocketOpen
    <2>2. conn' = [conn EXCEPT ![c] = r] /\ slot' = SlotRefreshed /\ conn[c].at # "none"
      BY <1>0, <1>10, <2>1 DEF Inbound
    <2>3. /\ slot' \in [count : Nat, age : Nat, exists : BOOLEAN] /\ slot'.age \in 0..slot.age
          /\ slot'.count = slot.count /\ slot'.exists = slot.exists
      BY <1>0, <1>8, <2>2
    <2>4. AgeBound(r)
      BY <1>1, <2>1
    <2>5. AgeBound(r)'
      BY <1>0, <2>3, <2>4, Younger
    <2> QED
      BY <2>1, <2>2, <2>3, <2>5, ConnMoves
  <1>11. ASSUME NEW c \in Conns, ReleaseSlot(c) PROVE SlotsInv'
    <2>1. /\ conn[c].at = "closing" /\ conn' = [conn EXCEPT ![c] = NoConn]
          /\ slot' = IF slot.count > 0 THEN [slot EXCEPT !.count = slot.count - 1] ELSE slot
      BY <1>11 DEF ReleaseSlot
    <2>2. NoConn \in ConnRows
      BY DEF NoConn, ConnRows, Stages
    <2>3. /\ conn' \in [Conns -> ConnRows] /\ conn'[c] = NoConn /\ \A d \in Conns : d # c => conn'[d] = conn[d]
      BY <1>0, <2>1, <2>2
    <2>4. HoldingSlot' = HoldingSlot \ {c} /\ c \in HoldingSlot
      BY <2>1, <2>3 DEF HoldingSlot, NoConn
    <2>5. IsFiniteSet(HoldingSlot') /\ Cardinality(HoldingSlot') = Cardinality(HoldingSlot) - 1
      BY <2>4, FS_RemoveElement DEF SlotsInv
    <2>6. Cardinality(HoldingSlot) = slot.count /\ slot.count > 0
      <3>1. IsFiniteSet(HoldingSlot) /\ slot.count = Cardinality(HoldingSlot)
        BY DEF SlotsInv
      <3>2. Cardinality(HoldingSlot) # 0
        BY <2>4, <3>1, FS_EmptySet
      <3> QED
        BY <1>0, <3>1, <3>2
    <2>7. /\ slot' \in [count : Nat, age : Nat, exists : BOOLEAN] /\ slot'.count = slot.count - 1
          /\ slot'.age = slot.age /\ slot'.exists = slot.exists /\ slot'.age \in 0..slot.age
      BY <1>0, <2>1, <2>6
    <2>8. ASSUME NEW d \in Conns PROVE AgeBound(conn[d])'
      <3>1. CASE d = c
        <4>1. AgeBound(NoConn)'
          BY <1>0 DEF AgeBound, NoConn
        <4> QED
          BY <2>3, <3>1, <4>1
      <3>2. CASE d # c
        <4>1. PICK q \in ConnRows : q = conn[d] /\ AgeBound(q)
          BY <1>1
        <4>2. AgeBound(q)'
          BY <1>0, <2>7, <4>1, Younger
        <4> QED
          BY <2>3, <3>2, <4>1, <4>2
      <3> QED
        BY <3>1, <3>2
    <2>9. slot'.count <= MaxPerPlayer /\ (HoldingSlot' # {} => slot'.exists)
      BY <1>0, <2>4, <2>7 DEF SlotsInv
    <2> QED
      BY <2>3, <2>5, <2>6, <2>7, <2>8, <2>9 DEF SlotsInv
  <1>12. CASE SweepSlot
    <2>1. slot' = NoSlot /\ conn' = conn /\ HoldingSlot = {}
      BY <1>12, NeverLapses DEF SweepSlot
    <2>2. HoldingSlot' = {} /\ Cardinality({}) = 0 /\ IsFiniteSet({})
      BY <2>1, FS_EmptySet DEF HoldingSlot
    <2>3. slot' \in [count : Nat, age : Nat, exists : BOOLEAN] /\ slot'.count = 0 /\ slot'.age = 0
      BY <2>1 DEF NoSlot
    <2>4. ASSUME NEW d \in Conns PROVE AgeBound(conn[d])'
      <3>1. PICK q \in ConnRows : q = conn[d] /\ AgeBound(q)
        BY <1>1
      <3>2. AgeBound(q)'
        BY <1>0, <2>3, <3>1, Younger
      <3> QED
        BY <2>1, <3>1, <3>2
    <2> QED
      BY <1>0, <2>1, <2>2, <2>3, <2>4 DEF SlotsInv
  <1>13. CASE SlotTick
    BY <1>13, TickKeeps
  <1>14. CASE UNCHANGED pcVars
    BY <1>14 DEF pcVars, SlotsInv, HoldingSlot, AgeBound
  <1> QED
    BY <1>2, <1>4, <1>5, <1>6, <1>7, <1>9, <1>10, <1>11, <1>12, <1>13, <1>14 DEF SlotsNext

\* The counter behind AcquireSlot is the number of the player's connections and
\* stays within the cap, for any heartbeat interval, any number of connections and
\* any overhead that is less than half a heartbeat: SlotTTL, three heartbeats, is
\* long enough.  It rests on AgeBound, which adds up the stages of a connection
\* between two refreshes of the counter.
THEOREM SlotsHold == SlotsSpec => []SlotsBacked
PROOF
  <1>1. SlotsInv => SlotsBacked
    BY SlotsCounted DEF SlotsInv, SlotsBacked
  <1> QED
    BY SlotsInitial, SlotsStep, <1>1, PTL DEF SlotsSpec

-----------------------------------------------------------------------------
(* Signals *)

\* Who a request may be from, and the rows of requests and signals, without bounds.
From == Senders \union {NoSend.from}
SendRows == [at : {"idle", "waits", "inserted", "done"}, from : From, began : Nat, id : Nat]
SignalRows == [id : Nat, from : From, created : Nat]

\* The types of the signals.
SignalsTyped ==
  /\ second \in Nat /\ lastId \in Nat /\ cursor \in Nat
  /\ send \in [Sends -> SendRows]
  /\ signals \subseteq SignalRows /\ IsFiniteSet(signals)

\* The sequence gives every insert an id of its own, and polls and the sweep know only
\* ids that were committed.
IdsOnce ==
  /\ \A x \in signals : x.id \in 1..lastId
  /\ \A x, y \in signals : x.id = y.id => x = y
  /\ \A r \in Sends : send[r].at = "inserted" =>
       /\ send[r].id \in 1..lastId
       /\ \A x \in signals : x.id # send[r].id
  /\ \A r, q \in Sends : send[r].at = "inserted" /\ send[q].at = "inserted" /\ send[r].id = send[q].id => r = q
  /\ \A i \in dropped \union given : \E x \in signals : x.id = i
  /\ cursor \in given \union {0}

\* LockSignalRate: one insert of a sender at a time waits for its commit, and no
\* more was committed since it counted.
LockHeld ==
  /\ \A r, q \in Sends : send[r].at = "inserted" /\ send[q].at = "inserted" /\ send[r].from = send[q].from => r = q
  /\ \A r \in Sends : send[r].at = "inserted" => Cardinality(Recent(r)) < MaxPerMinute

\* A request is over within RequestTime.
InTime ==
  \A r \in Sends : send[r].at \in {"waits", "inserted"}
    => send[r].began <= second /\ second <= send[r].began + RequestTime

\* What was deleted had expired.
DroppedLate == \A x \in signals : x.id \in dropped => Expired(x)

\* The inductive invariant of the signals.
SignalsInv == SignalsTyped /\ IdsOnce /\ LockHeld /\ InTime /\ DroppedLate /\ SignalsSound

\* A bounded, non-empty set of numbers has a greatest one: the cursor of a page.
LEMMA MaxOf ==
  ASSUME NEW S, S # {}, NEW n \in Nat, S \subseteq 1..n
  PROVE  Max(S) \in S /\ \A i \in S : i <= Max(S)
PROOF
  <1> DEFINE Bounds == {u \in Nat : \A i \in S : i <= u}
  <1>1. n \in Bounds
    OBVIOUS
  <1>2. PICK u \in Bounds : \A v \in Bounds : ~(<<v, u>> \in OpToRel(<, Nat))
    <2>1. IsWellFoundedOn(OpToRel(<, Nat), Nat)
      BY NatLessThanWellFounded
    <2>2. Bounds \subseteq Nat /\ Bounds # {}
      BY <1>1
    <2> QED
      BY <2>1, <2>2, WFMin
  <1>3. \A v \in Bounds : ~(v < u)
    BY <1>2 DEF OpToRel
  <1>4. u \in S
    <2>1. SUFFICES ASSUME u \notin S PROVE FALSE
      OBVIOUS
    <2>2. u \in Nat /\ \A j \in S : j \in Nat /\ 1 <= j /\ j <= u
      OBVIOUS
    <2>5. PICK i \in S : TRUE
      OBVIOUS
    <2>3. u - 1 \in Nat
      BY <2>2, <2>5
    <2>4. ASSUME NEW j \in S PROVE j <= u - 1
      <3>1. j # u
        BY <2>1
      <3> QED
        BY <2>2, <3>1
    <2> QED
      BY <1>3, <2>3, <2>4
  <1>5. \A i \in S : u >= i
    BY <1>2
  <1>6. \E x \in S : \A y \in S : x >= y
    BY <1>4, <1>5
  <1> QED
    BY <1>6 DEF Max

\* No signal was sent.
LEMMA SignalsInitial == SignalsInit => SignalsInv
PROOF
  <1> SUFFICES ASSUME SignalsInit PROVE SignalsInv
    OBVIOUS
  <1>1. \A r \in Sends : send[r].at = "idle"
    BY DEF SignalsInit, NoSend
  <1>2. IsFiniteSet({}) /\ Cardinality({}) = 0
    BY FS_EmptySet
  <1>3. SignalsTyped
    <2>1. NoSend \in SendRows
      <3>1. NoSend.at = "idle" /\ NoSend.began = 0 /\ NoSend.id = 0 /\ NoSend.from \in From
        BY DEF NoSend, From
      <3>2. NoSend = [at |-> "idle", from |-> NoSend.from, began |-> 0, id |-> 0]
        BY DEF NoSend
      <3> QED
        BY <3>1, <3>2 DEF SendRows
    <2> QED
      BY <1>2, <2>1 DEF SignalsInit, SignalsTyped
  <1>4. IdsOnce /\ LockHeld /\ InTime /\ DroppedLate
    BY <1>1 DEF SignalsInit, IdsOnce, LockHeld, InTime, DroppedLate
  <1>5. RateHeld
    <2> SUFFICES ASSUME NEW p, NEW t
                 PROVE Cardinality({x \in signals : x.from = p /\ x.created \in (t - Minute + 1)..t}) <= MaxPerMinute
      BY DEF RateHeld
    <2>1. PICK W : W = {x \in signals : x.from = p /\ x.created \in (t - Minute + 1)..t}
      OBVIOUS
    <2>2. W = {}
      BY <2>1 DEF SignalsInit
    <2>3. Cardinality(W) = 0 /\ MaxPerMinute \in Nat
      BY <1>2, <2>2, SignalsAssumption
    <2>4. Cardinality(W) <= MaxPerMinute
      BY <2>3
    <2> QED
      BY <2>1, <2>4
  <1>6. OwnInOrder /\ SkippedForCause
    BY DEF SignalsInit, OwnInOrder, SkippedForCause
  <1> QED
    BY <1>3, <1>4, <1>5, <1>6 DEF SignalsInv, SignalsSound

\* What CountRecentGameSessionSignals counts for a send of p that began then.
Counts(p, began) == {x \in signals : x.id \notin dropped /\ x.from = p /\ x.created > began - Minute}

\* A step of one request that commits nothing.
LEMMA SendMoves ==
  ASSUME SignalsInv, NEW r \in Sends, NEW q \in SendRows, send' = [send EXCEPT ![r] = q],
         UNCHANGED <<second, signals, dropped, cursor, given>>, lastId' \in {lastId, lastId + 1},
         q.at \in {"waits", "inserted"} => q.began <= second /\ second <= q.began + RequestTime,
         q.at = "inserted" => /\ q.id = lastId + 1 /\ lastId' = lastId + 1
                              /\ \A s \in Sends : send[s].at = "inserted" => send[s].from # q.from
                              /\ Cardinality(Counts(q.from, q.began)) < MaxPerMinute
  PROVE  SignalsInv'
PROOF
  <1>0. /\ SignalsTyped /\ IdsOnce /\ LockHeld /\ InTime /\ DroppedLate /\ RateHeld /\ OwnInOrder /\ SkippedForCause
        /\ lastId \in Nat /\ \A x \in signals : x.id \in Nat /\ x.id <= lastId
    BY DEF SignalsInv, SignalsSound, SignalsTyped, IdsOnce
  <1>1. send'[r] = q /\ \A s \in Sends : s # r => send'[s] = send[s]
    BY <1>0 DEF SignalsTyped
  <1>2. SignalsTyped'
    BY <1>0 DEF SignalsTyped
  <1>3. IdsOnce'
    <2>1. ASSUME NEW x \in signals PROVE x.id \in 1..lastId'
      <3>1. x.id \in 1..lastId
        BY <1>0 DEF IdsOnce
      <3>2. CASE lastId' = lastId
        BY <3>1, <3>2
      <3>3. CASE lastId' = lastId + 1
        BY <1>0, <3>1, <3>3
      <3> QED
        BY <3>2, <3>3
    <2>2. ASSUME NEW s \in Sends, send'[s].at = "inserted"
          PROVE  /\ send'[s].id \in 1..lastId' /\ \A x \in signals : x.id # send'[s].id
                 /\ s # r => send'[s].id \in 1..lastId
      <3>1. CASE s = r
        <4>1. send'[s].id = lastId + 1 /\ lastId' = lastId + 1
          BY <1>1, <2>2, <3>1
        <4> QED
          BY <1>0, <3>1, <4>1
      <3>2. CASE s # r
        <4>1. send[s].at = "inserted" /\ send'[s].id = send[s].id
          BY <1>1, <2>2, <3>2
        <4>2. send[s].id \in 1..lastId /\ \A x \in signals : x.id # send[s].id
          BY <1>0, <4>1 DEF IdsOnce
        <4> QED
          BY <1>0, <4>1, <4>2
      <3> QED
        BY <3>1, <3>2
    <2>3. ASSUME NEW s \in Sends, NEW z \in Sends, send'[s].at = "inserted", send'[z].at = "inserted",
                 send'[s].id = send'[z].id
          PROVE  s = z
      <3>1. CASE s # r /\ z # r
        BY <1>0, <1>1, <2>3, <3>1 DEF IdsOnce
      <3>2. CASE s = r /\ z # r
        <4>1. send'[s].id = lastId + 1 /\ send'[z].id \in 1..lastId
          BY <1>1, <2>2, <2>3, <3>2
        <4> QED
          BY <1>0, <2>3, <4>1
      <3>3. CASE s # r /\ z = r
        <4>1. send'[z].id = lastId + 1 /\ send'[s].id \in 1..lastId
          BY <1>1, <2>2, <2>3, <3>3
        <4> QED
          BY <1>0, <2>3, <4>1
      <3> QED
        BY <3>1, <3>2, <3>3
    <2> QED
      BY <1>0, <2>1, <2>2, <2>3 DEF IdsOnce
  <1>4. LockHeld'
    <2>1. ASSUME NEW s \in Sends, send'[s].at = "inserted" PROVE Cardinality(Recent(s)') < MaxPerMinute
      <3>1. CASE s = r
        <4>1. Recent(s)' = Counts(q.from, q.began)
          BY <1>1, <3>1 DEF Recent, Counts
        <4> QED
          BY <1>1, <2>1, <3>1, <4>1
      <3>2. CASE s # r
        <4>1. Recent(s)' = Recent(s) /\ send[s].at = "inserted"
          BY <1>1, <2>1, <3>2 DEF Recent
        <4> QED
          BY <1>0, <4>1 DEF LockHeld
      <3> QED
        BY <3>1, <3>2
    <2>2. ASSUME NEW s \in Sends, NEW z \in Sends, send'[s].at = "inserted", send'[z].at = "inserted",
                 send'[s].from = send'[z].from
          PROVE  s = z
      BY <1>0, <1>1, <2>2 DEF LockHeld
    <2> QED
      BY <2>1, <2>2 DEF LockHeld
  <1>5. InTime'
    BY <1>0, <1>1 DEF InTime
  <1>6. DroppedLate' /\ RateHeld' /\ SkippedForCause'
    BY <1>0 DEF DroppedLate, RateHeld, SkippedForCause, Expired
  <1>7. OwnInOrder'
    <2> SUFFICES ASSUME NEW s \in Sends, NEW x \in signals, send'[s].at = "inserted", x.from = send'[s].from
                 PROVE  x.id < send'[s].id
      BY DEF OwnInOrder
    <2>1. CASE s = r
      <3>1. send'[s].id = lastId + 1
        BY <1>1, <2>1
      <3> QED
        BY <1>0, <3>1
    <2>2. CASE s # r
      BY <1>0, <1>1, <2>2 DEF OwnInOrder
    <2> QED
      BY <2>1, <2>2
  <1> QED
    BY <1>2, <1>3, <1>4, <1>5, <1>6, <1>7 DEF SignalsInv, SignalsSound

\* The commit of an insert: it was counted under the lock, and what the cursor passed
\* over in the meantime came from others.
LEMMA Committed ==
  ASSUME SignalsInv, NEW r \in Sends, EndSend(r, TRUE) PROVE SignalsInv'
PROOF
  <1>0. /\ SignalsTyped /\ IdsOnce /\ LockHeld /\ InTime /\ DroppedLate /\ RateHeld /\ OwnInOrder /\ SkippedForCause
        /\ lastId \in Nat /\ second \in Nat /\ cursor \in Nat
        /\ \A x \in signals : x.id \in Nat /\ x.id <= lastId /\ x.created \in Nat
    BY DEF SignalsInv, SignalsSound, SignalsTyped, IdsOnce, SignalRows
  <1>1. /\ send[r].at = "inserted" /\ send' = [send EXCEPT ![r] = Over]
        /\ signals' = signals \union {[id |-> send[r].id, from |-> send[r].from, created |-> send[r].began]}
        /\ UNCHANGED <<second, lastId, dropped, cursor, given>>
    BY DEF EndSend
  <1>2. PICK row : row = [id |-> send[r].id, from |-> send[r].from, created |-> send[r].began]
    OBVIOUS
  <1>3. send[r] \in SendRows
    BY <1>0 DEF SignalsTyped
  <1>4. /\ row \in SignalRows /\ row.id = send[r].id /\ row.from = send[r].from /\ row.created = send[r].began
        /\ row.created \in Nat /\ row.id \in Nat
    BY <1>2, <1>3 DEF SendRows, SignalRows
  <1>5. signals' = signals \union {row}
    BY <1>1, <1>2
  <1>6. row.id \in 1..lastId /\ (\A x \in signals : x.id # row.id) /\ row \notin signals
    BY <1>0, <1>1, <1>4 DEF IdsOnce
  <1>7. IsFiniteSet(signals) /\ IsFiniteSet(signals')
    BY <1>0, <1>5, FS_AddElement DEF SignalsTyped
  <1>8. Over \in SendRows /\ Over.at = "done"
    <2>1. NoSend.from \in From
      BY DEF From
    <2> QED
      BY <2>1 DEF Over, SendRows
  <1>9. send'[r] = Over /\ \A s \in Sends : s # r => send'[s] = send[s]
    BY <1>0, <1>1 DEF SignalsTyped
  <1>10. \A s \in Sends : send'[s].at \in {"waits", "inserted"} => s # r /\ send'[s] = send[s]
    BY <1>8, <1>9
  <1>11. SignalsTyped'
    BY <1>0, <1>1, <1>4, <1>5, <1>7, <1>8 DEF SignalsTyped
  <1>12. IdsOnce'
    <2>1. \A x \in signals' : x.id \in 1..lastId
      BY <1>0, <1>5, <1>6 DEF IdsOnce
    <2>2. \A x, y \in signals' : x.id = y.id => x = y
      BY <1>0, <1>5, <1>6 DEF IdsOnce
    <2>3. ASSUME NEW s \in Sends, send'[s].at = "inserted"
          PROVE  send'[s].id \in 1..lastId /\ \A x \in signals' : x.id # send'[s].id
      <3>1. s # r /\ send'[s] = send[s]
        BY <1>10, <2>3
      <3>2. send[s].id \in 1..lastId /\ (\A x \in signals : x.id # send[s].id) /\ send[s].id # send[r].id
        BY <1>0, <1>1, <2>3, <3>1 DEF IdsOnce
      <3> QED
        BY <1>4, <1>5, <3>1, <3>2
    <2>4. \A s, z \in Sends : send'[s].at = "inserted" /\ send'[z].at = "inserted" /\ send'[s].id = send'[z].id => s = z
      BY <1>0, <1>10 DEF IdsOnce
    <2>5. \A i \in dropped \union given : \E x \in signals' : x.id = i
      BY <1>0, <1>5 DEF IdsOnce
    <2> QED
      BY <1>0, <1>1, <2>1, <2>2, <2>3, <2>4, <2>5 DEF IdsOnce
  <1>13. LockHeld'
    <2>1. ASSUME NEW s \in Sends, send'[s].at = "inserted" PROVE Cardinality(Recent(s)') < MaxPerMinute
      <3>1. s # r /\ send'[s] = send[s]
        BY <1>10, <2>1
      <3>2. send[s].from # send[r].from
        BY <1>0, <1>1, <2>1, <3>1 DEF LockHeld
      <3>3. Recent(s)' = Recent(s)
        BY <1>1, <1>4, <1>5, <3>1, <3>2 DEF Recent
      <3> QED
        BY <1>0, <2>1, <3>1, <3>3 DEF LockHeld
    <2>2. \A s, z \in Sends : send'[s].at = "inserted" /\ send'[z].at = "inserted" /\ send'[s].from = send'[z].from => s = z
      BY <1>0, <1>10 DEF LockHeld
    <2> QED
      BY <2>1, <2>2 DEF LockHeld
  <1>14. InTime'
    BY <1>0, <1>1, <1>10 DEF InTime
  <1>15. row.id \notin dropped \union given
    BY <1>0, <1>6 DEF IdsOnce
  <1>16. DroppedLate'
    BY <1>0, <1>1, <1>5, <1>15 DEF DroppedLate, Expired
  <1>17. RateHeld'
    <2> SUFFICES ASSUME NEW p \in Senders, NEW t \in 0..LastSecond
                 PROVE Cardinality({x \in signals' : x.from = p /\ x.created \in (t - Minute + 1)..t}) <= MaxPerMinute
      BY DEF RateHeld
    <2>1. PICK W, V : /\ W = {x \in signals : x.from = p /\ x.created \in (t - Minute + 1)..t}
                      /\ V = {x \in signals' : x.from = p /\ x.created \in (t - Minute + 1)..t}
      OBVIOUS
    <2>2. Cardinality(W) <= MaxPerMinute
      BY <1>0, <2>1 DEF RateHeld
    <2>3. CASE row.from = p /\ row.created \in (t - Minute + 1)..t
      <3>1. V = W \union {row} /\ row \notin W
        BY <1>5, <1>6, <2>1, <2>3
      <3>2. W \subseteq Recent(r)
        <4> SUFFICES ASSUME NEW x \in W PROVE x \in Recent(r)
          OBVIOUS
        <4>1. x \in signals /\ x.from = send[r].from /\ x.created \in (t - Minute + 1)..t
          BY <1>4, <2>1, <2>3
        <4>2. {Minute, RequestTime, Expiry, LastSecond} \subseteq Nat /\ Minute + RequestTime <= Expiry
          BY SignalsAssumption
        <4>3. t \in Nat /\ x.created \in Nat /\ send[r].began \in Nat
          BY <1>0, <1>4, <4>1, <4>2
        <4>4. x.created > send[r].began - Minute
          BY <1>4, <2>3, <4>1, <4>2, <4>3
        <4>5. second <= send[r].began + RequestTime
          BY <1>0, <1>1 DEF InTime
        <4>6. ~Expired(x)
          BY <1>0, <4>2, <4>3, <4>4, <4>5 DEF Expired
        <4>7. x.id \notin dropped
          BY <1>0, <4>1, <4>6 DEF DroppedLate
        <4> QED
          BY <4>1, <4>4, <4>7 DEF Recent
      <3>3. IsFiniteSet(Recent(r))
        <4>1. Recent(r) \subseteq signals
          BY DEF Recent
        <4> QED
          BY <1>7, <4>1, FS_Subset
      <3>4. IsFiniteSet(W) /\ Cardinality(W) <= Cardinality(Recent(r))
        BY <3>2, <3>3, FS_Subset
      <3>5. Cardinality(Recent(r)) < MaxPerMinute
        BY <1>0, <1>1 DEF LockHeld
      <3>6. Cardinality(V) = Cardinality(W) + 1 /\ Cardinality(W) \in Nat /\ Cardinality(Recent(r)) \in Nat
        BY <3>1, <3>3, <3>4, FS_AddElement, FS_CardinalityType
      <3>7. MaxPerMinute \in Nat
        BY SignalsAssumption
      <3>8. Cardinality(V) <= MaxPerMinute
        BY <3>4, <3>5, <3>6, <3>7
      <3> QED
        BY <2>1, <3>8
    <2>4. CASE ~(row.from = p /\ row.created \in (t - Minute + 1)..t)
      <3>1. V = W
        BY <1>5, <2>1, <2>4
      <3> QED
        BY <2>1, <2>2, <3>1
    <2> QED
      BY <2>3, <2>4
  <1>18. OwnInOrder'
    <2> SUFFICES ASSUME NEW s \in Sends, NEW x \in signals', send'[s].at = "inserted", x.from = send'[s].from
                 PROVE  x.id < send'[s].id
      BY DEF OwnInOrder
    <2>1. s # r /\ send'[s] = send[s]
      BY <1>10
    <2>2. x # row
      BY <1>0, <1>1, <1>4, <2>1 DEF LockHeld
    <2> QED
      BY <1>0, <1>5, <2>1, <2>2 DEF OwnInOrder
  <1>19. SkippedForCause'
    <2> SUFFICES ASSUME NEW x \in signals', x.id <= cursor, x.id \notin given
                 PROVE  Expired(x)' \/ \E y \in signals' : y.id \in given /\ y.id > x.id /\ y.from # x.from
      BY <1>1 DEF SkippedForCause
    <2>1. CASE x \in signals
      BY <1>0, <1>1, <1>5, <2>1 DEF SkippedForCause, Expired
    <2>2. CASE x = row
      <3>1. cursor # 0 /\ cursor \in given
        BY <1>0, <1>6, <2>2 DEF IdsOnce
      <3>2. PICK y \in signals : y.id = cursor
        BY <1>0, <3>1 DEF IdsOnce
      <3>3. y.id > x.id
        BY <1>0, <1>4, <1>6, <2>2, <3>2
      <3>4. y.from # x.from
        <4>1. SUFFICES ASSUME y.from = x.from PROVE FALSE
          OBVIOUS
        <4>2. y.id < send[r].id
          BY <1>0, <1>1, <1>4, <2>2, <4>1 DEF OwnInOrder
        <4> QED
          BY <1>0, <1>4, <2>2, <3>2, <3>3, <4>2
      <3> QED
        BY <1>5, <3>1, <3>2, <3>3, <3>4
    <2> QED
      BY <1>5, <2>1, <2>2
  <1> QED
    BY <1>11, <1>12, <1>13, <1>14, <1>16, <1>17, <1>18, <1>19 DEF SignalsInv, SignalsSound

\* A page is the lowest ids above the cursor: none of them is passed over.
LEMMA Polled == ASSUME SignalsInv, Poll PROVE SignalsInv'
PROOF
  <1>0. /\ SignalsTyped /\ IdsOnce /\ LockHeld /\ InTime /\ DroppedLate /\ RateHeld /\ OwnInOrder /\ SkippedForCause
        /\ lastId \in Nat /\ second \in Nat /\ cursor \in Nat
        /\ \A x \in signals : x.id \in 1..lastId
    BY DEF SignalsInv, SignalsSound, SignalsTyped, IdsOnce
  <1>1. PICK page : /\ page = {i \in Unseen : Cardinality({j \in Unseen : j < i}) < Page} /\ page # {}
                    /\ given' = given \union page /\ cursor' = Max(page)
                    /\ UNCHANGED <<second, lastId, send, signals, dropped>>
    BY DEF Poll
  <1>2. /\ Unseen \subseteq 1..lastId /\ page \subseteq Unseen
        /\ \A i \in Unseen : i > cursor /\ \E x \in signals : x.id = i
    BY <1>0, <1>1 DEF Unseen
  <1>3. IsFiniteSet(Unseen)
    <2>1. IsFiniteSet(1..lastId)
      BY <1>0, FS_Interval
    <2> QED
      BY <1>2, <2>1, FS_Subset
  <1>4. Max(page) \in page /\ \A i \in page : i <= Max(page)
    BY <1>0, <1>1, <1>2, MaxOf
  <1>11. \A i \in Unseen : i \in Nat /\ i > cursor
    BY <1>0, <1>2
  <1>5. ASSUME NEW i \in Unseen, i <= Max(page) PROVE i \in page
    <2>1. PICK m : m = Max(page)
      OBVIOUS
    <2>2. m \in Unseen /\ i \in Nat /\ m \in Nat /\ i <= m
      <3>1. m \in Unseen
        BY <1>2, <1>4, <2>1
      <3> QED
        BY <1>5, <1>11, <2>1, <3>1
    <2>3. PICK A, B : A = {j \in Unseen : j < i} /\ B = {j \in Unseen : j < m}
      OBVIOUS
    <2>4. A \subseteq B /\ B \subseteq Unseen
      <3>1. ASSUME NEW j \in Unseen, j < i PROVE j < m
        BY <1>11, <2>2, <3>1
      <3> QED
        BY <2>3, <3>1
    <2>5. IsFiniteSet(B)
      BY <1>3, <2>4, FS_Subset
    <2>6. IsFiniteSet(A) /\ Cardinality(A) <= Cardinality(B)
      BY <2>4, <2>5, FS_Subset
    <2>7. Cardinality(B) < Page
      BY <1>1, <1>4, <2>1, <2>3
    <2>8. Cardinality(A) \in Nat /\ Cardinality(B) \in Nat /\ Page \in Nat
      BY <2>5, <2>6, FS_CardinalityType, SignalsAssumption
    <2>9. Cardinality(A) < Page
      BY <2>6, <2>7, <2>8
    <2> QED
      BY <1>1, <2>3, <2>9
  <1>6. cursor' \in Nat /\ cursor' \in given' /\ cursor < cursor'
    <2>1. Max(page) \in Unseen /\ Max(page) \in page
      BY <1>2, <1>4
    <2>2. Max(page) \in Nat /\ Max(page) > cursor
      BY <1>11, <2>1
    <2> QED
      BY <1>0, <1>1, <2>1, <2>2
  <1>7. SignalsTyped'
    BY <1>0, <1>1, <1>6 DEF SignalsTyped
  <1>8. IdsOnce'
    <2>1. \A i \in dropped \union given' : \E x \in signals : x.id = i
      BY <1>0, <1>1, <1>2 DEF IdsOnce
    <2> QED
      BY <1>0, <1>1, <1>6, <2>1 DEF IdsOnce
  <1>9. LockHeld' /\ InTime' /\ DroppedLate' /\ RateHeld' /\ OwnInOrder'
    BY <1>0, <1>1 DEF LockHeld, Recent, InTime, DroppedLate, RateHeld, OwnInOrder, Expired
  <1>10. SkippedForCause'
    <2> SUFFICES ASSUME NEW x \in signals, x.id <= cursor', x.id \notin given'
                 PROVE  Expired(x) \/ \E y \in signals : y.id \in given' /\ y.id > x.id /\ y.from # x.from
      BY <1>1 DEF SkippedForCause, Expired
    <2>1. CASE x.id <= cursor
      BY <1>0, <1>1, <2>1 DEF SkippedForCause
    <2>2. CASE ~(x.id <= cursor)
      <3>1. x.id > cursor
        BY <1>0, <2>2
      <3>2. x.id \notin Unseen
        BY <1>1, <1>5
      <3>3. x.id \in dropped \/ Expired(x)
        BY <3>1, <3>2 DEF Unseen
      <3> QED
        BY <1>0, <3>3 DEF DroppedLate
    <2> QED
      BY <2>1, <2>2
  <1> QED
    BY <1>7, <1>8, <1>9, <1>10 DEF SignalsInv, SignalsSound

\* Sends, polls and the sweep, however they overlap, preserve the invariant.
LEMMA SignalsStep == SignalsInv /\ [SignalsNext]_sgVars => SignalsInv'
PROOF
  <1> SUFFICES ASSUME SignalsInv, [SignalsNext]_sgVars PROVE SignalsInv'
    OBVIOUS
  <1>0. /\ SignalsTyped /\ IdsOnce /\ LockHeld /\ InTime /\ DroppedLate /\ RateHeld /\ OwnInOrder /\ SkippedForCause
        /\ lastId \in Nat /\ second \in Nat /\ IsFiniteSet(signals)
        /\ {Minute, RequestTime, Expiry, MaxPerMinute} \subseteq Nat
        /\ \A x \in signals : x.created \in Nat
        /\ \A r \in Sends : send[r] \in SendRows /\ send[r].began \in Nat /\ send[r].id \in Nat /\ send[r].from \in From
    BY SignalsAssumption DEF SignalsInv, SignalsSound, SignalsTyped, SignalRows, SendRows
  <1>1. Over \in SendRows /\ Over.at = "done"
    <2>1. NoSend.from \in From
      BY DEF From
    <2> QED
      BY <2>1 DEF Over, SendRows
  <1>2. ASSUME NEW r \in Sends, NEW p \in Senders, BeginSend(r, p) PROVE SignalsInv'
    <2>1. PICK q : q = [at |-> "waits", from |-> p, began |-> second, id |-> 0]
      OBVIOUS
    <2>2. q \in SendRows /\ q.at = "waits" /\ q.began = second
      BY <1>0, <2>1 DEF SendRows, From
    <2>3. q.began <= second /\ second <= q.began + RequestTime
      BY <1>0, <2>2
    <2>4. send' = [send EXCEPT ![r] = q] /\ UNCHANGED <<second, signals, dropped, cursor, given>> /\ lastId' = lastId
      BY <1>2, <2>1 DEF BeginSend
    <2> QED
      BY <2>2, <2>3, <2>4, SendMoves
  <1>3. ASSUME NEW r \in Sends, InsertSignal(r) PROVE SignalsInv'
    <2>1. send[r].at = "waits" /\ RateLockFree(r) /\ UNCHANGED <<second, signals, dropped, cursor, given>>
      BY <1>3 DEF InsertSignal
    <2>2. CASE Cardinality(Recent(r)) >= MaxPerMinute
      <3>1. send' = [send EXCEPT ![r] = Over] /\ lastId' = lastId
        BY <1>3, <2>2 DEF InsertSignal
      <3> QED
        BY <1>1, <2>1, <3>1, SendMoves
    <2>3. CASE ~(Cardinality(Recent(r)) >= MaxPerMinute)
      <3>1. PICK q : q = [at |-> "inserted", from |-> send[r].from, began |-> send[r].began, id |-> lastId + 1]
        OBVIOUS
      <3>2. /\ q \in SendRows /\ q.at = "inserted" /\ q.began = send[r].began /\ q.from = send[r].from
            /\ q.id = lastId + 1
        BY <1>0, <3>1 DEF SendRows
      <3>3. send' = [send EXCEPT ![r] = q] /\ lastId' = lastId + 1
        BY <1>3, <2>3, <3>1 DEF InsertSignal
      <3>4. q.began <= second /\ second <= q.began + RequestTime
        BY <1>0, <2>1, <3>2 DEF InTime
      <3>5. \A s \in Sends : send[s].at = "inserted" => send[s].from # q.from
        BY <2>1, <3>2 DEF RateLockFree
      <3>6. Cardinality(Counts(q.from, q.began)) < MaxPerMinute
        <4>1. Counts(q.from, q.began) = Recent(r) /\ Recent(r) \subseteq signals
          BY <3>2 DEF Counts, Recent
        <4>2. Cardinality(Recent(r)) \in Nat /\ MaxPerMinute \in Nat
          BY <1>0, <4>1, FS_Subset, FS_CardinalityType
        <4>3. Cardinality(Recent(r)) < MaxPerMinute
          BY <2>3, <4>2
        <4> QED
          BY <4>1, <4>3
      <3> QED
        BY <2>1, <3>2, <3>3, <3>4, <3>5, <3>6, SendMoves
    <2> QED
      BY <2>2, <2>3
  <1>4. ASSUME NEW r \in Sends, NEW b \in BOOLEAN, EndSend(r, b) PROVE SignalsInv'
    <2>1. CASE b = TRUE
      BY <1>4, <2>1, Committed
    <2>2. CASE b = FALSE
      <3>1. send' = [send EXCEPT ![r] = Over] /\ UNCHANGED <<second, lastId, signals, dropped, cursor, given>>
        BY <1>4, <2>2 DEF EndSend
      <3> QED
        BY <1>1, <3>1, SendMoves
    <2> QED
      BY <2>1, <2>2
  <1>5. CASE DropExpired
    <2>1. /\ dropped' = dropped \union {x.id : x \in {y \in signals : Expired(y)}}
          /\ UNCHANGED <<second, lastId, send, signals, cursor, given>>
      BY <1>5 DEF DropExpired
    <2>2. IdsOnce'
      <3>1. \A i \in dropped' \union given : \E x \in signals : x.id = i
        BY <1>0, <2>1 DEF IdsOnce
      <3> QED
        BY <1>0, <2>1, <3>1 DEF IdsOnce
    <2>3. DroppedLate'
      BY <1>0, <2>1 DEF DroppedLate, IdsOnce, Expired
    <2>4. LockHeld'
      <3>1. ASSUME NEW s \in Sends, send[s].at = "inserted" PROVE Cardinality(Recent(s)') < MaxPerMinute
        <4>1. Recent(s)' \subseteq Recent(s) /\ Recent(s) \subseteq signals
          BY <2>1 DEF Recent
        <4>2. IsFiniteSet(Recent(s))
          BY <1>0, <4>1, FS_Subset
        <4>3. IsFiniteSet(Recent(s)') /\ Cardinality(Recent(s)') <= Cardinality(Recent(s))
          BY <4>1, <4>2, FS_Subset
        <4>4. Cardinality(Recent(s)') \in Nat /\ Cardinality(Recent(s)) \in Nat /\ MaxPerMinute \in Nat
          BY <1>0, <4>2, <4>3, FS_CardinalityType
        <4>5. Cardinality(Recent(s)) < MaxPerMinute
          BY <1>0, <3>1 DEF LockHeld
        <4> QED
          BY <4>3, <4>4, <4>5
      <3> QED
        BY <1>0, <2>1, <3>1 DEF LockHeld
    <2> QED
      BY <1>0, <2>1, <2>2, <2>3, <2>4
         DEF SignalsInv, SignalsSound, SignalsTyped, InTime, RateHeld, OwnInOrder, SkippedForCause, Expired
  <1>6. CASE SecondPasses
    <2>1. /\ second' = second + 1 /\ UNCHANGED <<lastId, send, signals, dropped, cursor, given>>
          /\ \A r \in Sends : send[r].at \in {"waits", "inserted"} => second - send[r].began < RequestTime
      BY <1>6 DEF SecondPasses
    <2>2. InTime'
      <3> SUFFICES ASSUME NEW r \in Sends, send[r].at \in {"waits", "inserted"}
                   PROVE  send[r].began <= second' /\ second' <= send[r].began + RequestTime
        BY <2>1 DEF InTime
      <3>1. send[r].began <= second /\ second - send[r].began < RequestTime
        BY <1>0, <2>1 DEF InTime
      <3> QED
        BY <1>0, <2>1, <3>1
    <2>3. \A x \in signals : Expired(x) => Expired(x)'
      BY <1>0, <2>1 DEF Expired
    <2>4. DroppedLate' /\ SkippedForCause'
      BY <1>0, <2>1, <2>3 DEF DroppedLate, SkippedForCause
    <2> QED
      BY <1>0, <2>1, <2>2, <2>4
         DEF SignalsInv, SignalsSound, SignalsTyped, IdsOnce, LockHeld, Recent, RateHeld, OwnInOrder
  <1>7. CASE UNCHANGED sgVars
    BY <1>0, <1>7
       DEF sgVars, SignalsInv, SignalsSound, SignalsTyped, IdsOnce, LockHeld, Recent, InTime, DroppedLate, RateHeld,
           OwnInOrder, SkippedForCause, Expired
  <1> QED
    BY <1>2, <1>3, <1>4, <1>5, <1>6, <1>7, Polled DEF SignalsNext

\* gameSessionSignalSend and gameSessionSignalPoll: for any rate, expiry and page size,
\* with signals kept longer than a minute and a request, overlapping sends never exceed
\* the rate, and a poll loses no signal to a later one of the same sender.
THEOREM SignalsHold == SignalsSpec => []SignalsSound
PROOF
  <1>1. SignalsInv => SignalsSound
    BY DEF SignalsInv
  <1> QED
    BY SignalsInitial, SignalsStep, <1>1, PTL DEF SignalsSpec

-----------------------------------------------------------------------------
(* SocketSweep *)

\* A socket and the sweep, by the fields of NoStream and NoSweep.
SocketStates == [at : {"closed", "admitted", "open"}, claim : Int, stale : BOOLEAN, verified : Nat, gap : Nat]
SweeperStates == [running : BOOLEAN, phase : Nat, due : BOOLEAN, conns : SUBSET Streams, todo : SUBSET Homes,
                  at : {"waits", "picks", "reads", "counts"}, tenant : Homes \union {NoSweep.tenant},
                  took : Nat, disabled : BOOLEAN, epochs : [Callers -> Int]]

\* What the proof needs of the types.
SweepTyped ==
  /\ epoch \in [Callers -> Nat]
  /\ stream \in [Streams -> SocketStates]
  /\ sweeper \in SweeperStates
  /\ void \in [Streams -> Nat]

\* How long a session can have been void, by where its socket is.  A socket that was
\* verified has been void for no longer than the sweep that verified it ran; one that
\* is to be given up waits for its heartbeat.
SocketSound(s) ==
  /\ stream[s].at = "closed" \/ ~IsVoid(s) => void[s] = 0
  /\ stream[s].at # "closed" => stream[s].claim <= epoch[CallerOf[s]]
  /\ stream[s].at = "admitted" => void[s] <= stream[s].gap /\ stream[s].gap <= AdmitTime
  /\ stream[s].at = "open" =>
       /\ stream[s].gap <= CheckGap
       /\ GivesUp(stream[s]) => void[s] <= SweepInterval + Grace + stream[s].gap
       /\ ~GivesUp(stream[s]) => void[s] <= SweepInterval + stream[s].verified

\* What a sweep has read so far was true when it began.
ReadSound(s) ==
  stream[s].at # "closed" /\ HomeFor(s) = sweeper.tenant /\ ~sweeper.disabled =>
    /\ sweeper.at = "reads" /\ epoch[CallerOf[s]] = stream[s].claim => void[s] <= sweeper.took
    /\ sweeper.at = "counts" /\ sweeper.epochs[CallerOf[s]] = stream[s].claim => void[s] <= sweeper.took

\* A sweep takes no longer than its timeout, and knows open sockets only.
SweeperSound ==
  /\ sweeper.took <= SweepInterval
  /\ sweeper.at # "waits" => sweeper.running
  /\ sweeper.conns \subseteq LiveSockets
  /\ SweepRuns

\* The inductive invariant.
SweepInv == SweepTyped /\ SweeperSound /\ \A s \in Streams : SocketSound(s) /\ ReadSound(s)

\* The constants as numbers.
LEMMA SweepNumbers ==
  /\ SweepInterval \in Nat /\ SweepInterval > 0 /\ Grace \in Nat /\ CheckGap \in Nat /\ AdmitTime \in Nat
  /\ AdmitTime <= SweepInterval /\ Reach = SweepInterval + Grace + CheckGap
  /\ \A s \in Streams : CallerOf[s] \in Callers
PROOF
  <1>1. SweepInterval \in Nat \ {0} /\ GraceIntervals \in Nat \ {0} /\ AdmitTime \in 0..SweepInterval
    BY SweepAssumption
  <1>2. Grace \in Nat /\ CheckGap \in Nat
    BY <1>1 DEF Grace, CheckGap
  <1>3. \A s \in Streams : CallerOf[s] \in Callers
    BY SweepAssumption
  <1> QED
    BY <1>1, <1>2, <1>3 DEF Reach

\* NoStream and NoSweep are states of a socket and of the sweep.
LEMMA SweepEmpty ==
  /\ NoStream \in SocketStates
  /\ NoSweep \in SweeperStates /\ NoSweep.at = "waits" /\ NoSweep.took = 0 /\ NoSweep.conns = {}
PROOF
  <1>1. TRUE \in BOOLEAN /\ FALSE \in BOOLEAN
    BY Zenon
  <1>2. NoStream \in SocketStates
    BY <1>1 DEF NoStream, SocketStates, None
  <1>3. PICK t : t = CHOOSE h \in Homes : TRUE
    OBVIOUS
  <1>4. NoSweep = [running |-> FALSE, phase |-> 0, due |-> FALSE, conns |-> {}, todo |-> {},
                   at |-> "waits", tenant |-> t, took |-> 0, disabled |-> FALSE, epochs |-> [c \in Callers |-> None]]
    BY <1>3 DEF NoSweep
  <1>5. NoSweep.tenant = t /\ NoSweep.at = "waits" /\ NoSweep.took = 0 /\ NoSweep.conns = {}
    BY <1>4
  <1>6. NoSweep \in SweeperStates
    BY <1>1, <1>4, <1>5 DEF SweeperStates, None
  <1> QED
    BY <1>2, <1>5, <1>6

\* A process that has served no socket yet.
LEMMA SweepInitial == SweepInit => SweepInv
PROOF
  <1> SUFFICES ASSUME SweepInit PROVE SweepInv
    OBVIOUS
  <1>1. SweepTyped
    BY SweepEmpty DEF SweepInit, SweepTyped
  <1>2. \A s \in Streams : stream[s].at = "closed" /\ void[s] = 0
    BY DEF SweepInit, NoStream
  <1>3. LiveSockets = {}
    BY <1>2 DEF LiveSockets
  <1>4. SweeperSound
    BY <1>3, SweepEmpty, SweepNumbers DEF SweepInit, SweeperSound, SweepRuns
  <1>5. \A s \in Streams : SocketSound(s) /\ ReadSound(s)
    BY <1>2 DEF SocketSound, ReadSound
  <1> QED
    BY <1>1, <1>4, <1>5 DEF SweepInv

\* The fields of a socket after a verdict.
LEMMA VerdictFields ==
  ASSUME NEW st \in SocketStates, NEW r, r = [st EXCEPT !.stale = TRUE, !.verified = 0]
  PROVE  r \in SocketStates /\ r.at = st.at /\ r.claim = st.claim /\ r.gap = st.gap /\ r.stale
PROOF
  <1>1. r \in SocketStates
    BY DEF SocketStates
  <1>2. r.at = st.at /\ r.claim = st.claim /\ r.gap = st.gap
    BY DEF SocketStates
  <1>3. r.stale
    BY DEF SocketStates
  <1> QED
    BY <1>1, <1>2, <1>3

\* The fields of the sweep after a tenant.
LEMMA SweptFields ==
  ASSUME NEW sw \in SweeperStates, NEW at \in {"waits", "picks"}, NEW n \in Homes \union {NoSweep.tenant},
         NEW e \in [Callers -> Int], NEW r,
         r = [sw EXCEPT !.at = at, !.took = 0, !.tenant = n, !.disabled = FALSE, !.epochs = e]
  PROVE  r \in SweeperStates /\ r.at = at /\ r.took = 0 /\ r.running = sw.running /\ r.conns = sw.conns
PROOF
  <1>1. r \in SweeperStates
    BY DEF SweeperStates
  <1>2. r.at = at /\ r.took = 0 /\ r.running = sw.running /\ r.conns = sw.conns
    BY DEF SweeperStates
  <1> QED
    BY <1>1, <1>2

\* What the invariant says of one socket, its fields named.
LEMMA SocketFields ==
  ASSUME SweepInv, NEW s \in Streams
  PROVE  /\ stream[s] \in SocketStates /\ stream[s].claim \in Int /\ stream[s].verified \in Nat /\ stream[s].gap \in Nat
         /\ stream[s].stale \in BOOLEAN /\ stream[s].at \in {"closed", "admitted", "open"}
         /\ void[s] \in Nat /\ epoch[CallerOf[s]] \in Nat /\ CallerOf[s] \in Callers
         /\ SocketSound(s) /\ ReadSound(s)
PROOF
  BY SweepNumbers DEF SweepInv, SweepTyped, SocketStates

\* playerToggleBan and the like: the epoch moves.
LEMMA RevokeStep == ASSUME SweepInv, NEW c \in Callers, RevokeSessions(c) PROVE SweepInv'
PROOF
  <1>1. epoch' = [epoch EXCEPT ![c] = epoch[c] + 1] /\ UNCHANGED <<disabled, stream, sweeper, void, spoilt>>
    BY DEF RevokeSessions
  <1>2. /\ epoch' \in [Callers -> Nat] /\ epoch'[c] = epoch[c] + 1
        /\ \A d \in Callers \ {c} : epoch'[d] = epoch[d]
    BY <1>1 DEF SweepInv, SweepTyped
  <1>3. SweepTyped' /\ SweeperSound'
    BY <1>1, <1>2 DEF SweepInv, SweepTyped, SweeperSound, SweepRuns, LiveSockets
  <1>4. ASSUME NEW s \in Streams PROVE SocketSound(s)' /\ ReadSound(s)'
    <2>1. /\ stream[s].claim \in Int /\ CallerOf[s] \in Callers /\ epoch[CallerOf[s]] \in Nat
          /\ SocketSound(s) /\ ReadSound(s)
      BY SocketFields
    <2>2. epoch'[CallerOf[s]] = epoch[CallerOf[s]] \/ epoch'[CallerOf[s]] = epoch[CallerOf[s]] + 1
      BY <1>2, <2>1
    <2>3. stream[s].at # "closed" => /\ stream[s].claim <= epoch'[CallerOf[s]]
                                     /\ epoch'[CallerOf[s]] = stream[s].claim => epoch[CallerOf[s]] = stream[s].claim
      BY <2>1, <2>2 DEF SocketSound
    <2>4. stream[s].at # "closed" /\ ~IsVoid(s)' => ~IsVoid(s)
      BY <1>1, <2>3 DEF IsVoid
    <2>5. SocketSound(s)'
      BY <1>1, <2>1, <2>3, <2>4 DEF SocketSound
    <2>6. ReadSound(s)'
      BY <1>1, <2>1, <2>3 DEF ReadSound
    <2> QED
      BY <2>5, <2>6
  <1> QED
    BY <1>3, <1>4 DEF SweepInv

\* A tenant is disabled, or enabled again, which forgives its valid sessions.
LEMMA DisableStep == ASSUME SweepInv, NEW t \in Homes, DisableTenant(t) PROVE SweepInv'
PROOF
  <1>1. disabled' = disabled \union {t} /\ UNCHANGED <<epoch, stream, sweeper, void, spoilt>>
    BY DEF DisableTenant
  <1>2. SweepTyped' /\ SweeperSound'
    BY <1>1 DEF SweepInv, SweepTyped, SweeperSound, SweepRuns, LiveSockets
  <1>3. ASSUME NEW s \in Streams PROVE SocketSound(s)' /\ ReadSound(s)'
    <2>1. SocketSound(s) /\ ReadSound(s)
      BY SocketFields
    <2>2. ~IsVoid(s)' => ~IsVoid(s)
      BY <1>1 DEF IsVoid
    <2> QED
      BY <1>1, <2>1, <2>2 DEF SocketSound, ReadSound
  <1> QED
    BY <1>2, <1>3 DEF SweepInv

\* The tenant is enabled again.
LEMMA EnableStep == ASSUME SweepInv, NEW t \in Homes, EnableTenant(t) PROVE SweepInv'
PROOF
  <1>1. /\ disabled' = disabled \ {t} /\ UNCHANGED <<epoch, stream, sweeper, spoilt>>
        /\ void' = [s \in Streams |-> IF HomeFor(s) = t /\ epoch[CallerOf[s]] = stream[s].claim THEN 0 ELSE void[s]]
    BY DEF EnableTenant
  <1>2. SweepTyped' /\ SweeperSound'
    BY <1>1 DEF SweepInv, SweepTyped, SweeperSound, SweepRuns, LiveSockets
  <1>3. ASSUME NEW s \in Streams PROVE SocketSound(s)' /\ ReadSound(s)'
    <2>1. SocketSound(s) /\ ReadSound(s) /\ void[s] \in Nat /\ stream[s].gap \in Nat /\ stream[s].verified \in Nat
      BY SocketFields
    <2>2. void'[s] = 0 \/ void'[s] = void[s]
      BY <1>1
    <2>3. ~IsVoid(s)' => void'[s] = 0 \/ ~IsVoid(s)
      BY <1>1 DEF IsVoid
    <2>4. CASE void'[s] = void[s]
      BY <1>1, <2>1, <2>3, <2>4 DEF SocketSound, ReadSound
    <2>5. CASE void'[s] = 0
      <3>1. 0 <= sweeper.took /\ 0 <= stream[s].gap /\ 0 <= SweepInterval + Grace + stream[s].gap
            /\ 0 <= SweepInterval + stream[s].verified
        BY <2>1, SweepNumbers DEF SweepInv, SweepTyped, SweeperStates
      <3> QED
        BY <1>1, <2>1, <2>5, <3>1 DEF SocketSound, ReadSound
    <2> QED
      BY <2>2, <2>4, <2>5
  <1> QED
    BY <1>2, <1>3 DEF SweepInv

\* The sweep has still read what it had read, or rests.
SameReading ==
  \/ sweeper'.at = "waits"
  \/ /\ sweeper'.at = sweeper.at /\ sweeper'.tenant = sweeper.tenant /\ sweeper'.took = sweeper.took
     /\ sweeper'.disabled = sweeper.disabled /\ sweeper'.epochs = sweeper.epochs

\* A step of one socket needs to be looked at only for that socket.
LEMMA OneSocket ==
  ASSUME SweepInv, NEW s \in Streams, UNCHANGED <<disabled, epoch>>, SweepTyped', SweeperSound', SameReading,
         \A r \in Streams \ {s} : stream'[r] = stream[r] /\ void'[r] = void[r],
         SocketSound(s)', ReadSound(s)'
  PROVE  SweepInv'
PROOF
  <1>1. ASSUME NEW r \in Streams \ {s} PROVE SocketSound(r)' /\ ReadSound(r)'
    <2>1. SocketSound(r) /\ ReadSound(r) /\ stream'[r] = stream[r] /\ void'[r] = void[r]
      BY SocketFields
    <2>2. IsVoid(r)' <=> IsVoid(r)
      BY <2>1 DEF IsVoid
    <2>3. SocketSound(r)'
      BY <2>1, <2>2 DEF SocketSound
    <2>4. ReadSound(r)'
      BY <2>1 DEF ReadSound, SameReading
    <2> QED
      BY <2>3, <2>4
  <1> QED
    BY <1>1 DEF SweepInv

\* tenant.Admit and playerauth.Admit
LEMMA AdmitStep == ASSUME SweepInv, NEW s \in Streams, Admit(s) PROVE SweepInv'
PROOF
  <1>1. PICK claim \in 0..LastEpoch :
          /\ Admits(CallerOf[s], claim)
          /\ stream' = [stream EXCEPT ![s] = [at |-> "admitted", claim |-> claim, stale |-> FALSE,
                                             verified |-> 0, gap |-> 0]]
    BY DEF Admit
  <1>2. stream[s].at = "closed" /\ UNCHANGED <<disabled, epoch, sweeper, void, spoilt>>
    BY DEF Admit
  <1>3. PICK st : st = [at |-> "admitted", claim |-> claim, stale |-> FALSE, verified |-> 0, gap |-> 0]
    OBVIOUS
  <1>4. st \in SocketStates /\ st.at = "admitted" /\ st.claim = claim /\ st.gap = 0
    <2>1. FALSE \in BOOLEAN
      BY Zenon
    <2>2. LastEpoch \in Nat /\ claim \in Int
      BY SweepAssumption
    <2> QED
      BY <1>3, <2>1, <2>2 DEF SocketStates
  <1>5. stream' \in [Streams -> SocketStates] /\ stream'[s] = st /\ \A r \in Streams \ {s} : stream'[r] = stream[r]
    BY <1>1, <1>3, <1>4 DEF SweepInv, SweepTyped
  <1>6. SweepTyped'
    BY <1>2, <1>5 DEF SweepInv, SweepTyped
  <1>7. LiveSockets' = LiveSockets
    BY <1>2, <1>4, <1>5 DEF LiveSockets
  <1>8. SweeperSound'
    BY <1>2, <1>7 DEF SweepInv, SweeperSound, SweepRuns
  <1>9. void'[s] = 0 /\ epoch'[CallerOf[s]] = claim /\ epoch[CallerOf[s]] \in Nat
    BY <1>1, <1>2, SocketFields DEF SocketSound, Admits
  <1>10. SocketSound(s)'
    BY <1>4, <1>5, <1>9, SweepNumbers DEF SocketSound
  <1>11. ReadSound(s)'
    BY <1>2, <1>9 DEF ReadSound, SweepInv, SweepTyped, SweeperStates
  <1> QED
    BY <1>2, <1>5, <1>6, <1>8, <1>10, <1>11, OneSocket DEF SameReading

\* register
LEMMA RegisterStep == ASSUME SweepInv, NEW s \in Streams, RegisterSocket(s) PROVE SweepInv'
PROOF
  <1>1. PICK st : st = [stream[s] EXCEPT !.at = "open", !.verified = 0, !.gap = 0]
    OBVIOUS
  <1>2. /\ stream[s].at = "admitted" /\ stream' = [stream EXCEPT ![s] = st] /\ UNCHANGED <<disabled, epoch, void, spoilt>>
        /\ sweeper' = IF sweeper.running THEN sweeper ELSE [NoSweep EXCEPT !.running = TRUE]
    BY <1>1 DEF RegisterSocket
  <1>3. /\ stream[s] \in SocketStates /\ stream[s].gap \in Nat /\ void[s] \in Nat /\ SocketSound(s) /\ ReadSound(s)
    BY SocketFields
  <1>4. /\ st \in SocketStates /\ st.at = "open" /\ st.verified = 0 /\ st.gap = 0
        /\ st.claim = stream[s].claim /\ st.stale = stream[s].stale
    BY <1>1, <1>3 DEF SocketStates
  <1>5. stream' \in [Streams -> SocketStates] /\ stream'[s] = st /\ \A r \in Streams \ {s} : stream'[r] = stream[r]
    BY <1>2, <1>4 DEF SweepInv, SweepTyped
  <1>6. sweeper.running => sweeper' = sweeper
    BY <1>2
  <1>7. ~sweeper.running => /\ sweeper' \in SweeperStates /\ sweeper'.running /\ sweeper'.at = "waits"
                            /\ sweeper'.took = 0 /\ sweeper'.conns = {}
    <2> SUFFICES ASSUME ~sweeper.running
                 PROVE  /\ sweeper' \in SweeperStates /\ sweeper'.running /\ sweeper'.at = "waits"
                        /\ sweeper'.took = 0 /\ sweeper'.conns = {}
      OBVIOUS
    <2>1. sweeper' = [NoSweep EXCEPT !.running = TRUE] /\ TRUE \in BOOLEAN
      BY <1>2, Zenon
    <2>2. PICK ns \in SweeperStates : ns = NoSweep
      BY SweepEmpty
    <2>3. sweeper' = [ns EXCEPT !.running = TRUE]
      BY <2>1, <2>2
    <2>4. ns.at = "waits" /\ ns.took = 0 /\ ns.conns = {}
      BY <2>2, SweepEmpty
    <2>5. sweeper' \in SweeperStates
      BY <2>1, <2>2, <2>3 DEF SweeperStates
    <2> QED
      BY <2>2, <2>3, <2>4, <2>5 DEF SweeperStates
  <1>8. SweepTyped'
    BY <1>2, <1>5, <1>6, <1>7 DEF SweepInv, SweepTyped
  <1>9. LiveSockets' = LiveSockets \union {s}
    BY <1>4, <1>5 DEF LiveSockets
  <1>10. SweeperSound'
    BY <1>6, <1>7, <1>9, SweepNumbers DEF SweepInv, SweeperSound, SweepRuns
  <1>11. void'[s] = void[s] /\ void[s] <= SweepInterval
    BY <1>2, <1>3, SweepNumbers DEF SocketSound
  <1>12. IsVoid(s)' <=> IsVoid(s)
    BY <1>2, <1>4, <1>5 DEF IsVoid
  <1>13. SocketSound(s)'
    <2>1. void[s] <= SweepInterval + Grace + 0 /\ void[s] <= SweepInterval + 0 /\ 0 <= CheckGap
      BY <1>3, <1>11, SweepNumbers
    <2> QED
      BY <1>2, <1>3, <1>4, <1>5, <1>11, <1>12, <2>1 DEF SocketSound
  <1>14. ReadSound(s)'
    BY <1>2, <1>3, <1>4, <1>5, <1>6, <1>7 DEF ReadSound
  <1>15. SameReading
    BY <1>6, <1>7 DEF SameReading
  <1> QED
    BY <1>2, <1>5, <1>8, <1>10, <1>13, <1>14, <1>15, OneSocket

\* The socket ends, before or after it was registered.
LEMMA SocketIsOver ==
  ASSUME SweepInv, NEW s \in Streams, UNCHANGED <<disabled, epoch>>,
         stream' = [stream EXCEPT ![s] = NoStream], void' = [void EXCEPT ![s] = 0],
         sweeper' = [sweeper EXCEPT !.conns = sweeper.conns \ {s}] \/ (sweeper' = sweeper /\ stream[s].at = "admitted")
  PROVE  SweepInv'
PROOF
  <1>1. stream' \in [Streams -> SocketStates] /\ stream'[s] = NoStream /\ \A r \in Streams \ {s} : stream'[r] = stream[r]
    BY SweepEmpty DEF SweepInv, SweepTyped
  <1>2. void' \in [Streams -> Nat] /\ void'[s] = 0 /\ \A r \in Streams \ {s} : void'[r] = void[r]
    BY DEF SweepInv, SweepTyped
  <1>3. sweeper \in SweeperStates
    BY DEF SweepInv, SweepTyped
  <1>4. /\ sweeper' \in SweeperStates /\ sweeper'.conns \subseteq sweeper.conns \ {s}
        /\ sweeper'.at = sweeper.at /\ sweeper'.tenant = sweeper.tenant /\ sweeper'.took = sweeper.took
        /\ sweeper'.disabled = sweeper.disabled /\ sweeper'.epochs = sweeper.epochs
        /\ sweeper'.running = sweeper.running
    <2>1. CASE sweeper' = [sweeper EXCEPT !.conns = sweeper.conns \ {s}]
      BY <1>3, <2>1 DEF SweeperStates
    <2>2. CASE sweeper' = sweeper /\ stream[s].at = "admitted"
      BY <1>3, <2>2 DEF SweepInv, SweeperSound, LiveSockets
    <2> QED
      BY <2>1, <2>2
  <1>5. NoStream.at = "closed"
    BY DEF NoStream
  <1>6. LiveSockets' = LiveSockets \ {s}
    BY <1>1, <1>5 DEF LiveSockets
  <1>7. SweepTyped'
    BY <1>1, <1>2, <1>4 DEF SweepInv, SweepTyped
  <1>8. SweeperSound'
    BY <1>4, <1>6 DEF SweepInv, SweeperSound, SweepRuns
  <1>9. SocketSound(s)' /\ ReadSound(s)'
    BY <1>1, <1>2, <1>5 DEF SocketSound, ReadSound
  <1> QED
    BY <1>1, <1>2, <1>4, <1>7, <1>8, <1>9, OneSocket DEF SameReading

-----------------------------------------------------------------------------

\* A step of the sweep that leaves the sockets and the rows alone.
LEMMA SweepGoesOn ==
  ASSUME SweepInv, UNCHANGED <<disabled, epoch, stream, void>>, sweeper' \in SweeperStates, SweeperSound',
         \A s \in Streams : ReadSound(s)'
  PROVE  SweepInv'
PROOF
  <1>1. ASSUME NEW s \in Streams PROVE SocketSound(s)'
    <2>1. SocketSound(s)
      BY SocketFields
    <2>2. IsVoid(s)' <=> IsVoid(s)
      BY DEF IsVoid
    <2> QED
      BY <2>1, <2>2 DEF SocketSound
  <1>2. SweepTyped'
    BY DEF SweepInv, SweepTyped
  <1> QED
    BY <1>1, <1>2 DEF SweepInv

\* run: a tick
LEMMA TakeTickStep == ASSUME SweepInv, TakeTick PROVE SweepInv'
PROOF
  <1>1. /\ sweeper.running /\ UNCHANGED <<disabled, epoch, stream, void, spoilt>> /\ LiveSockets' = LiveSockets
        /\ sweeper' = IF LiveSockets = {} THEN NoSweep
                      ELSE [sweeper EXCEPT !.due = FALSE, !.at = "picks", !.conns = LiveSockets,
                                           !.todo = {HomeFor(s) : s \in LiveSockets}]
    BY DEF TakeTick, LiveSockets
  <1>2. CASE LiveSockets = {}
    <2>1. sweeper' = NoSweep
      BY <1>1, <1>2
    <2>2. SweeperSound'
      BY <1>1, <1>2, <2>1, SweepEmpty, SweepNumbers DEF SweeperSound, SweepRuns
    <2>3. \A s \in Streams : ReadSound(s)'
      BY <2>1, SweepEmpty DEF ReadSound
    <2> QED
      BY <1>1, <2>1, <2>2, <2>3, SweepEmpty, SweepGoesOn
  <1>3. CASE LiveSockets # {}
    <2>1. PICK todo : todo = {HomeFor(s) : s \in LiveSockets}
      OBVIOUS
    <2>2. todo \subseteq Homes /\ LiveSockets \subseteq Streams
      BY <2>1, SweepNumbers DEF LiveSockets, HomeFor, Homes
    <2>3. sweeper' = [sweeper EXCEPT !.due = FALSE, !.at = "picks", !.conns = LiveSockets, !.todo = todo]
      BY <1>1, <1>3, <2>1
    <2>4. sweeper \in SweeperStates /\ FALSE \in BOOLEAN
      BY Zenon DEF SweepInv, SweepTyped
    <2>5. /\ sweeper' \in SweeperStates /\ sweeper'.at = "picks" /\ sweeper'.conns = LiveSockets
          /\ sweeper'.took = sweeper.took /\ sweeper'.running = sweeper.running
      BY <2>2, <2>3, <2>4 DEF SweeperStates
    <2>6. SweeperSound'
      BY <1>1, <2>5 DEF SweepInv, SweeperSound, SweepRuns
    <2>7. \A s \in Streams : ReadSound(s)'
      BY <2>5 DEF ReadSound
    <2> QED
      BY <1>1, <2>5, <2>6, <2>7, SweepGoesOn
  <1> QED
    BY <1>2, <1>3

\* sweepTenant: the state of the tenant
LEMMA ReadTenantStep == ASSUME SweepInv, NEW t \in Homes, ReadTenant(t) PROVE SweepInv'
PROOF
  <1>0. (t \in disabled) \in BOOLEAN
    BY SMT
  <1>1. PICK d \in BOOLEAN : d = (t \in disabled)
    BY <1>0
  <1>2. PICK todo : todo = sweeper.todo \ {t}
    OBVIOUS
  <1>3. /\ sweeper.at = "picks" /\ UNCHANGED <<disabled, epoch, stream, void, spoilt>>
        /\ sweeper' = [sweeper EXCEPT !.at = "reads", !.todo = todo, !.tenant = t, !.took = 0, !.disabled = d]
    BY <1>1, <1>2 DEF ReadTenant
  <1>4. sweeper \in SweeperStates /\ todo \subseteq Homes
    BY <1>2 DEF SweepInv, SweepTyped, SweeperStates
  <1>5. /\ sweeper' \in SweeperStates /\ sweeper'.at = "reads" /\ sweeper'.tenant = t /\ sweeper'.took = 0
        /\ sweeper'.disabled = d /\ sweeper'.running = sweeper.running /\ sweeper'.conns = sweeper.conns
    BY <1>3, <1>4 DEF SweeperStates
  <1>6. SweeperSound'
    BY <1>3, <1>5, SweepNumbers DEF SweepInv, SweeperSound, SweepRuns, LiveSockets
  <1>7. ASSUME NEW s \in Streams PROVE ReadSound(s)'
    <2> SUFFICES ASSUME stream[s].at # "closed", HomeFor(s) = t, ~d, epoch[CallerOf[s]] = stream[s].claim
                 PROVE  void[s] <= 0
      BY <1>3, <1>5 DEF ReadSound
    <2>1. ~IsVoid(s)
      BY <1>1 DEF IsVoid
    <2> QED
      BY <2>1, SocketFields DEF SocketSound
  <1> QED
    BY <1>3, <1>5, <1>6, <1>7, SweepGoesOn

\* sweepTenant: the epochs of its players
LEMMA ReadEpochsStep == ASSUME SweepInv, ReadEpochs PROVE SweepInv'
PROOF
  <1>1. PICK e : e = [c \in Callers |-> IF HomeOf[c] = sweeper.tenant THEN epoch[c] ELSE None]
    OBVIOUS
  <1>2. /\ sweeper.at = "reads" /\ UNCHANGED <<disabled, epoch, stream, void, spoilt>>
        /\ sweeper' = [sweeper EXCEPT !.at = "counts", !.epochs = e]
    BY <1>1 DEF ReadEpochs
  <1>3. sweeper \in SweeperStates /\ e \in [Callers -> Int]
    BY <1>1 DEF SweepInv, SweepTyped, None
  <1>4. /\ sweeper' \in SweeperStates /\ sweeper'.at = "counts" /\ sweeper'.tenant = sweeper.tenant
        /\ sweeper'.took = sweeper.took /\ sweeper'.disabled = sweeper.disabled /\ sweeper'.epochs = e
        /\ sweeper'.running = sweeper.running /\ sweeper'.conns = sweeper.conns
    BY <1>2, <1>3 DEF SweeperStates
  <1>5. SweeperSound'
    BY <1>2, <1>4 DEF SweepInv, SweeperSound, SweepRuns, LiveSockets
  <1>6. ASSUME NEW s \in Streams PROVE ReadSound(s)'
    <2> SUFFICES ASSUME stream[s].at # "closed", HomeFor(s) = sweeper.tenant, ~sweeper.disabled,
                        e[CallerOf[s]] = stream[s].claim
                 PROVE  void[s] <= sweeper.took
      BY <1>2, <1>4 DEF ReadSound
    <2>1. CallerOf[s] \in Callers /\ ReadSound(s)
      BY SocketFields
    <2>2. e[CallerOf[s]] = epoch[CallerOf[s]]
      BY <1>1, <2>1 DEF HomeFor
    <2> QED
      BY <1>2, <2>1, <2>2 DEF ReadSound
  <1> QED
    BY <1>2, <1>4, <1>5, <1>6, SweepGoesOn

\* The sweep of a tenant is over.
LEMMA SweptRests ==
  ASSUME SweepInv, sweeper.at \in {"reads", "counts"}, sweeper' = Swept
  PROVE  /\ sweeper' \in SweeperStates /\ sweeper'.at \in {"waits", "picks"} /\ sweeper'.took = 0
         /\ sweeper'.running = sweeper.running /\ sweeper.running /\ sweeper'.conns = sweeper.conns
PROOF
  <1>1. PICK at : at = IF sweeper.todo = {} THEN "waits" ELSE "picks"
    OBVIOUS
  <1>2. PICK e : e = [c \in Callers |-> None]
    OBVIOUS
  <1>3. PICK n : n = NoSweep.tenant
    OBVIOUS
  <1>4. sweeper' = [sweeper EXCEPT !.at = at, !.took = 0, !.tenant = n, !.disabled = FALSE, !.epochs = e]
    BY <1>1, <1>2, <1>3 DEF Swept
  <1>5. sweeper \in SweeperStates /\ e \in [Callers -> Int] /\ FALSE \in BOOLEAN
    <2>1. e \in [Callers -> Int]
      BY <1>2 DEF None
    <2>2. FALSE \in BOOLEAN
      BY Zenon
    <2> QED
      BY <2>1, <2>2 DEF SweepInv, SweepTyped
  <1>6. sweeper' \in SweeperStates
    <2>1. at \in {"waits", "picks"} /\ n \in Homes \union {NoSweep.tenant}
      BY <1>1, <1>3
    <2>4. sweeper \in SweeperStates /\ e \in [Callers -> Int]
      BY <1>5
    <2>5. PICK sw \in SweeperStates : sw = sweeper
      BY <2>4
    <2>6. PICK r : r = sweeper'
      OBVIOUS
    <2>7. r = [sw EXCEPT !.at = at, !.took = 0, !.tenant = n, !.disabled = FALSE, !.epochs = e]
      BY <1>4, <2>5, <2>6
    <2>8. r \in SweeperStates
      BY <2>1, <2>4, <2>7, SweptFields, Zenon
    <2> QED
      BY <2>6, <2>8
  <1>7. sweeper.running
    BY DEF SweepInv, SweeperSound
  <1> QED
    BY <1>1, <1>4, <1>5, <1>6, <1>7 DEF SweeperStates

\* Nothing is marked.
LEMMA SweepFailsStep == ASSUME SweepInv, SweepFails PROVE SweepInv'
PROOF
  <1>1. sweeper.at \in {"reads", "counts"} /\ sweeper' = Swept /\ UNCHANGED <<disabled, epoch, stream, void>>
    BY DEF SweepFails
  <1>2. /\ sweeper' \in SweeperStates /\ sweeper'.at \in {"waits", "picks"} /\ sweeper'.took = 0
        /\ sweeper'.running = sweeper.running /\ sweeper.running /\ sweeper'.conns = sweeper.conns
    BY <1>1, SweptRests
  <1>3. SweeperSound'
    BY <1>1, <1>2, SweepNumbers DEF SweepInv, SweeperSound, SweepRuns, LiveSockets
  <1>4. \A s \in Streams : ReadSound(s)'
    BY <1>2 DEF ReadSound
  <1> QED
    BY <1>1, <1>2, <1>3, <1>4, SweepGoesOn

\* markStale and markVerified: a socket is verified only by a sweep that began before
\* its session was revoked, so not long ago.
LEMMA MarkStep == ASSUME SweepInv, Mark PROVE SweepInv'
PROOF
  <1>1. /\ sweeper.at = "counts" /\ sweeper' = Swept /\ UNCHANGED <<disabled, epoch, void>>
        /\ stream' = [s \in Streams |-> Marked(s)]
    BY DEF Mark
  <1>2. /\ sweeper' \in SweeperStates /\ sweeper'.at \in {"waits", "picks"} /\ sweeper'.took = 0
        /\ sweeper'.running = sweeper.running /\ sweeper.running /\ sweeper'.conns = sweeper.conns
    BY <1>1, SweptRests
  <1>3. ASSUME NEW s \in Streams
        PROVE  /\ stream'[s] \in SocketStates /\ stream'[s].at = stream[s].at
               /\ SocketSound(s)'
    <2>1. /\ stream[s] \in SocketStates /\ void[s] \in Nat /\ SocketSound(s) /\ ReadSound(s)
          /\ stream[s].gap \in Nat /\ stream[s].verified \in Nat
      BY SocketFields
    <2>2. stream'[s] = Marked(s) /\ void'[s] = void[s]
      BY <1>1
    <2>3. CASE stream'[s] = stream[s]
      <3>1. IsVoid(s)' <=> IsVoid(s)
        BY <1>1, <2>3 DEF IsVoid
      <3> QED
        BY <1>1, <2>1, <2>2, <2>3, <3>1 DEF SocketSound
    <2>4. ASSUME s \in SweptNow PROVE stream[s].at = "open" /\ HomeFor(s) = sweeper.tenant
      BY <2>4 DEF SweptNow, SweepInv, SweeperSound, LiveSockets
    <2>5. CASE /\ s \in SweptNow
               /\ stream'[s] = [stream[s] EXCEPT !.stale = TRUE, !.verified = 0]
      <3>2. /\ stream'[s] \in SocketStates /\ stream'[s].at = stream[s].at /\ stream'[s].claim = stream[s].claim
            /\ stream'[s].stale /\ stream'[s].gap = stream[s].gap
        BY <2>1, <2>5, VerdictFields
      <3>3. void[s] <= SweepInterval + Grace + stream[s].gap
        <4>1. CASE GivesUp(stream[s])
          BY <2>1, <2>4, <2>5, <4>1 DEF SocketSound
        <4>2. CASE ~GivesUp(stream[s])
          <5>1. void[s] <= SweepInterval + stream[s].verified
            BY <2>1, <2>4, <2>5, <4>2 DEF SocketSound
          <5>2. stream[s].verified <= Grace
            BY <2>1, <4>2, SweepNumbers DEF GivesUp
          <5> QED
            BY <5>1, <5>2, <2>1, SweepNumbers
        <4> QED
          BY <4>1, <4>2
      <3>4. GivesUp(stream'[s])
        BY <3>2 DEF GivesUp
      <3>5. IsVoid(s)' <=> IsVoid(s)
        BY <1>1, <3>2 DEF IsVoid
      <3> QED
        BY <1>1, <2>1, <2>2, <2>4, <2>5, <3>2, <3>3, <3>4, <3>5 DEF SocketSound
    <2>6. CASE /\ s \in SweptNow /\ ~sweeper.disabled /\ sweeper.epochs[CallerOf[s]] = stream[s].claim
               /\ ~stream[s].stale /\ stream'[s] = [stream[s] EXCEPT !.verified = 0]
      <3>1. /\ stream'[s] \in SocketStates /\ stream'[s].at = stream[s].at /\ stream'[s].claim = stream[s].claim
            /\ stream'[s].verified = 0 /\ stream'[s].gap = stream[s].gap /\ stream'[s].stale = stream[s].stale
        BY <2>1, <2>6 DEF SocketStates
      <3>2. void[s] <= sweeper.took /\ sweeper.took <= SweepInterval /\ sweeper.took \in Nat
        BY <1>1, <2>1, <2>4, <2>6 DEF ReadSound, SweepInv, SweeperSound, SweepTyped, SweeperStates
      <3>3. void[s] <= SweepInterval + 0
        BY <2>1, <3>2, SweepNumbers
      <3>4. ~GivesUp(stream'[s])
        BY <2>6, <3>1, SweepNumbers DEF GivesUp
      <3>5. IsVoid(s)' <=> IsVoid(s)
        BY <1>1, <3>1 DEF IsVoid
      <3> QED
        BY <1>1, <2>1, <2>2, <2>4, <2>6, <3>1, <3>3, <3>4, <3>5 DEF SocketSound
    <2> QED
      BY <2>1, <2>2, <2>3, <2>5, <2>6 DEF Marked
  <1>4. LiveSockets' = LiveSockets
    BY <1>3 DEF LiveSockets
  <1>5. SweepTyped'
    <2>1. stream' \in [Streams -> SocketStates]
      BY <1>1, <1>3
    <2> QED
      BY <1>1, <1>2, <2>1 DEF SweepInv, SweepTyped
  <1>6. SweeperSound'
    BY <1>2, <1>4, SweepNumbers DEF SweepInv, SweeperSound, SweepRuns
  <1>7. \A s \in Streams : ReadSound(s)'
    BY <1>2 DEF ReadSound
  <1> QED
    BY <1>3, <1>5, <1>6, <1>7 DEF SweepInv

-----------------------------------------------------------------------------

\* A tick on a socket: the clock of an open one runs until it is to be given up, and
\* then its heartbeat's.
LEMMA AgedFields ==
  ASSUME NEW st \in SocketStates
  PROVE  /\ StreamAged(st) \in SocketStates
         /\ StreamAged(st).at = st.at /\ StreamAged(st).claim = st.claim
         /\ st.at = "admitted" => StreamAged(st).gap = st.gap + 1
         /\ st.at = "open" /\ GivesUp(st) => GivesUp(StreamAged(st)) /\ StreamAged(st).gap = st.gap + 1
         /\ st.at = "open" /\ ~GivesUp(st) =>
              /\ st.verified <= Grace
              /\ \/ GivesUp(StreamAged(st)) /\ StreamAged(st).gap = st.gap + 1
                 \/ ~GivesUp(StreamAged(st)) /\ StreamAged(st).gap = 0 /\ StreamAged(st).verified = st.verified + 1
PROOF
  <1>1. /\ st.at \in {"closed", "admitted", "open"} /\ st.gap \in Nat /\ st.verified \in Nat /\ st.stale \in BOOLEAN
        /\ Grace \in Nat
    BY SweepNumbers DEF SocketStates
  <1>2. CASE st.at = "closed"
    BY <1>2 DEF StreamAged
  <1>3. CASE st.at = "admitted"
    <2>1. StreamAged(st) = [st EXCEPT !.gap = st.gap + 1]
      BY <1>3 DEF StreamAged
    <2>2. StreamAged(st) \in SocketStates
      BY <1>1, <2>1 DEF SocketStates
    <2> QED
      BY <1>1, <1>3, <2>1, <2>2 DEF SocketStates
  <1>4. CASE st.at = "open"
    <2>1. PICK n : n = IF st.stale THEN st.verified ELSE st.verified + 1
      OBVIOUS
    <2>2. n \in Nat
      BY <1>1, <2>1
    <2>3. PICK older : older = [st EXCEPT !.verified = n]
      OBVIOUS
    <2>4. /\ older \in SocketStates /\ older.verified = n /\ older.at = st.at /\ older.claim = st.claim
          /\ older.stale = st.stale /\ older.gap = st.gap
      BY <2>2, <2>3 DEF SocketStates
    <2>5. PICK g : g = IF GivesUp(older) THEN st.gap + 1 ELSE 0
      OBVIOUS
    <2>6. StreamAged(st) = [older EXCEPT !.gap = g]
      BY <1>4, <2>1, <2>3, <2>5 DEF StreamAged
    <2>7. g \in Nat
      BY <1>1, <2>5
    <2>8. PICK ns : ns = StreamAged(st)
      OBVIOUS
    <2>9. /\ ns \in SocketStates /\ ns.verified = n /\ ns.at = st.at /\ ns.claim = st.claim
          /\ ns.stale = st.stale /\ ns.gap = g
      BY <2>4, <2>6, <2>7, <2>8 DEF SocketStates
    <2>10. GivesUp(ns) <=> GivesUp(older)
      BY <2>4, <2>9 DEF GivesUp
    <2>11. GivesUp(st) => GivesUp(ns) /\ g = st.gap + 1
      <3>1. st.verified <= n
        BY <1>1, <2>1
      <3>2. GivesUp(st) => GivesUp(ns)
        BY <1>1, <2>2, <2>9, <3>1 DEF GivesUp
      <3> QED
        BY <2>5, <2>10, <3>2
    <2>12. ~GivesUp(st) => st.verified <= Grace /\ n = st.verified + 1
      BY <1>1, <2>1 DEF GivesUp
    <2>13. GivesUp(ns) => g = st.gap + 1
      BY <2>5, <2>10
    <2>14. ~GivesUp(ns) => g = 0
      BY <2>5, <2>10
    <2> QED
      BY <1>4, <2>8, <2>9, <2>11, <2>12, <2>13, <2>14
  <1> QED
    BY <1>1, <1>2, <1>3, <1>4

\* A tick on the sweep: its time is taken only while it reads.
LEMMA SweeperAgedFields ==
  ASSUME SweepInv, sweeper' = SweeperAged, sweeper.took < SweepInterval
  PROVE  /\ sweeper' \in SweeperStates /\ sweeper'.running = sweeper.running /\ sweeper'.conns = sweeper.conns
         /\ sweeper'.at = sweeper.at /\ sweeper'.tenant = sweeper.tenant /\ sweeper'.disabled = sweeper.disabled
         /\ sweeper'.epochs = sweeper.epochs /\ sweeper'.took <= SweepInterval
         /\ sweeper.at \in {"reads", "counts"} => sweeper'.took = sweeper.took + 1
PROOF
  <1>1. sweeper \in SweeperStates /\ sweeper.took \in Nat /\ sweeper.phase \in Nat
    BY DEF SweepInv, SweepTyped, SweeperStates
  <1>2. CASE ~sweeper.running
    <2>1. sweeper' = sweeper
      BY <1>2 DEF SweeperAged
    <2>2. sweeper.at \notin {"reads", "counts"}
      BY <1>2 DEF SweepInv, SweeperSound
    <2> QED
      BY <1>1, <2>1, <2>2 DEF SweepInv, SweeperSound
  <1>3. CASE sweeper.running
    <2>1. PICK p : p = IF sweeper.phase + 1 = SweepInterval THEN 0 ELSE sweeper.phase + 1
      OBVIOUS
    <2>2. (sweeper.due \/ sweeper.phase + 1 = SweepInterval) \in BOOLEAN
      BY SMT
    <2>3. PICK d \in BOOLEAN : d = (sweeper.due \/ sweeper.phase + 1 = SweepInterval)
      BY <2>2
    <2>4. PICK k : k = IF sweeper.at \in {"reads", "counts"} THEN sweeper.took + 1 ELSE 0
      OBVIOUS
    <2>5. sweeper' = [sweeper EXCEPT !.phase = p, !.due = d, !.took = k]
      BY <1>3, <2>1, <2>3, <2>4 DEF SweeperAged
    <2>6. p \in Nat /\ k \in Nat /\ k <= SweepInterval
      BY <1>1, <2>1, <2>4, SweepNumbers
    <2>7. sweeper' \in SweeperStates
      BY <1>1, <2>5, <2>6 DEF SweeperStates
    <2>8. /\ sweeper'.running = sweeper.running /\ sweeper'.conns = sweeper.conns
          /\ sweeper'.at = sweeper.at /\ sweeper'.tenant = sweeper.tenant /\ sweeper'.disabled = sweeper.disabled
          /\ sweeper'.epochs = sweeper.epochs /\ sweeper'.took = k
      BY <1>1, <2>5 DEF SweeperStates
    <2> QED
      BY <2>4, <2>6, <2>7, <2>8
  <1> QED
    BY <1>2, <1>3

\* Time: a session is void for one tick more, and so has its clock, its sweep or its
\* heartbeat run for one tick more.
LEMMA SweepTickStep == ASSUME SweepInv, SweepTick PROVE SweepInv'
PROOF
  <1>1. /\ UNCHANGED <<disabled, epoch, spoilt>> /\ sweeper.took < SweepInterval /\ sweeper' = SweeperAged
        /\ stream' = [s \in Streams |-> StreamAged(stream[s])]
        /\ void' = [s \in Streams |-> IF stream[s].at = "closed" \/ ~IsVoid(s) THEN 0 ELSE void[s] + 1]
        /\ \A s \in Streams : stream[s].gap < CASE stream[s].at = "admitted" -> AdmitTime [] OTHER -> CheckGap
    BY DEF SweepTick
  <1>2. /\ sweeper' \in SweeperStates /\ sweeper'.running = sweeper.running /\ sweeper'.conns = sweeper.conns
        /\ sweeper'.at = sweeper.at /\ sweeper'.tenant = sweeper.tenant /\ sweeper'.disabled = sweeper.disabled
        /\ sweeper'.epochs = sweeper.epochs /\ sweeper'.took <= SweepInterval
        /\ sweeper.at \in {"reads", "counts"} => sweeper'.took = sweeper.took + 1
    BY <1>1, SweeperAgedFields
  <1>3. ASSUME NEW s \in Streams
        PROVE  /\ stream'[s] \in SocketStates /\ stream'[s].at = stream[s].at /\ void'[s] \in Nat
               /\ SocketSound(s)' /\ ReadSound(s)'
    <2>1. /\ stream[s] \in SocketStates /\ void[s] \in Nat /\ stream[s].gap \in Nat /\ stream[s].verified \in Nat
          /\ SocketSound(s) /\ ReadSound(s) /\ stream[s].at \in {"closed", "admitted", "open"}
      BY SocketFields
    <2>2. PICK st \in SocketStates : st = stream[s]
      BY <2>1
    <2>3. PICK ns : ns = StreamAged(st)
      OBVIOUS
    <2>4. stream'[s] = ns
      BY <1>1, <2>2, <2>3
    <2>5. /\ ns \in SocketStates /\ ns.at = st.at /\ ns.claim = st.claim
          /\ st.at = "admitted" => ns.gap = st.gap + 1
          /\ st.at = "open" /\ GivesUp(st) => GivesUp(ns) /\ ns.gap = st.gap + 1
          /\ st.at = "open" /\ ~GivesUp(st) =>
               /\ st.verified <= Grace
               /\ \/ GivesUp(ns) /\ ns.gap = st.gap + 1
                  \/ ~GivesUp(ns) /\ ns.gap = 0 /\ ns.verified = st.verified + 1
      BY <2>3, AgedFields
    <2>6. void'[s] \in Nat /\ void'[s] <= void[s] + 1
      BY <1>1, <2>1
    <2>7. stream[s].at = "closed" \/ ~IsVoid(s) => void'[s] = 0
      BY <1>1
    <2>8. IsVoid(s)' <=> IsVoid(s)
      BY <1>1, <2>2, <2>4, <2>5 DEF IsVoid
    <2>9. SocketSound(s)'
      <3>1. CASE st.at = "closed"
        BY <2>2, <2>4, <2>5, <2>7, <3>1 DEF SocketSound
      <3>2. CASE st.at = "admitted"
        <4>1. st.gap < AdmitTime /\ void[s] <= st.gap
          BY <1>1, <2>1, <2>2, <3>2 DEF SocketSound
        <4>2. void'[s] <= ns.gap /\ ns.gap <= AdmitTime
          BY <2>1, <2>2, <2>5, <2>6, <3>2, <4>1, SweepNumbers
        <4>3. ns.claim <= epoch'[CallerOf[s]]
          BY <1>1, <2>1, <2>2, <2>5, <3>2 DEF SocketSound
        <4> QED
          BY <2>2, <2>4, <2>5, <2>7, <2>8, <3>2, <4>2, <4>3 DEF SocketSound
      <3>3. CASE st.at = "open"
        <4>1. st.gap < CheckGap
          BY <1>1, <2>2, <3>3
        <4>2. ns.claim <= epoch'[CallerOf[s]]
          BY <1>1, <2>1, <2>2, <2>5, <3>3 DEF SocketSound
        <4>3. ns.gap <= CheckGap
          BY <2>1, <2>2, <2>5, <3>3, <4>1, SweepNumbers
        <4>4. GivesUp(st) => void[s] <= SweepInterval + Grace + st.gap
          BY <2>1, <2>2, <3>3 DEF SocketSound
        <4>5. ~GivesUp(st) => void[s] <= SweepInterval + st.verified
          BY <2>1, <2>2, <3>3 DEF SocketSound
        <4>6. GivesUp(ns) => void'[s] <= SweepInterval + Grace + ns.gap
          <5>1. CASE GivesUp(st)
            BY <2>1, <2>2, <2>5, <2>6, <3>3, <4>4, <5>1, SweepNumbers
          <5>2. CASE ~GivesUp(st)
            BY <2>1, <2>2, <2>5, <2>6, <3>3, <4>5, <5>2, SweepNumbers
          <5> QED
            BY <5>1, <5>2
        <4>7. ~GivesUp(ns) => void'[s] <= SweepInterval + ns.verified
          BY <2>1, <2>2, <2>5, <2>6, <3>3, <4>5, SweepNumbers
        <4> QED
          BY <2>2, <2>4, <2>5, <2>7, <2>8, <3>3, <4>2, <4>3, <4>6, <4>7 DEF SocketSound
      <3> QED
        BY <2>1, <2>2, <3>1, <3>2, <3>3
    <2>10. ReadSound(s)'
      <3> SUFFICES ASSUME stream[s].at # "closed", HomeFor(s) = sweeper.tenant, ~sweeper.disabled,
                          \/ sweeper.at = "reads" /\ epoch[CallerOf[s]] = stream[s].claim
                          \/ sweeper.at = "counts" /\ sweeper.epochs[CallerOf[s]] = stream[s].claim
                   PROVE  void'[s] <= sweeper'.took
        BY <1>1, <1>2, <2>2, <2>4, <2>5 DEF ReadSound
      <3>1. void[s] <= sweeper.took /\ sweeper.took \in Nat
        BY <2>1 DEF ReadSound, SweepInv, SweepTyped, SweeperStates
      <3> QED
        BY <1>2, <2>1, <2>6, <3>1
    <2> QED
      BY <2>2, <2>4, <2>5, <2>6, <2>9, <2>10
  <1>4. LiveSockets' = LiveSockets
    BY <1>3 DEF LiveSockets
  <1>5. SweepTyped'
    <2>1. stream' \in [Streams -> SocketStates] /\ void' \in [Streams -> Nat]
      BY <1>1, <1>3
    <2> QED
      BY <1>1, <1>2, <2>1 DEF SweepInv, SweepTyped
  <1>6. SweeperSound'
    BY <1>2, <1>4 DEF SweepInv, SweeperSound, SweepRuns
  <1> QED
    BY <1>3, <1>5, <1>6 DEF SweepInv

-----------------------------------------------------------------------------

\* Every step of the sweep, of the sockets and of time.
LEMMA SweepStep == SweepInv /\ [SweepNext]_swVars => SweepInv'
PROOF
  <1> SUFFICES ASSUME SweepInv, [SweepNext]_swVars PROVE SweepInv'
    OBVIOUS
  <1>1. ASSUME NEW c \in Revocable, RevokeSessions(c) PROVE SweepInv'
    BY <1>1, RevokeStep, SweepAssumption
  <1>2. ASSUME NEW t \in Homes, DisableTenant(t) \/ EnableTenant(t) \/ ReadTenant(t) PROVE SweepInv'
    BY <1>2, DisableStep, EnableStep, ReadTenantStep
  <1>3. ASSUME NEW s \in Streams, Admit(s) \/ RegisterSocket(s) PROVE SweepInv'
    BY <1>3, AdmitStep, RegisterStep
  <1>4. ASSUME NEW s \in Streams, RefuseSocket(s) PROVE SweepInv'
    BY <1>4, SocketIsOver DEF RefuseSocket
  <1>5. ASSUME NEW s \in Streams, Check(s) \/ Leave(s) PROVE SweepInv'
    BY <1>5, SocketIsOver DEF Check, Leave, Unregister
  <1>6. CASE TakeTick \/ ReadEpochs \/ Mark \/ SweepFails \/ SweepTick
    BY <1>6, TakeTickStep, ReadEpochsStep, MarkStep, SweepFailsStep, SweepTickStep
  <1>7. CASE UNCHANGED swVars
    <2>1. UNCHANGED <<disabled, epoch, stream, sweeper, void, spoilt>>
      BY <1>7 DEF swVars
    <2>2. ASSUME NEW s \in Streams PROVE SocketSound(s)' /\ ReadSound(s)'
      <3>1. SocketSound(s) /\ ReadSound(s)
        BY SocketFields
      <3>2. IsVoid(s)' <=> IsVoid(s)
        BY <2>1 DEF IsVoid
      <3> QED
        BY <2>1, <3>1, <3>2 DEF SocketSound, ReadSound
    <2> QED
      BY <2>1, <2>2 DEF SweepInv, SweepTyped, SweeperSound, SweepRuns, LiveSockets
  <1> QED
    BY <1>1, <1>2, <1>3, <1>4, <1>5, <1>6, <1>7 DEF SweepNext

\* What the invariant comes to for an open socket.
LEMMA SweepInvSound == SweepInv => RevokedAreClosed /\ SweepRuns
PROOF
  <1> SUFFICES ASSUME SweepInv PROVE RevokedAreClosed /\ SweepRuns
    OBVIOUS
  <1>1. ASSUME NEW s \in LiveSockets PROVE void[s] <= Reach
    <2>1. s \in Streams /\ stream[s].at = "open"
      BY DEF LiveSockets
    <2>2. SocketSound(s) /\ void[s] \in Nat /\ stream[s].gap \in Nat /\ stream[s].verified \in Nat
      BY <2>1, SocketFields
    <2>3. stream[s].gap <= CheckGap
      BY <2>1, <2>2 DEF SocketSound
    <2>4. CASE GivesUp(stream[s])
      <3>1. void[s] <= SweepInterval + Grace + stream[s].gap
        BY <2>1, <2>2, <2>4 DEF SocketSound
      <3> QED
        BY <2>2, <2>3, <3>1, SweepNumbers
    <2>5. CASE ~GivesUp(stream[s])
      <3>1. void[s] <= SweepInterval + stream[s].verified
        BY <2>1, <2>2, <2>5 DEF SocketSound
      <3>2. stream[s].verified <= Grace
        BY <2>2, <2>5, SweepNumbers DEF GivesUp
      <3> QED
        BY <2>2, <3>1, <3>2, SweepNumbers
    <2> QED
      BY <2>4, <2>5
  <1> QED
    BY <1>1 DEF RevokedAreClosed, SweepInv, SweeperSound

\* A revoked session keeps no socket for longer than Reach ticks, whatever the database
\* does to the sweep, and while there are sockets the sweep goroutine runs: for any
\* sockets, players, tenants, sweep interval and grace (lifecycleRegistry,
\* httpapi/realtime_lifecycle.go).
THEOREM RevokedSocketsClose == SweepSpec => [](RevokedAreClosed /\ SweepRuns)
PROOF
  BY SweepInitial, SweepStep, SweepInvSound, PTL DEF SweepSpec

-----------------------------------------------------------------------------
(* SocketSweep: how long the sweeps of other tenants keep a socket waiting *)

\* The most that the tenants of D take a sweep.
Work(D) == Cardinality(D) * SweepInterval

\* sweepTenant is between its first read and its verdicts.
Reading == sweeper.at \in {"reads", "counts"}

\* What is left of the round at most.
Remaining == Work(sweeper.todo) + (IF Reading THEN SweepInterval - sweeper.took ELSE 0)

\* The sockets of this round whose tenant is still to be read, or is being read.
InRound(s) == s \in sweeper.conns /\ HomeFor(s) \in sweeper.todo
BeingRead(s) == s \in sweeper.conns /\ Reading /\ HomeFor(s) = sweeper.tenant

\* The sockets that only a successful sweep keeps.
Waits(s) == stream[s].at = "open" /\ ~stream[s].stale /\ ~spoilt[s]

\* A socket that waits for its verdict has time left for it: for the rest of the round
\* when the round has it; for the rest of the round, the ticker and a whole round when not.
OnTime(s) ==
  Waits(s) =>
    /\ InRound(s) => stream[s].verified + Remaining <= Work(Homes) + Work(Homes)
    /\ BeingRead(s) => stream[s].verified + SweepInterval <= Work(Homes) + Work(Homes) + sweeper.took
    /\ ~InRound(s) /\ ~BeingRead(s) =>
         /\ stream[s].verified + Remaining <= Work(Homes)
         /\ ~sweeper.due => stream[s].verified + SweepInterval <= Work(Homes) + sweeper.phase

\* The ticker has not fired late, a sweep that waits has no tenant left, and the tenant
\* being read is not one that is left.
RoundSound ==
  /\ sweeper.phase < SweepInterval
  /\ sweeper.at = "waits" => sweeper.todo = {}
  /\ Reading => sweeper.tenant \in Homes \ sweeper.todo

\* Inductive together with SweepInv.
LateInv == RoundSound /\ \A s \in Streams : OnTime(s)

-----------------------------------------------------------------------------

\* Products grow with their first factor.
LEMMA ProductGrows ==
  ASSUME NEW a \in Nat, NEW b \in Nat, NEW n \in Nat, a <= b
  PROVE  a * n <= b * n
PROOF
  <1>1. PICK d \in Nat : b = a + d
    <2>1. b - a \in Nat /\ b = a + (b - a)
      OBVIOUS
    <2> QED
      BY <2>1
  <1>2. b * n = a * n + d * n
    BY <1>1
  <1>3. d * n >= 0 /\ a * n \in Nat /\ d * n \in Nat
    OBVIOUS
  <1> QED
    BY <1>2, <1>3

\* The time a set of tenants takes: less than all take, and one interval for each.
LEMMA WorkFacts ==
  ASSUME IsFiniteSet(Homes), NEW D \in SUBSET Homes
  PROVE  /\ Work(D) \in Nat /\ Work(Homes) \in Nat /\ Work(D) <= Work(Homes)
         /\ \A h \in Homes \ D : Work(D) + SweepInterval <= Work(Homes)
         /\ \A h \in D : Work(D \ {h}) + SweepInterval = Work(D)
         /\ D = {} => Work(D) = 0
PROOF
  <1>1. SweepInterval \in Nat
    BY SweepNumbers
  <1>2. IsFiniteSet(D) /\ Cardinality(D) \in Nat /\ Cardinality(Homes) \in Nat /\ Cardinality(D) <= Cardinality(Homes)
    BY FS_Subset, FS_CardinalityType
  <1>3. Work(D) \in Nat /\ Work(Homes) \in Nat
    BY <1>1, <1>2 DEF Work
  <1>4. Work(D) <= Work(Homes)
    BY <1>1, <1>2, ProductGrows DEF Work
  <1>5. ASSUME NEW h \in Homes \ D PROVE Work(D) + SweepInterval <= Work(Homes)
    <2>1. Cardinality(D \union {h}) = Cardinality(D) + 1
      BY <1>2, FS_AddElement
    <2>2. Cardinality(D \union {h}) <= Cardinality(Homes)
      BY FS_Subset
    <2>3. (Cardinality(D) + 1) * SweepInterval <= Work(Homes)
      BY <1>1, <1>2, <2>1, <2>2, ProductGrows DEF Work
    <2>4. (Cardinality(D) + 1) * SweepInterval = Cardinality(D) * SweepInterval + SweepInterval
      BY <1>1, <1>2
    <2> QED
      BY <2>3, <2>4 DEF Work
  <1>6. ASSUME NEW h \in D PROVE Work(D \ {h}) + SweepInterval = Work(D)
    <2>1. Cardinality(D \ {h}) = Cardinality(D) - 1
      BY <1>2, FS_RemoveElement
    <2>2. PICK n \in Nat : n = Cardinality(D \ {h}) /\ Cardinality(D) = n + 1
      <3>1. IsFiniteSet(D \ {h}) /\ Cardinality(D \ {h}) \in Nat
        BY <1>2, FS_RemoveElement, FS_Subset, FS_CardinalityType
      <3> QED
        BY <1>2, <2>1, <3>1
    <2>3. (n + 1) * SweepInterval = n * SweepInterval + SweepInterval
      BY <1>1
    <2> QED
      BY <2>2, <2>3 DEF Work
  <1>7. D = {} => Work(D) = 0
    BY <1>1, FS_EmptySet DEF Work
  <1> QED
    BY <1>3, <1>4, <1>5, <1>6, <1>7

\* The numbers of a round.
LEMMA RoundNumbers ==
  ASSUME IsFiniteSet(Homes), SweepInv, RoundSound
  PROVE  /\ sweeper \in SweeperStates /\ sweeper.todo \in SUBSET Homes /\ sweeper.took \in Nat /\ sweeper.phase \in Nat
         /\ sweeper.took <= SweepInterval /\ Work(Homes) \in Nat /\ Work(sweeper.todo) \in Nat
         /\ Work(sweeper.todo) <= Work(Homes) /\ Remaining \in Nat /\ Remaining <= Work(Homes)
         /\ Work(sweeper.todo) <= Remaining
         /\ Reading => Remaining = Work(sweeper.todo) + (SweepInterval - sweeper.took)
         /\ ~Reading => Remaining = Work(sweeper.todo)
PROOF
  <1>1. sweeper \in SweeperStates /\ sweeper.todo \in SUBSET Homes /\ sweeper.took \in Nat /\ sweeper.phase \in Nat
    BY DEF SweepInv, SweepTyped, SweeperStates
  <1>2. sweeper.took <= SweepInterval
    BY DEF SweepInv, SweeperSound
  <1>3. /\ Work(sweeper.todo) \in Nat /\ Work(Homes) \in Nat /\ Work(sweeper.todo) <= Work(Homes)
        /\ \A h \in Homes \ sweeper.todo : Work(sweeper.todo) + SweepInterval <= Work(Homes)
    BY <1>1, WorkFacts
  <1>4. SweepInterval \in Nat
    BY SweepNumbers
  <1>5. CASE Reading
    <2>1. Remaining = Work(sweeper.todo) + (SweepInterval - sweeper.took)
      BY <1>5 DEF Remaining
    <2>2. Work(sweeper.todo) + SweepInterval <= Work(Homes)
      BY <1>3, <1>5 DEF RoundSound
    <2> QED
      BY <1>1, <1>2, <1>3, <1>4, <1>5, <2>1, <2>2
  <1>6. CASE ~Reading
    <2>1. Remaining = Work(sweeper.todo) + 0
      BY <1>6 DEF Remaining
    <2> QED
      BY <1>1, <1>2, <1>3, <1>6, <2>1
  <1> QED
    BY <1>5, <1>6

\* There is a tenant, so a round may take an interval.
LEMMA OneTenant == ASSUME IsFiniteSet(Homes), NEW s \in Streams PROVE SweepInterval <= Work(Homes)
PROOF
  <1>1. HomeFor(s) \in Homes \ {}
    BY SweepNumbers DEF HomeFor, Homes
  <1>2. Work({}) + SweepInterval <= Work(Homes) /\ Work({}) = 0
    BY <1>1, WorkFacts
  <1> QED
    BY <1>2, SweepNumbers

\* A sweep that was not started yet.
LEMMA FreshSweep == NoSweep.phase = 0 /\ NoSweep.todo = {} /\ NoSweep.due = FALSE
PROOF
  <1>1. PICK t : t = CHOOSE h \in Homes : TRUE
    OBVIOUS
  <1>2. NoSweep = [running |-> FALSE, phase |-> 0, due |-> FALSE, conns |-> {}, todo |-> {},
                   at |-> "waits", tenant |-> t, took |-> 0, disabled |-> FALSE, epochs |-> [c \in Callers |-> None]]
    BY <1>1 DEF NoSweep
  <1> QED
    BY <1>2

\* At first no socket waits.
LEMMA LateInitial == SweepInit => LateInv
PROOF
  <1> SUFFICES ASSUME SweepInit PROVE LateInv
    OBVIOUS
  <1>1. \A s \in Streams : stream[s].at = "closed"
    BY DEF SweepInit, NoStream
  <1>2. \A s \in Streams : OnTime(s)
    BY <1>1 DEF OnTime, Waits
  <1>3. RoundSound
    BY FreshSweep, SweepEmpty, SweepNumbers DEF SweepInit, RoundSound, Reading
  <1> QED
    BY <1>2, <1>3 DEF LateInv

\* A step that leaves the sweep alone and opens no socket.
LEMMA SweepAlone ==
  ASSUME LateInv, UNCHANGED <<sweeper, spoilt>>,
         \A s \in Streams : stream'[s] = stream[s] \/ stream'[s].at # "open"
  PROVE  LateInv'
PROOF
  <1>1. RoundSound'
    BY DEF LateInv, RoundSound, Reading
  <1>2. ASSUME NEW s \in Streams PROVE OnTime(s)'
    <2>1. CASE stream'[s].at # "open"
      BY <2>1 DEF OnTime, Waits
    <2>2. CASE stream'[s] = stream[s]
      <3>1. OnTime(s)
        BY DEF LateInv
      <3>2. /\ Waits(s)' <=> Waits(s)
            /\ InRound(s)' <=> InRound(s)
            /\ BeingRead(s)' <=> BeingRead(s)
            /\ Remaining' = Remaining
        BY <2>2 DEF Waits, InRound, BeingRead, Remaining, Reading
      <3> QED
        BY <2>2, <3>1, <3>2 DEF OnTime
    <2> QED
      BY <2>1, <2>2
  <1> QED
    BY <1>1, <1>2 DEF LateInv

\* A socket ends: the others wait as before.
LEMMA LateUnregister == ASSUME SweepInv, LateInv, NEW s \in Streams, Unregister(s) PROVE LateInv'
PROOF
  <1>1. /\ stream' = [stream EXCEPT ![s] = NoStream] /\ spoilt' = [spoilt EXCEPT ![s] = FALSE]
        /\ sweeper' = [sweeper EXCEPT !.conns = sweeper.conns \ {s}]
    BY DEF Unregister
  <1>2. sweeper \in SweeperStates /\ stream \in [Streams -> SocketStates]
    BY DEF SweepInv, SweepTyped
  <1>3. /\ sweeper'.conns = sweeper.conns \ {s} /\ sweeper'.at = sweeper.at /\ sweeper'.tenant = sweeper.tenant
        /\ sweeper'.took = sweeper.took /\ sweeper'.todo = sweeper.todo /\ sweeper'.phase = sweeper.phase
        /\ sweeper'.due = sweeper.due
    BY <1>1, <1>2 DEF SweeperStates
  <1>4. RoundSound'
    BY <1>3 DEF LateInv, RoundSound, Reading
  <1>5. ASSUME NEW r \in Streams PROVE OnTime(r)'
    <2>1. CASE r = s
      <3>1. stream'[r].at = "closed"
        BY <1>1, <1>2, <2>1 DEF NoStream
      <3> QED
        BY <3>1 DEF OnTime, Waits
    <2>2. CASE r # s
      <3>1. OnTime(r) /\ stream'[r] = stream[r] /\ (spoilt'[r] = spoilt[r])
        BY <1>1, <1>2, <2>2 DEF LateInv
      <3>2. Waits(r)' <=> Waits(r)
        BY <3>1 DEF Waits
      <3>3. InRound(r)' <=> InRound(r)
        BY <1>3, <2>2 DEF InRound
      <3>4. BeingRead(r)' <=> BeingRead(r)
        BY <1>3, <2>2 DEF BeingRead, Reading
      <3>5. Remaining' = Remaining
        BY <1>3 DEF Remaining, Reading
      <3> QED
        BY <1>3, <3>1, <3>2, <3>3, <3>4, <3>5 DEF OnTime
    <2> QED
      BY <2>1, <2>2
  <1> QED
    BY <1>4, <1>5 DEF LateInv

\* register: a new socket has a whole round and more before it.
LEMMA LateRegister ==
  ASSUME IsFiniteSet(Homes), SweepInv, LateInv, NEW s \in Streams, RegisterSocket(s)
  PROVE  LateInv'
PROOF
  <1>1. PICK st : st = [stream[s] EXCEPT !.at = "open", !.verified = 0, !.gap = 0]
    OBVIOUS
  <1>2. /\ stream[s].at = "admitted" /\ stream' = [stream EXCEPT ![s] = st] /\ UNCHANGED spoilt
        /\ sweeper' = IF sweeper.running THEN sweeper ELSE [NoSweep EXCEPT !.running = TRUE]
    BY <1>1 DEF RegisterSocket
  <1>3. stream[s] \in SocketStates /\ stream \in [Streams -> SocketStates]
    BY SocketFields DEF SweepInv, SweepTyped
  <1>4. stream'[s] = st /\ st.verified = 0 /\ \A r \in Streams \ {s} : stream'[r] = stream[r]
    BY <1>1, <1>2, <1>3 DEF SocketStates
  <1>5. /\ SweepInterval \in Nat /\ SweepInterval <= Work(Homes) /\ Work(Homes) \in Nat /\ RoundSound
    BY SweepNumbers, OneTenant, RoundNumbers DEF LateInv
  <1>6. CASE sweeper.running
    <2>1. sweeper' = sweeper
      BY <1>2, <1>6
    <2>2. RoundSound' /\ Remaining' = Remaining /\ sweeper'.phase \in Nat /\ Remaining <= Work(Homes) /\ Remaining \in Nat
      BY <1>5, <2>1, RoundNumbers DEF RoundSound, Reading, Remaining
    <2>3. ASSUME NEW r \in Streams PROVE OnTime(r)'
      <3>1. CASE r = s
        <4>1. s \notin sweeper'.conns
          BY <1>2, <2>1 DEF SweepInv, SweeperSound, LiveSockets
        <4>2. ~InRound(r)' /\ ~BeingRead(r)'
          BY <3>1, <4>1 DEF InRound, BeingRead
        <4>3. 0 + Remaining' <= Work(Homes) /\ 0 + SweepInterval <= Work(Homes) + sweeper'.phase
          BY <1>5, <2>2
        <4> QED
          BY <1>4, <3>1, <4>2, <4>3 DEF OnTime
      <3>2. CASE r # s
        <4>1. OnTime(r) /\ stream'[r] = stream[r]
          BY <1>4, <3>2 DEF LateInv
        <4>2. /\ Waits(r)' <=> Waits(r)
              /\ InRound(r)' <=> InRound(r)
              /\ BeingRead(r)' <=> BeingRead(r)
          BY <1>2, <2>1, <4>1 DEF Waits, InRound, BeingRead, Reading
        <4> QED
          BY <2>1, <2>2, <4>1, <4>2 DEF OnTime
      <3> QED
        BY <3>1, <3>2
    <2> QED
      BY <2>2, <2>3 DEF LateInv
  <1>7. CASE ~sweeper.running
    <2>1. PICK ns \in SweeperStates : ns = NoSweep
      BY SweepEmpty
    <2>2. sweeper' = [ns EXCEPT !.running = TRUE]
      BY <1>2, <1>7, <2>1
    <2>3. ns.at = "waits" /\ ns.conns = {} /\ ns.todo = {} /\ ns.phase = 0 /\ ns.took = 0
      BY <2>1, SweepEmpty, FreshSweep
    <2>4. sweeper'.at = "waits" /\ sweeper'.conns = {} /\ sweeper'.todo = {} /\ sweeper'.phase = 0
      BY <2>1, <2>2, <2>3 DEF SweeperStates
    <2>5. RoundSound' /\ ~Reading'
      BY <2>4, SweepNumbers DEF RoundSound, Reading
    <2>6. Remaining' = 0
      <3>1. Remaining' = Work(sweeper'.todo) + 0
        BY <2>5 DEF Remaining
      <3>2. Work({}) = 0
        BY WorkFacts
      <3> QED
        BY <2>4, <3>1, <3>2
    <2>7. ASSUME NEW r \in Streams PROVE OnTime(r)'
      <3>1. ~InRound(r)' /\ ~BeingRead(r)'
        BY <2>4 DEF InRound, BeingRead
      <3>2. CASE r = s
        <4>1. 0 + Remaining' <= Work(Homes) /\ 0 + SweepInterval <= Work(Homes) + sweeper'.phase
          BY <1>5, <2>4, <2>6
        <4> QED
          BY <1>4, <3>1, <3>2, <4>1 DEF OnTime
      <3>3. CASE r # s
        <4>1. stream'[r] = stream[r] /\ stream[r].at # "open"
          BY <1>4, <1>7, <3>3 DEF SweepInv, SweeperSound, SweepRuns, LiveSockets
        <4> QED
          BY <4>1 DEF OnTime, Waits
      <3> QED
        BY <3>2, <3>3
    <2> QED
      BY <2>5, <2>7 DEF LateInv
  <1> QED
    BY <1>6, <1>7

\* run: a round begins, with every open socket and no more than all tenants.
LEMMA LateTakeTick == ASSUME IsFiniteSet(Homes), SweepInv, LateInv, TakeTick PROVE LateInv'
PROOF
  <1>1. /\ sweeper.at = "waits" /\ UNCHANGED <<stream, spoilt>>
        /\ sweeper' = IF LiveSockets = {} THEN NoSweep
                      ELSE [sweeper EXCEPT !.due = FALSE, !.at = "picks", !.conns = LiveSockets,
                                           !.todo = {HomeFor(s) : s \in LiveSockets}]
    BY DEF TakeTick
  <1>2. CASE LiveSockets = {}
    <2>1. sweeper' = NoSweep
      BY <1>1, <1>2
    <2>2. RoundSound'
      BY <2>1, FreshSweep, SweepEmpty, SweepNumbers DEF RoundSound, Reading
    <2>3. \A s \in Streams : OnTime(s)'
      BY <1>1, <1>2 DEF OnTime, Waits, LiveSockets
    <2> QED
      BY <2>2, <2>3 DEF LateInv
  <1>3. CASE LiveSockets # {}
    <2>1. PICK todo : todo = {HomeFor(s) : s \in LiveSockets}
      OBVIOUS
    <2>2. todo \in SUBSET Homes
      BY <2>1, SweepNumbers DEF LiveSockets, HomeFor, Homes
    <2>3. sweeper' = [sweeper EXCEPT !.due = FALSE, !.at = "picks", !.conns = LiveSockets, !.todo = todo]
      BY <1>1, <1>3, <2>1
    <2>4. /\ sweeper \in SweeperStates /\ sweeper.phase < SweepInterval /\ Remaining \in Nat /\ Work(Homes) \in Nat
          /\ sweeper.todo = {} /\ ~Reading
      BY <1>1, RoundNumbers DEF LateInv, RoundSound, Reading
    <2>5. sweeper'.at = "picks" /\ sweeper'.conns = LiveSockets /\ sweeper'.todo = todo /\ sweeper'.phase = sweeper.phase
      BY <2>3, <2>4 DEF SweeperStates
    <2>6. RoundSound' /\ ~Reading'
      BY <2>4, <2>5 DEF RoundSound, Reading
    <2>7. Remaining' \in Nat /\ Remaining' <= Work(Homes)
      <3>1. Remaining' = Work(todo) + 0
        BY <2>5, <2>6 DEF Remaining
      <3> QED
        BY <2>2, <3>1, WorkFacts
    <2>8. ASSUME NEW s \in Streams PROVE OnTime(s)'
      <3> SUFFICES ASSUME Waits(s)' PROVE OnTime(s)'
        BY DEF OnTime
      <3>1. Waits(s) /\ s \in LiveSockets
        BY <1>1 DEF Waits, LiveSockets
      <3>2. ~InRound(s) /\ ~BeingRead(s) /\ OnTime(s)
        BY <2>4 DEF InRound, BeingRead, LateInv
      <3>3. stream[s].verified + Remaining <= Work(Homes) /\ stream[s].verified \in Nat
        BY <3>1, <3>2, SocketFields DEF OnTime
      <3>4. InRound(s)' /\ ~BeingRead(s)'
        BY <2>1, <2>5, <2>6, <3>1 DEF InRound, BeingRead
      <3>5. stream'[s].verified + Remaining' <= Work(Homes) + Work(Homes)
        BY <1>1, <2>4, <2>7, <3>3
      <3> QED
        BY <3>4, <3>5 DEF OnTime
    <2> QED
      BY <2>6, <2>8 DEF LateInv
  <1> QED
    BY <1>2, <1>3

\* sweepTenant begins: what is left of the round stays the same.
LEMMA LateReadTenant == ASSUME IsFiniteSet(Homes), SweepInv, LateInv, NEW t \in Homes, ReadTenant(t) PROVE LateInv'
PROOF
  <1>0. (t \in disabled) \in BOOLEAN
    BY SMT
  <1>1. PICK d \in BOOLEAN : d = (t \in disabled)
    BY <1>0
  <1>2. PICK todo : todo = sweeper.todo \ {t}
    OBVIOUS
  <1>3. /\ sweeper.at = "picks" /\ t \in sweeper.todo /\ UNCHANGED <<stream, spoilt>>
        /\ sweeper' = [sweeper EXCEPT !.at = "reads", !.todo = todo, !.tenant = t, !.took = 0, !.disabled = d]
    BY <1>1, <1>2 DEF ReadTenant
  <1>4. /\ sweeper \in SweeperStates /\ sweeper.todo \in SUBSET Homes /\ sweeper.phase < SweepInterval
        /\ Remaining \in Nat /\ Work(Homes) \in Nat /\ (~Reading => Remaining = Work(sweeper.todo))
    BY RoundNumbers DEF LateInv, RoundSound
  <1>5. /\ sweeper'.at = "reads" /\ sweeper'.todo = todo /\ sweeper'.tenant = t /\ sweeper'.took = 0
        /\ sweeper'.conns = sweeper.conns /\ sweeper'.phase = sweeper.phase /\ sweeper'.due = sweeper.due
    BY <1>3, <1>4 DEF SweeperStates
  <1>6. RoundSound' /\ Reading' /\ ~Reading
    BY <1>2, <1>3, <1>4, <1>5 DEF RoundSound, Reading
  <1>7. Work(todo) + SweepInterval = Work(sweeper.todo) /\ Work(todo) \in Nat /\ SweepInterval \in Nat
    BY <1>2, <1>3, <1>4, WorkFacts, SweepNumbers
  <1>8. Remaining' = Remaining /\ SweepInterval <= Remaining
    <2>1. Remaining' = Work(todo) + (SweepInterval - 0)
      BY <1>5, <1>6 DEF Remaining
    <2> QED
      BY <1>4, <1>6, <1>7, <2>1
  <1>9. ASSUME NEW s \in Streams PROVE OnTime(s)'
    <2> SUFFICES ASSUME Waits(s)' PROVE OnTime(s)'
      BY DEF OnTime
    <2>1. Waits(s) /\ OnTime(s) /\ ~BeingRead(s) /\ stream[s].verified \in Nat
      BY <1>3, <1>6, SocketFields DEF Waits, BeingRead, LateInv
    <2>2. CASE InRound(s)
      <3>1. stream[s].verified + Remaining <= Work(Homes) + Work(Homes)
        BY <2>1, <2>2 DEF OnTime
      <3>2. stream[s].verified + SweepInterval <= Work(Homes) + Work(Homes) + 0
        BY <1>4, <1>7, <1>8, <2>1, <3>1
      <3>3. InRound(s)' \/ BeingRead(s)'
        BY <1>2, <1>5, <1>6, <2>2 DEF InRound, BeingRead
      <3> QED
        BY <1>3, <1>5, <1>8, <3>1, <3>2, <3>3 DEF OnTime
    <2>3. CASE ~InRound(s)
      <3>1. ~InRound(s)' /\ ~BeingRead(s)'
        BY <1>2, <1>3, <1>5, <2>3 DEF InRound, BeingRead
      <3> QED
        BY <1>3, <1>5, <1>8, <2>1, <2>3, <3>1 DEF OnTime
    <2> QED
      BY <2>2, <2>3
  <1> QED
    BY <1>6, <1>9 DEF LateInv

\* sweepTenant goes on.
LEMMA LateReadEpochs == ASSUME SweepInv, LateInv, ReadEpochs PROVE LateInv'
PROOF
  <1>1. PICK e : e = [c \in Callers |-> IF HomeOf[c] = sweeper.tenant THEN epoch[c] ELSE None]
    OBVIOUS
  <1>2. sweeper.at = "reads" /\ UNCHANGED <<stream, spoilt>> /\ sweeper' = [sweeper EXCEPT !.at = "counts", !.epochs = e]
    BY <1>1 DEF ReadEpochs
  <1>3. sweeper \in SweeperStates
    BY DEF SweepInv, SweepTyped
  <1>4. /\ sweeper'.at = "counts" /\ sweeper'.todo = sweeper.todo /\ sweeper'.tenant = sweeper.tenant
        /\ sweeper'.took = sweeper.took /\ sweeper'.conns = sweeper.conns /\ sweeper'.phase = sweeper.phase
        /\ sweeper'.due = sweeper.due
    BY <1>2, <1>3 DEF SweeperStates
  <1>5. Reading' /\ Reading
    BY <1>2, <1>4 DEF Reading
  <1>6. RoundSound'
    BY <1>4, <1>5 DEF LateInv, RoundSound
  <1>7. Remaining' = Remaining
    BY <1>4, <1>5 DEF Remaining
  <1>8. ASSUME NEW s \in Streams PROVE OnTime(s)'
    <2>1. OnTime(s)
      BY DEF LateInv
    <2>2. /\ Waits(s)' <=> Waits(s)
          /\ InRound(s)' <=> InRound(s)
          /\ BeingRead(s)' <=> BeingRead(s)
      BY <1>2, <1>4, <1>5 DEF Waits, InRound, BeingRead
    <2> QED
      BY <1>2, <1>4, <1>7, <2>1, <2>2 DEF OnTime
  <1> QED
    BY <1>6, <1>8 DEF LateInv

\* A tenant is done with: the sockets it was read for are verified or excused, and the
\* rest of the round is no longer than it was.
LEMMA LateSwept ==
  ASSUME IsFiniteSet(Homes), SweepInv, LateInv, Reading, sweeper' = Swept,
         \A s \in Streams : /\ stream'[s].verified = 0 \/ stream'[s].verified = stream[s].verified
                            /\ Waits(s)' /\ stream'[s].verified # 0 => Waits(s) /\ s \notin SweptNow
  PROVE  LateInv'
PROOF
  <1>1. PICK at : at = IF sweeper.todo = {} THEN "waits" ELSE "picks"
    OBVIOUS
  <1>2. PICK e : e = [c \in Callers |-> None]
    OBVIOUS
  <1>3. PICK n : n = NoSweep.tenant
    OBVIOUS
  <1>4. sweeper' = [sweeper EXCEPT !.at = at, !.took = 0, !.tenant = n, !.disabled = FALSE, !.epochs = e]
    BY <1>1, <1>2, <1>3 DEF Swept
  <1>5. /\ sweeper \in SweeperStates /\ RoundSound /\ Work(sweeper.todo) \in Nat /\ Remaining \in Nat
        /\ Work(sweeper.todo) <= Remaining /\ Remaining <= Work(Homes) /\ Work(Homes) \in Nat /\ sweeper.phase \in Nat
    BY RoundNumbers DEF LateInv
  <1>6. /\ sweeper'.at = at /\ sweeper'.todo = sweeper.todo /\ sweeper'.conns = sweeper.conns
        /\ sweeper'.phase = sweeper.phase /\ sweeper'.due = sweeper.due
    BY <1>4, <1>5 DEF SweeperStates
  <1>7. RoundSound' /\ ~Reading'
    BY <1>1, <1>5, <1>6 DEF RoundSound, Reading
  <1>8. Remaining' = Work(sweeper.todo)
    <2>1. Remaining' = Work(sweeper.todo) + 0
      BY <1>6, <1>7 DEF Remaining
    <2> QED
      BY <1>5, <2>1
  <1>9. ASSUME NEW s \in Streams PROVE OnTime(s)'
    <2> SUFFICES ASSUME Waits(s)' PROVE OnTime(s)'
      BY DEF OnTime
    <2>1. ~BeingRead(s)' /\ (InRound(s)' <=> InRound(s))
      BY <1>6, <1>7 DEF InRound, BeingRead
    <2>2. CASE stream'[s].verified = 0
      <3>1. SweepInterval <= Work(Homes) /\ SweepInterval \in Nat
        BY OneTenant, SweepNumbers
      <3>2. /\ 0 + Remaining' <= Work(Homes) /\ 0 + Remaining' <= Work(Homes) + Work(Homes)
            /\ 0 + SweepInterval <= Work(Homes) + sweeper'.phase
        BY <1>5, <1>6, <1>8, <3>1
      <3> QED
        BY <2>1, <2>2, <3>2 DEF OnTime
    <2>3. CASE stream'[s].verified # 0
      <3>1. stream'[s].verified = stream[s].verified /\ Waits(s) /\ s \notin SweptNow /\ stream[s].verified \in Nat
        BY <2>3, SocketFields
      <3>2. ~BeingRead(s) /\ OnTime(s)
        BY <3>1 DEF BeingRead, SweptNow, LateInv
      <3>3. CASE InRound(s)
        <4>1. stream[s].verified + Remaining <= Work(Homes) + Work(Homes)
          BY <3>1, <3>2, <3>3 DEF OnTime
        <4>2. stream'[s].verified + Remaining' <= Work(Homes) + Work(Homes)
          BY <1>5, <1>8, <3>1, <4>1
        <4> QED
          BY <2>1, <3>3, <4>2 DEF OnTime
      <3>4. CASE ~InRound(s)
        <4>1. /\ stream[s].verified + Remaining <= Work(Homes)
              /\ ~sweeper.due => stream[s].verified + SweepInterval <= Work(Homes) + sweeper.phase
          BY <3>1, <3>2, <3>4 DEF OnTime
        <4>2. stream'[s].verified + Remaining' <= Work(Homes)
          BY <1>5, <1>8, <3>1, <4>1
        <4> QED
          BY <1>6, <2>1, <3>1, <3>4, <4>1, <4>2 DEF OnTime
      <3> QED
        BY <3>3, <3>4
    <2> QED
      BY <2>2, <2>3
  <1> QED
    BY <1>7, <1>9 DEF LateInv

\* markStale and markVerified
LEMMA LateMark == ASSUME IsFiniteSet(Homes), SweepInv, LateInv, Mark PROVE LateInv'
PROOF
  <1>1. /\ sweeper.at = "counts" /\ sweeper' = Swept /\ stream' = [s \in Streams |-> Marked(s)]
        /\ spoilt' = [s \in Streams |-> spoilt[s] /\ s \notin SweptNow]
    BY DEF Mark
  <1>2. Reading
    BY <1>1 DEF Reading
  <1>3. ASSUME NEW s \in Streams
        PROVE  /\ stream'[s].verified = 0 \/ stream'[s].verified = stream[s].verified
               /\ Waits(s)' /\ stream'[s].verified # 0 => Waits(s) /\ s \notin SweptNow
    <2>1. stream'[s] = Marked(s) /\ stream[s] \in SocketStates
      BY <1>1, SocketFields
    <2>2. CASE s \notin SweptNow
      <3>1. stream'[s] = stream[s]
        BY <2>1, <2>2 DEF Marked
      <3>2. spoilt'[s] = (spoilt[s] /\ s \notin SweptNow)
        BY <1>1
      <3>3. ~spoilt'[s] => ~spoilt[s]
        BY <2>2, <3>2
      <3> QED
        BY <2>2, <3>1, <3>3 DEF Waits
    <2>3. CASE s \in SweptNow /\ stream'[s] = stream[s] /\ stream[s].stale
      BY <2>3 DEF Waits
    <2>4. CASE stream'[s] = [stream[s] EXCEPT !.verified = 0]
      <3>1. stream'[s].verified = 0
        BY <2>1, <2>4 DEF SocketStates
      <3> QED
        BY <3>1
    <2>5. CASE stream'[s] = [stream[s] EXCEPT !.stale = TRUE, !.verified = 0]
      <3>1. stream'[s].verified = 0
        BY <2>1, <2>5 DEF SocketStates
      <3> QED
        BY <3>1
    <2> QED
      BY <2>1, <2>2, <2>3, <2>4, <2>5 DEF Marked
  <1> QED
    BY <1>1, <1>2, <1>3, LateSwept

\* The sweep of the tenant failed, which excuses its sockets.
LEMMA LateFails == ASSUME IsFiniteSet(Homes), SweepInv, LateInv, SweepFails PROVE LateInv'
PROOF
  <1>1. /\ Reading /\ sweeper' = Swept /\ stream' = stream
        /\ spoilt' = [s \in Streams |-> spoilt[s] \/ (s \in SweptNow /\ ~stream[s].stale)]
    BY DEF SweepFails, Reading
  <1>2. ASSUME NEW s \in Streams
        PROVE  /\ stream'[s].verified = 0 \/ stream'[s].verified = stream[s].verified
               /\ Waits(s)' /\ stream'[s].verified # 0 => Waits(s) /\ s \notin SweptNow
    <2>1. spoilt'[s] = (spoilt[s] \/ (s \in SweptNow /\ ~stream[s].stale))
      BY <1>1
    <2>2. ~spoilt'[s] => ~spoilt[s] /\ (s \notin SweptNow \/ stream[s].stale)
      BY <2>1
    <2> QED
      BY <1>1, <2>2 DEF Waits
  <1> QED
    BY <1>1, <1>2, LateSwept

\* The clock of an open socket moves by no more than time does.
LEMMA AgedClock ==
  ASSUME NEW st \in SocketStates
  PROVE  /\ StreamAged(st).at = st.at
         /\ st.at = "open" => StreamAged(st).stale = st.stale /\ StreamAged(st).verified <= st.verified + 1
PROOF
  <1>1. st.at \in {"closed", "admitted", "open"} /\ st.gap \in Nat /\ st.verified \in Nat
    BY DEF SocketStates
  <1>2. StreamAged(st).at = st.at
    BY AgedFields
  <1>3. CASE st.at = "open"
    <2>1. PICK n : n = IF st.stale THEN st.verified ELSE st.verified + 1
      OBVIOUS
    <2>2. n \in Nat /\ n <= st.verified + 1
      BY <1>1, <2>1
    <2>3. PICK older : older = [st EXCEPT !.verified = n]
      OBVIOUS
    <2>4. older \in SocketStates /\ older.verified = n /\ older.stale = st.stale
      BY <2>2, <2>3 DEF SocketStates
    <2>5. PICK g : g = IF GivesUp(older) THEN st.gap + 1 ELSE 0
      OBVIOUS
    <2>6. StreamAged(st) = [older EXCEPT !.gap = g]
      BY <1>3, <2>1, <2>3, <2>5 DEF StreamAged
    <2>7. PICK ns : ns = StreamAged(st)
      OBVIOUS
    <2>8. ns.verified = n /\ ns.stale = st.stale
      BY <2>4, <2>6, <2>7 DEF SocketStates
    <2> QED
      BY <1>2, <2>2, <2>7, <2>8
  <1> QED
    BY <1>2, <1>3

\* The ticker of a sweep that runs.
LEMMA AgedTicker ==
  ASSUME SweepInv, RoundSound, sweeper' = SweeperAged, sweeper.running
  PROVE  /\ sweeper'.phase < SweepInterval /\ sweeper'.todo = sweeper.todo
         /\ ~sweeper'.due => ~sweeper.due /\ sweeper'.phase = sweeper.phase + 1
PROOF
  <1>1. sweeper \in SweeperStates /\ sweeper.phase \in Nat /\ SweepInterval \in Nat /\ SweepInterval > 0
    BY SweepNumbers DEF SweepInv, SweepTyped, SweeperStates
  <1>2. PICK p : p = IF sweeper.phase + 1 = SweepInterval THEN 0 ELSE sweeper.phase + 1
    OBVIOUS
  <1>3. (sweeper.due \/ sweeper.phase + 1 = SweepInterval) \in BOOLEAN
    BY SMT
  <1>4. PICK d \in BOOLEAN : d = (sweeper.due \/ sweeper.phase + 1 = SweepInterval)
    BY <1>3
  <1>5. PICK k : k = IF sweeper.at \in {"reads", "counts"} THEN sweeper.took + 1 ELSE 0
    OBVIOUS
  <1>6. sweeper' = [sweeper EXCEPT !.phase = p, !.due = d, !.took = k]
    BY <1>2, <1>4, <1>5 DEF SweeperAged
  <1>7. sweeper'.phase = p /\ sweeper'.todo = sweeper.todo
    BY <1>1, <1>6 DEF SweeperStates
  <1>8. sweeper'.due = d
    BY <1>1, <1>6 DEF SweeperStates
  <1>9. ~d => ~sweeper.due /\ sweeper.phase + 1 # SweepInterval
    BY <1>4
  <1>10. p < SweepInterval /\ (sweeper.phase + 1 # SweepInterval => p = sweeper.phase + 1)
    BY <1>1, <1>2 DEF RoundSound
  <1> QED
    BY <1>7, <1>8, <1>9, <1>10

\* Time: the clock of a socket moves by one, and what is left of the round, or until the
\* ticker fires, is one less.
LEMMA LateTick == ASSUME IsFiniteSet(Homes), SweepInv, LateInv, SweepTick PROVE LateInv'
PROOF
  <1>1. /\ UNCHANGED spoilt /\ sweeper.took < SweepInterval /\ sweeper' = SweeperAged /\ sweeper.at # "picks"
        /\ ~(sweeper.running /\ sweeper.at = "waits" /\ sweeper.due)
        /\ stream' = [s \in Streams |-> StreamAged(stream[s])]
    BY DEF SweepTick
  <1>2. /\ sweeper'.conns = sweeper.conns /\ sweeper'.at = sweeper.at /\ sweeper'.tenant = sweeper.tenant
        /\ sweeper.at \in {"reads", "counts"} => sweeper'.took = sweeper.took + 1
    BY <1>1, SweeperAgedFields
  <1>3. /\ sweeper \in SweeperStates /\ RoundSound /\ Remaining \in Nat /\ Work(Homes) \in Nat /\ sweeper.phase \in Nat
        /\ sweeper.took \in Nat /\ SweepInterval \in Nat /\ sweeper.phase < SweepInterval /\ Work(sweeper.todo) \in Nat
        /\ Reading => Remaining = Work(sweeper.todo) + (SweepInterval - sweeper.took)
        /\ ~Reading => Remaining = Work(sweeper.todo)
    BY RoundNumbers, SweepNumbers DEF LateInv, RoundSound
  <1>4. Reading' <=> Reading
    BY <1>2 DEF Reading
  <1>5. CASE ~sweeper.running
    <2>1. sweeper' = sweeper
      BY <1>1, <1>5 DEF SweeperAged
    <2>2. RoundSound'
      BY <1>3, <2>1 DEF RoundSound, Reading
    <2>3. ASSUME NEW s \in Streams PROVE OnTime(s)'
      <3>1. stream[s].at # "open"
        BY <1>5 DEF SweepInv, SweeperSound, SweepRuns, LiveSockets
      <3>2. stream'[s].at # "open"
        BY <1>1, <3>1, AgedClock, SocketFields
      <3> QED
        BY <3>2 DEF OnTime, Waits
    <2> QED
      BY <2>2, <2>3 DEF LateInv
  <1>6. CASE sweeper.running
    <2>1. /\ sweeper'.phase < SweepInterval /\ sweeper'.todo = sweeper.todo
          /\ ~sweeper'.due => ~sweeper.due /\ sweeper'.phase = sweeper.phase + 1
      BY <1>1, <1>3, <1>6, AgedTicker
    <2>2. RoundSound'
      BY <1>2, <1>3, <1>4, <2>1 DEF RoundSound
    <2>3. ASSUME NEW s \in Streams PROVE OnTime(s)'
      <3> SUFFICES ASSUME Waits(s)' PROVE OnTime(s)'
        BY DEF OnTime
      <3>1. stream[s] \in SocketStates /\ stream'[s] = StreamAged(stream[s]) /\ stream[s].verified \in Nat
        BY <1>1, SocketFields
      <3>2. stream'[s].at = stream[s].at /\ (stream[s].at = "open" => /\ stream'[s].stale = stream[s].stale
                                                                       /\ stream'[s].verified <= stream[s].verified + 1)
        BY <3>1, AgedClock
      <3>3. Waits(s) /\ OnTime(s) /\ stream'[s].verified <= stream[s].verified + 1
        BY <1>1, <3>2 DEF Waits, LateInv
      <3>4. stream'[s].verified \in Nat
        <4>1. stream'[s] \in SocketStates
          BY <3>1, AgedFields
        <4> QED
          BY <4>1 DEF SocketStates
      <3>5. /\ InRound(s)' <=> InRound(s)
            /\ BeingRead(s)' <=> BeingRead(s)
        BY <1>2, <1>4, <2>1 DEF InRound, BeingRead
      <3>6. PICK v \in Nat : v = stream[s].verified
        BY <3>1
      <3>7. PICK w \in Nat : w = stream'[s].verified /\ w <= v + 1
        BY <3>3, <3>4, <3>6
      <3>8. CASE Reading
        <4>1. Remaining' = Work(sweeper.todo) + (SweepInterval - (sweeper.took + 1)) /\ sweeper'.took = sweeper.took + 1
          BY <1>2, <1>4, <2>1, <3>8 DEF Remaining, Reading
        <4>2. Remaining' = Remaining - 1
          BY <1>3, <3>8, <4>1
        <4>3. InRound(s) => w + Remaining' <= Work(Homes) + Work(Homes)
          <5> SUFFICES ASSUME InRound(s) PROVE w + Remaining' <= Work(Homes) + Work(Homes)
            OBVIOUS
          <5>1. v + Remaining <= Work(Homes) + Work(Homes)
            BY <3>3, <3>6 DEF OnTime
          <5> QED
            BY <1>3, <3>7, <4>2, <5>1
        <4>4. BeingRead(s) => w + SweepInterval <= Work(Homes) + Work(Homes) + sweeper'.took
          <5> SUFFICES ASSUME BeingRead(s) PROVE w + SweepInterval <= Work(Homes) + Work(Homes) + sweeper'.took
            OBVIOUS
          <5>1. v + SweepInterval <= Work(Homes) + Work(Homes) + sweeper.took
            BY <3>3, <3>6 DEF OnTime
          <5> QED
            BY <1>3, <3>7, <4>1, <5>1
        <4>5. ~InRound(s) /\ ~BeingRead(s) =>
                w + Remaining' <= Work(Homes) /\ (~sweeper'.due => w + SweepInterval <= Work(Homes) + sweeper'.phase)
          <5> SUFFICES ASSUME ~InRound(s), ~BeingRead(s)
                       PROVE  w + Remaining' <= Work(Homes) /\ (~sweeper'.due => w + SweepInterval <= Work(Homes) + sweeper'.phase)
            OBVIOUS
          <5>1. v + Remaining <= Work(Homes) /\ (~sweeper.due => v + SweepInterval <= Work(Homes) + sweeper.phase)
            BY <3>3, <3>6 DEF OnTime
          <5>2. w + Remaining' <= Work(Homes)
            BY <1>3, <3>7, <4>2, <5>1
          <5>3. ~sweeper'.due => w + SweepInterval <= Work(Homes) + sweeper'.phase
            BY <1>3, <2>1, <3>7, <5>1
          <5> QED
            BY <5>2, <5>3
        <4> QED
          BY <3>5, <3>7, <4>3, <4>4, <4>5 DEF OnTime
      <3>9. CASE ~Reading
        <4>1. sweeper.at = "waits" /\ ~sweeper.due
          BY <1>1, <1>3, <1>6, <3>9 DEF Reading, SweeperStates
        <4>2. sweeper.todo = {}
          BY <1>3, <4>1 DEF RoundSound
        <4>3. Work(sweeper.todo) = 0
          BY <4>2, WorkFacts
        <4>4. ~InRound(s) /\ ~BeingRead(s)
          BY <3>9, <4>2 DEF InRound, BeingRead
        <4>5. v + SweepInterval <= Work(Homes) + sweeper.phase
          BY <3>3, <3>6, <4>1, <4>4 DEF OnTime
        <4>6. Remaining' = 0
          <5>1. Remaining' = Work(sweeper.todo) + 0
            BY <1>4, <2>1, <3>9 DEF Remaining
          <5> QED
            BY <4>3, <5>1
        <4>7. w + Remaining' <= Work(Homes)
          BY <1>3, <3>7, <4>5, <4>6
        <4>8. ~sweeper'.due => w + SweepInterval <= Work(Homes) + sweeper'.phase
          BY <1>3, <2>1, <3>7, <4>5
        <4> QED
          BY <3>5, <3>7, <4>4, <4>7, <4>8 DEF OnTime
      <3> QED
        BY <3>8, <3>9
    <2> QED
      BY <2>2, <2>3 DEF LateInv
  <1> QED
    BY <1>5, <1>6

\* Every step.
LEMMA LateStep == ASSUME IsFiniteSet(Homes) PROVE SweepInv /\ LateInv /\ [SweepNext]_swVars => LateInv'
PROOF
  <1> SUFFICES ASSUME SweepInv, LateInv, [SweepNext]_swVars PROVE LateInv'
    OBVIOUS
  <1>1. ASSUME NEW c \in Revocable, RevokeSessions(c) PROVE LateInv'
    BY <1>1, SweepAlone DEF RevokeSessions
  <1>2. ASSUME NEW t \in Homes, DisableTenant(t) \/ EnableTenant(t) PROVE LateInv'
    BY <1>2, SweepAlone DEF DisableTenant, EnableTenant
  <1>3. ASSUME NEW t \in Homes, ReadTenant(t) PROVE LateInv'
    BY <1>3, LateReadTenant
  <1>4. ASSUME NEW s \in Streams, Admit(s) PROVE LateInv'
    <2>1. PICK claim : stream' = [stream EXCEPT ![s] = [at |-> "admitted", claim |-> claim, stale |-> FALSE,
                                                        verified |-> 0, gap |-> 0]]
      BY <1>4 DEF Admit
    <2>2. stream \in [Streams -> SocketStates] /\ UNCHANGED <<sweeper, spoilt>>
      BY <1>4 DEF Admit, SweepInv, SweepTyped
    <2>3. \A r \in Streams : stream'[r] = stream[r] \/ stream'[r].at # "open"
      BY <2>1, <2>2
    <2> QED
      BY <2>2, <2>3, SweepAlone
  <1>5. ASSUME NEW s \in Streams, RegisterSocket(s) PROVE LateInv'
    BY <1>5, LateRegister
  <1>6. ASSUME NEW s \in Streams, RefuseSocket(s) PROVE LateInv'
    <2>1. stream' = [stream EXCEPT ![s] = NoStream] /\ UNCHANGED <<sweeper, spoilt>> /\ NoStream.at = "closed"
      BY <1>6 DEF RefuseSocket, NoStream
    <2>2. stream \in [Streams -> SocketStates]
      BY DEF SweepInv, SweepTyped
    <2>3. \A r \in Streams : stream'[r] = stream[r] \/ stream'[r].at # "open"
      BY <2>1, <2>2
    <2> QED
      BY <2>1, <2>3, SweepAlone
  <1>7. ASSUME NEW s \in Streams, Check(s) \/ Leave(s) PROVE LateInv'
    BY <1>7, LateUnregister DEF Check, Leave
  <1>8. CASE TakeTick \/ ReadEpochs \/ Mark \/ SweepFails \/ SweepTick
    BY <1>8, LateTakeTick, LateReadEpochs, LateMark, LateFails, LateTick
  <1>9. CASE UNCHANGED swVars
    BY <1>9, SweepAlone DEF swVars
  <1> QED
    BY <1>1, <1>2, <1>3, <1>4, <1>5, <1>6, <1>7, <1>8, <1>9 DEF SweepNext

\* A socket that waits has waited for two rounds at most.
LEMMA LateSound ==
  ASSUME IsFiniteSet(Homes)
  PROVE  SweepInv /\ LateInv => VerifiedInTime
PROOF
  <1> SUFFICES ASSUME SweepInv, LateInv, NEW s \in LiveSockets, ~stream[s].stale, ~spoilt[s]
               PROVE  ~(stream[s].verified > SweepLag)
    BY DEF VerifiedInTime
  <1>1. s \in Streams /\ Waits(s) /\ OnTime(s)
    BY DEF LiveSockets, Waits, LateInv
  <1>2. stream[s].verified \in Nat
    BY <1>1, SocketFields
  <1>3. /\ sweeper.took \in Nat /\ sweeper.took <= SweepInterval /\ Work(Homes) \in Nat /\ Remaining \in Nat
        /\ SweepInterval \in Nat /\ Grace \in Nat
    BY RoundNumbers, SweepNumbers DEF LateInv
  <1>4. stream[s].verified <= Work(Homes) + Work(Homes)
    <2>1. CASE InRound(s)
      <3>1. stream[s].verified + Remaining <= Work(Homes) + Work(Homes)
        BY <1>1, <2>1 DEF OnTime
      <3> QED
        BY <1>2, <1>3, <3>1
    <2>2. CASE BeingRead(s)
      <3>1. stream[s].verified + SweepInterval <= Work(Homes) + Work(Homes) + sweeper.took
        BY <1>1, <2>2 DEF OnTime
      <3> QED
        BY <1>2, <1>3, <3>1
    <2>3. CASE ~InRound(s) /\ ~BeingRead(s)
      <3>1. stream[s].verified + Remaining <= Work(Homes)
        BY <1>1, <2>3 DEF OnTime
      <3> QED
        BY <1>2, <1>3, <3>1
    <2> QED
      BY <2>1, <2>2, <2>3
  <1>5. Work(Homes) + Work(Homes) = SweepLag
    <2>1. PICK n \in Nat : n = Cardinality(Homes)
      BY FS_CardinalityType
    <2>2. 2 * n * SweepInterval = n * SweepInterval + n * SweepInterval
      BY <1>3
    <2> QED
      BY <2>1, <2>2 DEF Work, SweepLag
  <1> QED
    BY <1>2, <1>3, <1>4, <1>5

\* Revoked sockets go within Reach, the sweep runs while there are sockets, and a socket
\* that no failed sweep of its own tenant touched is verified within two rounds of all the
\* tenants, however slow the others are: for any sockets, players, tenants, interval and
\* grace.  The grace of four intervals is two rounds of two tenants; with three, a socket
\* may be closed before its verdict comes: see DroppedForCause.
THEOREM SweepsInTime == SweepSpec => []SweepSound
PROOF
  <1>0. IsFiniteSet(Homes)
    BY SweepAssumption
  <1>1. SweepInv /\ LateInv => SweepSound
    BY <1>0, SweepInvSound, LateSound DEF SweepSound
  <1>2. SweepInv /\ LateInv /\ [SweepNext]_swVars => (SweepInv /\ LateInv)'
    BY <1>0, SweepStep, LateStep
  <1>3. SweepInit => SweepInv /\ LateInv
    BY <1>0, SweepInitial, LateInitial
  <1> QED
    BY <1>1, <1>2, <1>3, PTL DEF SweepSpec
=============================================================================
