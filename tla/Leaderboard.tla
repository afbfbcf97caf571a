----------------------------- MODULE Leaderboard -----------------------------
(***************************************************************************)
(* A leaderboard whose scores are kept per period: the submissions of      *)
(* httpapi/leaderboards.go, the settings writes of projectadmin and the    *)
(* reset job of jobs/leaderboard_period.go.                                *)
(*                                                                         *)
(* A submission reads the board with FOR KEY SHARE and writes the player's *)
(* entry of the period it read: two steps, the lock held between.  The     *)
(* reset job and a settings write lock the board FOR UPDATE, which waits   *)
(* for every submission under way: one step each, when the board is free.  *)
(* Deleting and restoring a board waits for nobody.                        *)
(*                                                                         *)
(* An entry is the number of its attempts and the sort orders it was       *)
(* written under; how an operator combines two scores is left out, and so  *)
(* are the settings other than the sort order and the schedule.            *)
(***************************************************************************)
EXTENDS Integers, FiniteSets

CONSTANTS
  Scorers,        \* players
  Submissions,    \* requests that may be under way at a time
  Lengths,        \* schedule |-> ticks from one boundary to the next
  AttemptCap,     \* attempt_cap
  LastPeriod,     \* bound: periods 0..LastPeriod
  Horizon         \* bound: the clock

ASSUME BoardAssumption ==
  /\ \A s \in DOMAIN Lengths : Lengths[s] \in Nat \ {0}
  /\ AttemptCap \in Nat \ {0} /\ LastPeriod \in Nat /\ Horizon \in Nat

VARIABLES
  board,      \* leaderboards: order, schedule, period, started, next, deleted
  entry,      \* leaderboard_entries
  archive,    \* leaderboard_periods
  submit,     \* what each submission under way read
  clock

lbVars == <<board, entry, archive, submit, clock>>

Orders == {"asc", "desc"}
NoSchedule == "none"
Schedules == DOMAIN Lengths \union {NoSchedule}
Never == -1
NotSubmitting == [player |-> "nobody"]
NoEntry == [attempts |-> 0, orders |-> {}]

BoardTypeOK ==
  /\ board \in [order : Orders, schedule : Schedules, period : 0..LastPeriod,
                started : {Never} \union 0..Horizon, next : Int, deleted : BOOLEAN]
  /\ entry \in [Scorers \X (0..LastPeriod) -> [attempts : 0..AttemptCap, orders : SUBSET Orders]]
  /\ \A a \in archive : a.period \in 0..LastPeriod
  /\ clock \in 0..Horizon

-----------------------------------------------------------------------------
(* period.NextReset: the first boundary strictly after a time. *)

\* A boundary that is not strictly after.
NextResetAtOrAfter(schedule, from) ==
  Lengths[schedule] * ((from + Lengths[schedule] - 1) \div Lengths[schedule])

NextReset(schedule, from) ==
  Lengths[schedule] * (from \div Lengths[schedule] + 1)

\* CreateLeaderboard, at time 0.
BoardInit ==
  /\ \E order \in Orders, schedule \in Schedules :
       board = [order |-> order, schedule |-> schedule, period |-> 0, deleted |-> FALSE,
                started |-> IF schedule = NoSchedule THEN Never ELSE 0,
                next |-> IF schedule = NoSchedule THEN Never ELSE NextReset(schedule, 0)]
  /\ entry = [e \in Scorers \X (0..LastPeriod) |-> NoEntry]
  /\ archive = {}
  /\ submit = [s \in Submissions |-> NotSubmitting]
  /\ clock = 0

-----------------------------------------------------------------------------
(* submitScoreToBoard *)

\* GetLeaderboardForSubmit
SubmitRead(s, p) ==
  /\ submit[s] = NotSubmitting /\ ~board.deleted
  /\ submit' = [submit EXCEPT ![s] = [player |-> p, period |-> board.period, order |-> board.order]]
  /\ UNCHANGED <<board, entry, archive, clock>>

\* SubmitScore: refused without a write at the attempt cap.
SubmitCommit(s) ==
  LET e == <<submit[s].player, submit[s].period>> IN
  /\ submit[s] # NotSubmitting
  /\ submit' = [submit EXCEPT ![s] = NotSubmitting]
  /\ entry' = IF entry[e].attempts >= AttemptCap THEN entry
              ELSE [entry EXCEPT ![e] = [attempts |-> @.attempts + 1,
                                         orders |-> @.orders \union {submit[s].order}]]
  /\ UNCHANGED <<board, archive, clock>>

\* The score is out of bounds, or the request fails: nothing is written.
SubmitAborts(s) ==
  /\ submit[s] # NotSubmitting
  /\ submit' = [submit EXCEPT ![s] = NotSubmitting]
  /\ UNCHANGED <<board, entry, archive, clock>>

-----------------------------------------------------------------------------
(* The writers that lock the board. *)

\* The reset's lock, taken in a mode that goes with FOR KEY SHARE.
BoardFreeAlways == TRUE

BoardFree == \A s \in Submissions : submit[s] = NotSubmitting

\* ListDueLeaderboardResets
Due(now) ==
  ~board.deleted /\ board.schedule # NoSchedule /\ board.next # Never /\ board.next <= now

\* ArchiveLeaderboardPeriod
Archived == [period |-> board.period, started |-> board.started, ended |-> board.next]

\* AdvanceLeaderboardPeriod
Advanced(now) ==
  [board EXCEPT !.period = @ + 1, !.started = board.next, !.next = NextReset(board.schedule, now)]

\* resetDueBoardsForTenant.  `now' is when the job began.
ResetPeriod(now) ==
  /\ BoardFree
  /\ Due(now) /\ board.period < LastPeriod
  /\ archive' = archive \union {Archived}
  /\ board' = Advanced(now)
  /\ UNCHANGED <<entry, submit, clock>>

\* A look at the current period alone.
HasEntriesNow == \E p \in Scorers : entry[<<p, board.period>>] # NoEntry

\* LeaderboardHasEntries
HasEntries == \E e \in DOMAIN entry : entry[e] # NoEntry

\* UpdateLeaderboard, the statement
Updated(order, schedule) ==
  [board EXCEPT
     !.order = order,
     !.schedule = schedule,
     !.next = IF schedule = board.schedule THEN @
              ELSE IF schedule = NoSchedule THEN Never ELSE NextReset(schedule, clock),
     !.started = IF schedule \notin {board.schedule, NoSchedule}
                    /\ (@ = Never \/ board.schedule = NoSchedule) THEN clock ELSE @]

\* writeLeaderboard: UpdateLeaderboard and RollbackLeaderboard.
WriteBoard(order, schedule) ==
  /\ BoardFree
  /\ ~board.deleted
  /\ order # board.order => ~HasEntries
  /\ board' = Updated(order, schedule)
  /\ UNCHANGED <<entry, archive, submit, clock>>

DeleteBoard ==
  /\ ~board.deleted
  /\ board' = [board EXCEPT !.deleted = TRUE]
  /\ UNCHANGED <<entry, archive, submit, clock>>

RestoreBoard ==
  /\ board.deleted
  /\ board' = [board EXCEPT !.deleted = FALSE]
  /\ UNCHANGED <<entry, archive, submit, clock>>

Tick ==
  /\ clock < Horizon
  /\ clock' = clock + 1
  /\ UNCHANGED <<board, entry, archive, submit>>

BoardNext ==
  \/ \E s \in Submissions : (\E p \in Scorers : SubmitRead(s, p)) \/ SubmitCommit(s) \/ SubmitAborts(s)
  \/ \E now \in 0..clock : ResetPeriod(now)
  \/ \E order \in Orders, schedule \in Schedules : WriteBoard(order, schedule)
  \/ DeleteBoard \/ RestoreBoard \/ Tick

BoardSpec == BoardInit /\ [][BoardNext]_lbVars

-----------------------------------------------------------------------------
(* What a leaderboard promises. *)

\* PeriodsInOrder: every finished period is archived once, has a length, and
\* ends before the next begins, also when the job ran late or the schedule was
\* edited around an overdue boundary.
PeriodsInOrder ==
  /\ {a.period : a \in archive} = 0..(board.period - 1)
  /\ \A a \in archive :
       /\ a.started # Never /\ a.started < a.ended
       /\ a.ended <= board.started
       /\ \A b \in archive : a.period = b.period => a = b
       /\ \A b \in archive : a.period < b.period => a.ended <= b.started

\* OneOrder: all entries of a board, of every period, were written under the
\* sort order it has: a submission never lands under the order before an edit.
OneOrder == \A e \in DOMAIN entry : entry[e].orders \subseteq {board.order}

\* PeriodsSound: the periods follow each other, every entry was written under
\* the board's one order, and once a period is archived its entries stay as
\* they are: a submission that read the board before a reset does not write
\* after it.
PeriodsSound ==
  [][/\ PeriodsInOrder' /\ OneOrder'
     /\ \A a \in archive, p \in Scorers : entry'[<<p, a.period>>] = entry[<<p, a.period>>]]_lbVars
=============================================================================
