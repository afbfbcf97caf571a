----------------------------- MODULE MatchQueue -----------------------------
(***************************************************************************)
(* The matchmaker's ticket queue in PostgreSQL (internal/matchmaker        *)
(* pgqueue.go, party_entries.go, the SQL in db/queries/matchmaker.sql) and *)
(* the workers that drain it (worker.go): the two-phase claim              *)
(*     Claim -> resolve the group -> Commit | Release | Return             *)
(* in which tickets stay 'queued' while they are in flight.                *)
(*                                                                         *)
(* A database transaction is one step: every one of them locks party,      *)
(* entry and tickets in that order before it writes.  The worker's calls   *)
(* are separate steps, so cancels, sweeps, expiry and other workers run    *)
(* between them, and a worker may stop between any two.  Tickets and       *)
(* entries are created once: their ids are serials.                        *)
(***************************************************************************)
EXTENDS Integers, FiniteSets

CONSTANTS
  Tickets,       \* matchmaking_tickets rows that may be inserted
  Entries,       \* matchmaking_entries rows that may be inserted
  Parties,       \* the entries that belong to a party; the others are solo
  EntryOf,       \* the entry of each ticket
  PlayerOf,      \* the player of each ticket
  Workers,       \* worker goroutines, of one process or of several
  Batch,         \* maxClaimBatch, in players
  MaxAttempts,   \* Config.MaxAttempts
  MaxClaims,     \* bound on claims made
  MaxMatches     \* bound on matches made

ASSUME QueueConstants ==
  /\ IsFiniteSet(Tickets)
  /\ Parties \subseteq Entries
  /\ EntryOf \in [Tickets -> Entries]
  /\ \A e \in Entries : \E t \in Tickets : EntryOf[t] = e
  /\ \A t1, t2 \in Tickets : EntryOf[t1] = EntryOf[t2] /\ EntryOf[t1] \notin Parties => t1 = t2
  /\ Batch \in Nat \ {0}
  /\ MaxAttempts \in Nat \ {0}
  /\ MaxClaims \in Nat
  /\ MaxMatches \in Nat

VARIABLES
  status,     \* matchmaking_tickets.status; "none" before the insert
  claim,      \* matchmaking_tickets.claim_id; 0 is NULL
  attempts,   \* matchmaking_tickets.allocation_attempts
  matchOf,    \* matchmaking_tickets.match_id; 0 is NULL
  entry,      \* matchmaking_entries.status; "none" before the insert
  expired,    \* entries whose tickets' expires_at has passed
  lapsed,     \* claims whose claim_expires_at has passed
  claims,     \* number of claim ids minted
  roster,     \* matchmaker_matches.roster of each match; {} when there is no row
  worker      \* the local state of each worker's processBucket

tickets == <<status, claim, attempts, matchOf>>
vars == <<tickets, entry, expired, lapsed, claims, roster, worker>>

NoClaim == 0
NoMatch == 0
ClaimIds == 1..MaxClaims
MatchIds == 1..MaxMatches

Terminal == {"matched", "cancelled", "failed"}
Status == {"none", "queued"} \union Terminal

TicketsOf(e) == {t \in Tickets : EntryOf[t] = e}
TicketsIn(E) == {t \in Tickets : EntryOf[t] \in E}

\* processBucket: "idle"; "next" picks the next group; "resolve" runs the backend
\* step and the commit of `group`; "release" and "giveback" are its failure
\* paths; "unclaim" is the deferred ReturnUnmatched.
WorkerState == [pc : {"idle", "next", "resolve", "release", "giveback", "unclaim"},
                claim : ClaimIds \union {NoClaim},
                rest : SUBSET Entries,       \* claimed and in no group so far
                group : SUBSET Entries]

Idle == [pc |-> "idle", claim |-> NoClaim, rest |-> {}, group |-> {}]

TypeOK ==
  /\ status \in [Tickets -> Status]
  /\ claim \in [Tickets -> ClaimIds \union {NoClaim}]
  /\ attempts \in [Tickets -> 0..MaxAttempts]
  /\ matchOf \in [Tickets -> MatchIds \union {NoMatch}]
  /\ entry \in [Entries -> Status]
  /\ expired \subseteq Entries
  /\ lapsed \subseteq ClaimIds
  /\ claims \in 0..MaxClaims
  /\ roster \in [MatchIds -> SUBSET Tickets]
  /\ worker \in [Workers -> WorkerState]

Init ==
  /\ status = [t \in Tickets |-> "none"]
  /\ claim = [t \in Tickets |-> NoClaim]
  /\ attempts = [t \in Tickets |-> 0]
  /\ matchOf = [t \in Tickets |-> NoMatch]
  /\ entry = [e \in Entries |-> "none"]
  /\ expired = {}
  /\ lapsed = {}
  /\ claims = 0
  /\ roster = [m \in MatchIds |-> {}]
  /\ worker = [w \in Workers |-> Idle]

-----------------------------------------------------------------------------
(* The statements the transactions are made of. *)

Goto(w, pc) == worker' = [worker EXCEPT ![w].pc = pc]
GroupOver(w) == worker' = [worker EXCEPT ![w].pc = "next", ![w].group = {}]

\* settleEntries, its first statement: an entry still queued takes the status of
\* a ticket in scope that has left the queue.
SettledEntries(scope, st) ==
  [e \in Entries |->
     IF entry[e] = "queued" /\ \E t \in TicketsOf(e) \cap scope : st[t] # "queued"
     THEN st[CHOOSE t \in TicketsOf(e) \cap scope : st[t] # "queued"]
     ELSE entry[e]]

\* ... its second one: an entry's failure or cancellation spreads to all of its
\* tickets.
Spreads(t, scope, st, ent) ==
  /\ st[t] = "queued"
  /\ ent[EntryOf[t]] \in {"failed", "cancelled"}
  /\ TicketsOf(EntryOf[t]) \cap scope # {}

SettledStatus(scope, st, ent) ==
  [t \in Tickets |-> IF Spreads(t, scope, st, ent) THEN ent[EntryOf[t]] ELSE st[t]]

SettledClaims(scope, st, ent, cl) ==
  [t \in Tickets |-> IF Spreads(t, scope, st, ent) THEN NoClaim ELSE cl[t]]

\* settleEntries after a statement that left the tickets at st and cl.
SettleEntries(scope, st, cl) ==
  LET ent == SettledEntries(scope, st) IN
  /\ entry' = ent
  /\ status' = SettledStatus(scope, st, ent)
  /\ claim' = SettledClaims(scope, st, ent, cl)

\* The same transaction without the call of settleEntries.
NotSettled(st, cl) ==
  /\ entry' = entry
  /\ status' = st
  /\ claim' = cl

\* ReleaseMatchmakerTickets and SweepStaleMatchmakerClaims charge an attempt and
\* fail the ticket at the cap.
Charged(S) == [t \in Tickets |-> IF t \in S THEN attempts[t] + 1 ELSE attempts[t]]

\* The cap reached one attempt early.
FailedEarly(S) ==
  [t \in Tickets |-> IF t \in S /\ attempts[t] + 2 >= MaxAttempts THEN "failed" ELSE status[t]]

FailedAtCap(S) ==
  [t \in Tickets |-> IF t \in S /\ attempts[t] + 1 >= MaxAttempts THEN "failed" ELSE status[t]]
Unclaimed(S) == [t \in Tickets |-> IF t \in S THEN NoClaim ELSE claim[t]]

\* The tickets of a worker's group that its claim still holds.
Held(w) ==
  {t \in TicketsIn(worker[w].group) : status[t] = "queued" /\ claim[t] = worker[w].claim}

-----------------------------------------------------------------------------
(* Players. *)

\* ExpirePlayerQueuedTicket: the player's own unclaimed ticket past its TTL.
StaleOf(p) ==
  {t \in Tickets : /\ PlayerOf[t] = p /\ status[t] = "queued"
                   /\ claim[t] = NoClaim /\ EntryOf[t] \in expired}

\* Enqueue of a solo ticket.  The unique index allows one queued ticket per
\* player, and the trigger matchmaking_solo_entry refuses the member of a party
\* (no member of a queued party entry can be here) and inserts the entry.
\* The expired ticket's own entry is left to the next sweep.
Enqueue(t) ==
  LET stale == StaleOf(PlayerOf[t]) IN
  /\ EntryOf[t] \notin Parties
  /\ status[t] = "none"
  /\ \A s \in stale : EntryOf[s] \notin Parties
  /\ \A s \in Tickets \ stale : PlayerOf[s] = PlayerOf[t] => status[s] # "queued"
  /\ status' = [s \in Tickets |-> IF s = t THEN "queued"
                                  ELSE IF s \in stale THEN "failed" ELSE status[s]]
  /\ entry' = [entry EXCEPT ![EntryOf[t]] = "queued"]
  /\ UNCHANGED <<claim, attempts, matchOf, expired, lapsed, claims, roster, worker>>

\* Store.Queue of a party: one entry and one ticket per member, refused while a
\* member has a queued ticket.
QueueParty(e) ==
  /\ e \in Parties
  /\ entry[e] = "none"
  /\ \A t \in TicketsOf(e), s \in Tickets : PlayerOf[s] = PlayerOf[t] => status[s] # "queued"
  /\ status' = [t \in Tickets |-> IF EntryOf[t] = e THEN "queued" ELSE status[t]]
  /\ entry' = [entry EXCEPT ![e] = "queued"]
  /\ UNCHANGED <<claim, attempts, matchOf, expired, lapsed, claims, roster, worker>>

\* Cancel that takes back the ticket and leaves its claim in place.
CancelKeepsClaim(t) ==
  /\ EntryOf[t] \notin Parties
  /\ status[t] = "queued"
  /\ SettleEntries({t}, [status EXCEPT ![t] = "cancelled"], claim)
  /\ UNCHANGED <<attempts, matchOf, expired, lapsed, claims, roster, worker>>

\* Cancel: only a solo ticket, also one that is claimed.
Cancel(t) ==
  /\ EntryOf[t] \notin Parties
  /\ status[t] = "queued"
  /\ SettleEntries({t}, [status EXCEPT ![t] = "cancelled"], [claim EXCEPT ![t] = NoClaim])
  /\ UNCHANGED <<attempts, matchOf, expired, lapsed, claims, roster, worker>>

\* party.cancel (Cancel, Remove, disband and the presence sweep of a queued
\* party): the entry and all of its queued tickets.
CancelParty(e) ==
  /\ e \in Parties
  /\ entry[e] = "queued"
  /\ entry' = [entry EXCEPT ![e] = "cancelled"]
  /\ LET S == {t \in TicketsOf(e) : status[t] = "queued"} IN
     /\ status' = [t \in Tickets |-> IF t \in S THEN "cancelled" ELSE status[t]]
     /\ claim' = Unclaimed(S)
  /\ UNCHANGED <<attempts, matchOf, expired, lapsed, claims, roster, worker>>

-----------------------------------------------------------------------------
(* Time. *)

\* expires_at passes: the tickets of an entry share it.
EntryExpires(e) ==
  /\ entry[e] = "queued"
  /\ e \notin expired
  /\ expired' = expired \union {e}
  /\ UNCHANGED <<tickets, entry, lapsed, claims, roster, worker>>

\* claim_expires_at passes, whether or not the worker is still running.
LeaseLapses(c) ==
  /\ c \notin lapsed
  /\ \E t \in Tickets : claim[t] = c
  /\ lapsed' = lapsed \union {c}
  /\ UNCHANGED <<tickets, entry, expired, claims, roster, worker>>

-----------------------------------------------------------------------------
(* The worker: processBucket. *)

\* A candidate list read before another worker's claim committed, without the
\* re-check in the UPDATE.
ClaimableStale ==
  {e \in Entries : /\ entry[e] = "queued"
                   /\ e \notin expired
                   /\ \A t \in TicketsOf(e) : status[t] = "queued"}

\* The entries ClaimMatchmakerBucket accepts: queued, and every ticket queued,
\* unclaimed and unexpired.
Claimable ==
  {e \in Entries : /\ entry[e] = "queued"
                   /\ e \notin expired
                   /\ \A t \in TicketsOf(e) : status[t] = "queued" /\ claim[t] = NoClaim}

\* Whole entries within the batch, or the oldest one alone however large.  SKIP
\* LOCKED may pass over any entry, so any such set can be the one claimed.
WithinBatch(E) == Cardinality(TicketsIn(E)) <= Batch \/ Cardinality(E) = 1

\* A claim of tickets rather than of whole entries.
ClaimBucketByTicket(w) ==
  /\ worker[w].pc = "idle"
  /\ claims < MaxClaims
  /\ \E S \in SUBSET TicketsIn(Claimable) :
        /\ S # {}
        /\ Cardinality(S) <= Batch
        /\ claims' = claims + 1
        /\ claim' = [t \in Tickets |-> IF t \in S THEN claims + 1 ELSE claim[t]]
        /\ worker' = [worker EXCEPT ![w] = [pc |-> "next", claim |-> claims + 1,
                                            rest |-> {EntryOf[t] : t \in S}, group |-> {}]]
  /\ UNCHANGED <<status, attempts, matchOf, entry, expired, lapsed, roster>>

ClaimBucket(w) ==
  /\ worker[w].pc = "idle"
  /\ claims < MaxClaims
  /\ \E E \in SUBSET Claimable :
        /\ E # {}
        /\ WithinBatch(E)
        /\ claims' = claims + 1
        /\ claim' = [t \in Tickets |-> IF EntryOf[t] \in E THEN claims + 1 ELSE claim[t]]
        /\ worker' = [worker EXCEPT ![w] = [pc |-> "next", claim |-> claims + 1,
                                            rest |-> E, group |-> {}]]
  /\ UNCHANGED <<status, attempts, matchOf, entry, expired, lapsed, roster>>

\* formGroups splits the claim into disjoint groups of whole entries; which ones
\* is the subject of module GroupFormation.
NextGroup(w) ==
  /\ worker[w].pc = "next"
  /\ \E G \in SUBSET worker[w].rest :
        /\ G # {}
        /\ worker' = [worker EXCEPT ![w].pc = "resolve", ![w].group = G,
                                    ![w].rest = worker[w].rest \ G]
  /\ UNCHANGED <<tickets, entry, expired, lapsed, claims, roster>>

\* No group is left.  The deferred ReturnUnmatched runs unless every claimed
\* ticket was in one.
GroupsDone(w) ==
  /\ worker[w].pc = "next"
  /\ worker' = [worker EXCEPT ![w] = IF worker[w].rest = {} THEN Idle
                                     ELSE [@ EXCEPT !.pc = "unclaim"]]
  /\ UNCHANGED <<tickets, entry, expired, lapsed, claims, roster>>

\* The session creator or the fleet allocator fails: releaseOnError.
BackendFails(w) ==
  /\ worker[w].pc = "resolve"
  /\ Goto(w, "release")
  /\ UNCHANGED <<tickets, entry, expired, lapsed, claims, roster>>

\* It is at capacity: returnOnCapacity.
BackendFull(w) ==
  /\ worker[w].pc = "resolve"
  /\ Goto(w, "giveback")
  /\ UNCHANGED <<tickets, entry, expired, lapsed, claims, roster>>

\* The tickets CommitMatchmakerTickets would flip.
Committable(w) ==
  {t \in Held(w) : worker[w].claim \notin lapsed /\ EntryOf[t] \notin expired}

FreshMatch(m) == m \in MatchIds /\ roster[m] = {} /\ \A n \in MatchIds : roster[n] = {} => m <= n

\* CommitMatch, every ticket flipped: the match row, the tickets and the entries
\* change in one transaction.
Committed(w, S) ==
  \E m \in MatchIds :
     /\ FreshMatch(m)
     /\ roster' = [roster EXCEPT ![m] = TicketsIn(worker[w].group)]
     /\ matchOf' = [t \in Tickets |-> IF t \in S THEN m ELSE matchOf[t]]
     /\ SettleEntries(TicketsIn(worker[w].group),
                      [t \in Tickets |-> IF t \in S THEN "matched" ELSE status[t]],
                      Unclaimed(S))
     /\ UNCHANGED <<attempts, expired, lapsed, claims>>

\* A commit that takes what is left of a group instead of rolling back.
CommitSurvivors(w) ==
  /\ worker[w].pc = "resolve"
  /\ Committable(w) # {}
  /\ Committed(w, Committable(w))
  /\ GroupOver(w)

CommitMatch(w) ==
  /\ worker[w].pc = "resolve"
  /\ Committable(w) = TicketsIn(worker[w].group)
  /\ Committed(w, Committable(w))
  /\ GroupOver(w)

\* The transaction committed and its answer was lost: the worker takes the error
\* path for tickets that are matched.
CommitAnswerLost(w) ==
  /\ worker[w].pc = "resolve"
  /\ Committable(w) = TicketsIn(worker[w].group)
  /\ Committed(w, Committable(w))
  /\ Goto(w, "release")

\* Rolled back.  No ticket left: the claim drifted, nothing more to do.
CommitDrifted(w) ==
  /\ worker[w].pc = "resolve"
  /\ Committable(w) = {}
  /\ GroupOver(w)
  /\ UNCHANGED <<tickets, entry, expired, lapsed, claims, roster>>

\* ErrShortCommit: some tickets left, or a party member is past its disconnect
\* deadline: the survivors go back without penalty.
CommitShort(w) ==
  /\ worker[w].pc = "resolve"
  /\ \/ Committable(w) \notin {{}, TicketsIn(worker[w].group)}
     \/ \E t \in TicketsIn(worker[w].group) : EntryOf[t] \in Parties /\ status[t] = "queued"
  /\ Goto(w, "giveback")
  /\ UNCHANGED <<tickets, entry, expired, lapsed, claims, roster>>

\* ReturnTickets: un-claim without an attempt charged.
ReturnTickets(w) ==
  /\ worker[w].pc = "giveback"
  /\ claim' = Unclaimed(Held(w))
  /\ GroupOver(w)
  /\ UNCHANGED <<status, attempts, matchOf, entry, expired, lapsed, claims, roster>>

\* ReleaseTickets that forgets the cap.
ReleaseUncapped(w) ==
  /\ worker[w].pc = "release"
  /\ attempts' = Charged(Held(w))
  /\ claim' = Unclaimed(Held(w))
  /\ GroupOver(w)
  /\ UNCHANGED <<status, entry, matchOf, expired, lapsed, claims, roster>>

\* ReleaseTickets: charge an attempt, fail at the cap, settle.
ReleaseTickets(w) ==
  /\ worker[w].pc = "release"
  /\ attempts' = Charged(Held(w))
  /\ SettleEntries(TicketsIn(worker[w].group), FailedAtCap(Held(w)), Unclaimed(Held(w)))
  /\ GroupOver(w)
  /\ UNCHANGED <<matchOf, expired, lapsed, claims, roster>>

\* Either call may fail: it is logged and the claim is left to the sweeper.
CallFails(w) ==
  /\ worker[w].pc \in {"giveback", "release"}
  /\ GroupOver(w)
  /\ UNCHANGED <<tickets, entry, expired, lapsed, claims, roster>>

\* ReturnUnmatched: whatever the claim still holds, not only the rest.
ReturnUnmatched(w) ==
  /\ worker[w].pc = "unclaim"
  /\ claim' = Unclaimed({t \in Tickets : status[t] = "queued" /\ claim[t] = worker[w].claim})
  /\ worker' = [worker EXCEPT ![w] = Idle]
  /\ UNCHANGED <<status, attempts, matchOf, entry, expired, lapsed, claims, roster>>

\* The worker's process dies, or its context ends and the calls left fail.
Crash(w) ==
  /\ worker[w].pc # "idle"
  /\ worker' = [worker EXCEPT ![w] = Idle]
  /\ UNCHANGED <<tickets, entry, expired, lapsed, claims, roster>>

-----------------------------------------------------------------------------
(* SweepStaleClaims: release lapsed claims, fail unclaimed tickets past their *)
(* TTL, settle every entry.                                                   *)

LapsedTickets == {t \in Tickets : status[t] = "queued" /\ claim[t] \in lapsed}

\* A TTL sweep that does not look at the status.
ExpiredAnyStatus(st, cl) ==
  [t \in Tickets |-> IF cl[t] = NoClaim /\ EntryOf[t] \in expired THEN "failed" ELSE st[t]]

ExpiredAfter(st, cl) ==
  [t \in Tickets |-> IF st[t] = "queued" /\ cl[t] = NoClaim /\ EntryOf[t] \in expired
                     THEN "failed" ELSE st[t]]

SweepNoSettle ==
  LET cl == Unclaimed(LapsedTickets) IN
  /\ attempts' = Charged(LapsedTickets)
  /\ NotSettled(ExpiredAfter(FailedAtCap(LapsedTickets), cl), cl)
  /\ UNCHANGED <<matchOf, expired, lapsed, claims, roster, worker>>

\* A sweep of the TTL only.
SweepExpiredOnly ==
  /\ SettleEntries(Tickets, ExpiredAfter(status, claim), claim)
  /\ UNCHANGED <<attempts, matchOf, expired, lapsed, claims, roster, worker>>

\* A sweep of lapsed claims only.
SweepLapsedOnly ==
  LET cl == Unclaimed(LapsedTickets) IN
  /\ attempts' = Charged(LapsedTickets)
  /\ SettleEntries(Tickets, FailedAtCap(LapsedTickets), cl)
  /\ UNCHANGED <<matchOf, expired, lapsed, claims, roster, worker>>

SweepStaleClaims ==
  LET cl == Unclaimed(LapsedTickets) IN
  /\ attempts' = Charged(LapsedTickets)
  /\ SettleEntries(Tickets, ExpiredAfter(FailedAtCap(LapsedTickets), cl), cl)
  /\ UNCHANGED <<matchOf, expired, lapsed, claims, roster, worker>>

-----------------------------------------------------------------------------
Resolve(w) ==
  \/ BackendFails(w) \/ BackendFull(w)
  \/ CommitMatch(w) \/ CommitAnswerLost(w) \/ CommitDrifted(w) \/ CommitShort(w)

Process(w) ==
  \/ ClaimBucket(w) \/ NextGroup(w) \/ GroupsDone(w)
  \/ Resolve(w)
  \/ ReturnTickets(w) \/ ReleaseTickets(w) \/ CallFails(w)
  \/ ReturnUnmatched(w) \/ Crash(w)

Next ==
  \/ \E t \in Tickets : Enqueue(t) \/ Cancel(t)
  \/ \E e \in Entries : QueueParty(e) \/ CancelParty(e) \/ EntryExpires(e)
  \/ \E c \in ClaimIds : LeaseLapses(c)
  \/ \E w \in Workers : Process(w)
  \/ SweepStaleClaims

Spec == Init /\ [][Next]_vars

(***************************************************************************)
(* Fairness.  The housekeeping goroutine of every process sweeps on a      *)
(* ticker, and a lease ends by the clock.  Nothing is assumed of workers:  *)
(* they may crash at any step and never come back.                         *)
(***************************************************************************)
QueueFairness ==
  /\ WF_vars(SweepStaleClaims)
  /\ \A c \in ClaimIds : WF_vars(LeaseLapses(c))

-----------------------------------------------------------------------------
(* What the queue promises. *)

\* A party is never split: the tickets of an entry have the same status, claim,
\* attempts and match, through every claim, partial failure, sweep and cancel,
\* although each statement updates ticket rows one by one.
EntryUniform ==
  \A t1, t2 \in Tickets :
     EntryOf[t1] = EntryOf[t2] =>
        /\ status[t1] = status[t2]
        /\ claim[t1] = claim[t2]
        /\ attempts[t1] = attempts[t2]
        /\ matchOf[t1] = matchOf[t2]

\* The entry row follows its tickets.  The one lag allowed: a solo ticket that
\* Enqueue expired, whose entry the next sweep settles.
EntryFollowsTickets ==
  \A t \in Tickets :
     \/ status[t] = entry[EntryOf[t]]
     \/ /\ EntryOf[t] \notin Parties
        /\ status[t] = "failed" /\ entry[EntryOf[t]] = "queued"

\* A match's roster is exactly the tickets that point at the match, and those
\* are matched: no player is announced in a match that does not hold it, and
\* none is in two matches, also when two workers hold the same tickets one
\* after the other and the first one wakes up late.
RosterExact ==
  /\ \A m \in MatchIds : roster[m] = {t \in Tickets : matchOf[t] = m}
  /\ \A t \in Tickets : status[t] = "matched" <=> matchOf[t] # NoMatch

\* A claim is only on a ticket that can still be matched or failed by it: queued,
\* in a queued entry, and below the attempts cap.
ClaimSound ==
  \A t \in Tickets :
     claim[t] # NoClaim => /\ status[t] = "queued"
                           /\ entry[EntryOf[t]] = "queued"
                           /\ attempts[t] < MaxAttempts
                           /\ claim[t] <= claims

\* A ticket fails for one of two causes only: its TTL passed, or MaxAttempts
\* attempts were charged to it; a capacity error or a short commit is neither.
FailedForCause ==
  \A t \in Tickets :
     status[t] = "failed" => EntryOf[t] \in expired \/ attempts[t] >= MaxAttempts

\* What the player was told is final: a ticket that is matched, cancelled or
\* failed keeps its status and its match.
TerminalIsFinal ==
  [][\A t \in Tickets :
       status[t] \in Terminal => status'[t] = status[t] /\ matchOf'[t] = matchOf[t]]_vars

\* A lease is respected: while it runs, a ticket under it is only matched,
\* charged or given back by a step of the worker that holds the claim; the only
\* other way out is a cancellation.
LeaseRespected ==
  [][\A t \in Tickets :
       (claim[t] # NoClaim /\ claim'[t] # claim[t]) =>
          \/ claim[t] \in lapsed
          \/ status'[t] = "cancelled"
          \/ \E w \in Workers : worker[w].claim = claim[t] /\ worker'[w] # worker[w]]_vars

\* An entry at rest: none of its tickets is claimed, if its TTL has passed
\* they have left the queue, and its own row has not stayed behind them.
Settled(e) ==
  /\ \A t \in TicketsOf(e) : claim[t] = NoClaim
  /\ e \in expired => \A t \in TicketsOf(e) : status[t] \in Terminal
  /\ entry[e] = "queued" => \A t \in TicketsOf(e) : status[t] = "queued"

\* QueueSettles: every entry comes to rest again and again.  No claim outlives
\* its worker for ever (crashed, hung or failed calls included, the lease
\* lapses and the sweep takes the tickets back), a ticket past its TTL leaves
\* the queue, claimed or not when the TTL passed, and the entry rows keep up
\* with their tickets.
QueueSettles == []EntryFollowsTickets /\ \A e \in Entries : []<>Settled(e)

-----------------------------------------------------------------------------
(* The queue implements the board.  An entry's outcome is the status all of  *)
(* its tickets have; "torn", which is no outcome of the board, if they have  *)
(* none in common.                                                           *)

OutcomeOf(e) ==
  LET one == CHOOSE t \in TicketsOf(e) : TRUE IN
  IF \A t \in TicketsOf(e) : status[t] = status[one] THEN status[one] ELSE "torn"

EntriesOf(S) == {EntryOf[t] : t \in S}

Board ==
  INSTANCE MatchBoard WITH
    outcome <- [e \in Entries |-> OutcomeOf(e)],
    teams <- {EntriesOf(roster[m]) : m \in {n \in MatchIds : roster[n] # {}}}

\* Every step of the queue is a step of the board or invisible on it: entries
\* join, match and leave atomically and once, whatever claims, lapses, retries
\* and lost answers happen underneath.
ImplementsBoard == Board!Spec
=============================================================================
