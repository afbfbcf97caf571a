----------------------------- MODULE FleetMatch -----------------------------
(***************************************************************************)
(* The dedicated-server path of the matchmaker: what one pass of           *)
(* commitFleetAllocation does between claiming a group of tickets and      *)
(* announcing its match, the fleet Manager under it, the polls that claim  *)
(* the match, and the retention job that gives unused servers back.        *)
(*                                                                         *)
(* Each element of Matches is one pass: the match id the worker mints,     *)
(* which is also the id of its resolution row and the label on its         *)
(* allocation row and on every backend server its calls create.  A pass    *)
(* makes at most one allocation row, so the row is indexed by the match.   *)
(* A server is named by the attempt that created it.                       *)
(*                                                                         *)
(* A database transaction is one step; a backend call takes effect in one  *)
(* step, but nothing is atomic across the two.  A worker may die between   *)
(* any two of its steps.  What becomes of the tickets of a failed pass is  *)
(* the subject of MatchQueue.                                              *)
(***************************************************************************)
EXTENDS Naturals, FiniteSets

CONSTANTS
  Matches,      \* passes, one match id each
  Players,
  Roster,       \* [Matches -> SUBSET Players]
  Cap,          \* maxUnclaimedFleetAllocs; 0 is no cap
  Retries,      \* ManagerOptions.Retries
  Cleaner,      \* the backend implements ResolutionCleaner
  LostAnswers,  \* a transaction may commit and report an error
  Straddle      \* a pass may still be running when its match expires

ASSUME RosterAssumption == Roster \in [Matches -> SUBSET Players]
ASSUME BoundsAssumption == Cap \in Nat /\ Retries \in Nat
ASSUME FlagsAssumption == {Cleaner, LostAnswers, Straddle} \subseteq BOOLEAN

VARIABLES
  pc,          \* where the worker of each pass is
  tickets,     \* the group's tickets: claimed, or drifted since, or matched
  attempt,     \* the attempt of Manager.Allocate, also the name of its server
  late,        \* a backend call outlived its worker and may still take effect
  running,     \* servers the backend is running, by the label they carry
  alloc,       \* game_server_allocations.status
  ref,         \* game_server_allocations.backend_ref
  resolution,  \* the matchmaking_resolutions row
  row,         \* the matchmaker_matches row
  handed,      \* matches whose address some player was sent
  served,      \* matches a claim was recorded for
  expired,     \* expires_at (one value for match and resolution) has passed
  aged,        \* expires_at + 24 hours has passed
  dealloc,     \* where each caller's Manager.Deallocate is
  gc,          \* where the retention job is
  doomed,      \* expired unclaimed matches the job listed
  stale        \* expired resolutions the job listed

pass == <<pc, tickets, attempt>>
backend == <<late, running>>
tables == <<alloc, ref, resolution, row>>
clock == <<expired, aged>>
job == <<gc, doomed, stale>>
claims == <<handed, served>>
vars == <<pass, backend, tables, claims, clock, dealloc, job>>

Attempts == 1 .. Retries + 1
NoRef == 0

(***************************************************************************)
(* The worker's steps, each named for what it does next:                   *)
(*   "idle"     the pass has not begun                                     *)
(*   "begin"    BeginResolution                                            *)
(*   "insert"   InsertPending                                              *)
(*   "call"     the backend's Allocate                                     *)
(*   "mark"     MarkReady                                                  *)
(*   "unmark"   MarkReady failed: give the server back                     *)
(*   "fail"     MarkFailed                                                 *)
(*   "commit"   CommitMatch                                                *)
(*   "orphan"   deallocateOrphan                                           *)
(*   "discard"  discardOrphanMatch: deallocateOrphan, then delete the row  *)
(*   "notify"   notifyMatched                                              *)
(*   "claim"    ClaimMatch, after a delivery                               *)
(*   "done"     returned       "dead"  its process died                    *)
(***************************************************************************)
Over == {"done", "dead"}
WorkerStep == {"idle", "begin", "insert", "call", "mark", "unmark", "fail",
               "commit", "orphan", "discard", "notify", "claim"} \union Over

\* Statuses under which a sweep still looks for servers.
Unreleased == {"pending", "ready", "failed"}

Callers == {"worker", "gc"}
DeallocateStep == {"no", "get", "clean", "release", "ok", "failed"}

TypeOK ==
  /\ pc \in [Matches -> WorkerStep]
  /\ tickets \in [Matches -> {"claimed", "short", "drifted", "matched"}]
  /\ attempt \in [Matches -> Attempts]
  /\ late \in [Matches -> BOOLEAN]
  /\ running \in [Matches -> SUBSET Attempts]
  /\ alloc \in [Matches -> {"none", "shutdown"} \union Unreleased]
  /\ ref \in [Matches -> Attempts \union {NoRef}]
  /\ resolution \in [Matches -> {"none", "open", "gone"}]
  /\ row \in [Matches -> {"none", "unclaimed", "claimed", "gone"}]
  /\ handed \subseteq Matches
  /\ served \subseteq Matches
  /\ expired \in [Matches -> BOOLEAN]
  /\ aged \in [Matches -> BOOLEAN]
  /\ dealloc \in [Callers -> [Matches -> DeallocateStep]]
  /\ gc \in {"idle", "listed", "resolutions", "matches"}
  /\ doomed \subseteq Matches
  /\ stale \subseteq Matches

Init ==
  /\ pc = [m \in Matches |-> "idle"]
  /\ tickets = [m \in Matches |-> "claimed"]
  /\ attempt = [m \in Matches |-> 1]
  /\ late = [m \in Matches |-> FALSE]
  /\ running = [m \in Matches |-> {}]
  /\ alloc = [m \in Matches |-> "none"]
  /\ ref = [m \in Matches |-> NoRef]
  /\ resolution = [m \in Matches |-> "none"]
  /\ row = [m \in Matches |-> "none"]
  /\ handed = {}
  /\ served = {}
  /\ expired = [m \in Matches |-> FALSE]
  /\ aged = [m \in Matches |-> FALSE]
  /\ dealloc = [c \in Callers |-> [m \in Matches |-> "no"]]
  /\ gc = "idle"
  /\ doomed = {}
  /\ stale = {}

Goto(m, from, to) == pc[m] = from /\ pc' = [pc EXCEPT ![m] = to]

-----------------------------------------------------------------------------
(* The worker, up to the allocated server. *)

\* newMatch mints the id and fixes expires_at.
NewMatch(m) ==
  /\ Goto(m, "idle", "begin")
  /\ UNCHANGED <<tickets, attempt, backend, tables, claims, clock, dealloc, job>>

BeginResolution(m) ==
  /\ Goto(m, "begin", "insert")
  /\ resolution' = [resolution EXCEPT ![m] = "open"]
  /\ UNCHANGED <<tickets, attempt, backend, alloc, ref, row, claims, clock, dealloc, job>>

\* The insert fails: releaseOnError.
BeginFails(m) ==
  /\ Goto(m, "begin", "done")
  /\ \/ UNCHANGED resolution
     \/ LostAnswers /\ resolution' = [resolution EXCEPT ![m] = "open"]
  /\ UNCHANGED <<tickets, attempt, backend, alloc, ref, row, claims, clock, dealloc, job>>

InsertPending(m) ==
  /\ Goto(m, "insert", "call")
  /\ alloc' = [alloc EXCEPT ![m] = "pending"]
  /\ UNCHANGED <<tickets, attempt, backend, ref, resolution, row, claims, clock, dealloc, job>>

\* The fleet cannot be resolved, its backend is another, or the insert fails.
InsertFails(m) ==
  /\ Goto(m, "insert", "done")
  /\ \/ UNCHANGED alloc
     \/ LostAnswers /\ alloc' = [alloc EXCEPT ![m] = "pending"]
  /\ UNCHANGED <<tickets, attempt, backend, ref, resolution, row, claims, clock, dealloc, job>>

AllocateSucceeds(m) ==
  /\ Goto(m, "call", "mark")
  /\ running' = [running EXCEPT ![m] = @ \union {attempt[m]}]
  /\ UNCHANGED <<tickets, attempt, late, tables, claims, clock, dealloc, job>>

\* The retry loop with its bound left out.
AllocateRetries(m) ==
  /\ Goto(m, "call", "call")
  /\ attempt' = [attempt EXCEPT ![m] = @ + 1]
  /\ UNCHANGED <<tickets, backend, tables, claims, clock, dealloc, job>>

\* A failed call may have created its server all the same (the backend
\* allocated it and has no address for it, or its answer was lost).
AllocateFails(m) ==
  /\ Goto(m, "call", IF attempt[m] <= Retries THEN "call" ELSE "fail")
  /\ attempt' = [attempt EXCEPT ![m] = IF @ <= Retries THEN @ + 1 ELSE @]
  /\ \/ UNCHANGED running
     \/ running' = [running EXCEPT ![m] = @ \union {attempt[m]}]
  /\ UNCHANGED <<tickets, late, tables, claims, clock, dealloc, job>>

\* ctx ends during a backoff: MarkFailed runs on the same ended ctx, so the
\* row stays pending.
BackoffCancelled(m) ==
  /\ attempt[m] > 1
  /\ Goto(m, "call", "done")
  /\ UNCHANGED <<tickets, attempt, backend, tables, claims, clock, dealloc, job>>

MarkReady(m) ==
  /\ alloc[m] = "pending"
  /\ Goto(m, "mark", "commit")
  /\ alloc' = [alloc EXCEPT ![m] = "ready"]
  /\ ref' = [ref EXCEPT ![m] = attempt[m]]
  /\ UNCHANGED <<tickets, attempt, backend, resolution, row, claims, clock, dealloc, job>>

\* The row is no longer pending, or the update fails.
MarkReadyFails(m) ==
  /\ Goto(m, "mark", "unmark")
  /\ \/ UNCHANGED <<alloc, ref>>
     \/ /\ LostAnswers /\ alloc[m] = "pending"
        /\ alloc' = [alloc EXCEPT ![m] = "ready"]
        /\ ref' = [ref EXCEPT ![m] = attempt[m]]
  /\ UNCHANGED <<tickets, attempt, backend, resolution, row, claims, clock, dealloc, job>>

\* cleanupAfterMarkReadyFailure: the backend may refuse; MarkFailed follows
\* either way.
Unmark(m) ==
  /\ Goto(m, "unmark", "fail")
  /\ \/ running' = [running EXCEPT ![m] = @ \ {attempt[m]}]
     \/ UNCHANGED running
  /\ UNCHANGED <<tickets, attempt, late, tables, claims, clock, dealloc, job>>

\* MarkFailed leaves a released row alone, and may itself fail.
MarkFailed(m) ==
  /\ Goto(m, "fail", "done")
  /\ \/ alloc[m] # "shutdown" /\ alloc' = [alloc EXCEPT ![m] = "failed"]
     \/ UNCHANGED alloc
  /\ UNCHANGED <<tickets, attempt, backend, ref, resolution, row, claims, clock, dealloc, job>>

-----------------------------------------------------------------------------
(* Manager.Deallocate, as the worker and the retention job call it.  Every  *)
(* allocation of a pass carries the resolution label.                       *)

DeallocateAt(c, m, from, to) ==
  /\ dealloc[c][m] = from
  /\ dealloc' = [dealloc EXCEPT ![c][m] = to]

\* A released row needs nothing.
DeallocateGet(c, m) ==
  /\ DeallocateAt(c, m, "get", IF alloc[m] = "shutdown" THEN "ok" ELSE "clean")
  /\ UNCHANGED <<pass, backend, tables, claims, clock, job>>

\* CleanupResolution deletes every server with the label; a backend without
\* it can release the one server the row refers to.
DeallocateClean(c, m) ==
  /\ Cleaner \/ ref[m] # NoRef
  /\ DeallocateAt(c, m, "clean", "release")
  /\ running' = [running EXCEPT ![m] = IF Cleaner THEN {} ELSE @ \ {ref[m]}]
  /\ UNCHANGED <<pass, late, tables, claims, clock, job>>

DeallocateRelease(c, m) ==
  /\ DeallocateAt(c, m, "release", "ok")
  /\ alloc' = [alloc EXCEPT ![m] = "shutdown"]
  /\ UNCHANGED <<pass, backend, ref, resolution, row, claims, clock, job>>

\* Any of the three fails; a cleanup may have deleted some servers first.
DeallocateFails(c, m) ==
  /\ \E from \in {"get", "clean", "release"} : DeallocateAt(c, m, from, "failed")
  /\ \/ UNCHANGED running
     \/ /\ dealloc[c][m] = "clean" /\ Cleaner
        /\ \E left \in SUBSET running[m] : running' = [running EXCEPT ![m] = left]
  /\ UNCHANGED <<pass, late, tables, claims, clock, job>>

Deallocate(c, m) ==
  \/ DeallocateGet(c, m)
  \/ DeallocateClean(c, m)
  \/ DeallocateRelease(c, m)
  \/ DeallocateFails(c, m)

-----------------------------------------------------------------------------
(* The worker, from the commit on. *)

\* CountPlayerLiveFleetAllocations
LiveMatches(p) ==
  {m \in Matches : row[m] = "unclaimed" /\ ~expired[m] /\ p \in Roster[m]}

OverCap(m) ==
  Cap > 0 /\ \E p \in Roster[m] : Cardinality(LiveMatches(p)) >= Cap

\* The worker turns to cleanup step s, which starts with Deallocate.
Cleanup(m, s) ==
  /\ pc' = [pc EXCEPT ![m] = s]
  /\ dealloc' = [dealloc EXCEPT !["worker"][m] = "get"]

\* reserveFleetCap refuses; the group is returned to the queue.
CommitOverCap(m) ==
  /\ pc[m] = "commit"
  /\ OverCap(m)
  /\ Cleanup(m, "orphan")
  /\ UNCHANGED <<tickets, attempt, backend, tables, claims, clock, job>>

\* The match row, the tickets and the end of the resolution in one
\* transaction.
CommitMatch(m) ==
  /\ pc[m] = "commit"
  /\ ~OverCap(m)
  /\ tickets[m] = "claimed"
  /\ tickets' = [tickets EXCEPT ![m] = "matched"]
  /\ row' = [row EXCEPT ![m] = "unclaimed"]
  /\ resolution' = [resolution EXCEPT ![m] = "gone"]
  /\ \/ pc' = [pc EXCEPT ![m] = "notify"] /\ UNCHANGED dealloc
     \/ LostAnswers /\ Cleanup(m, "discard")
  /\ UNCHANGED <<attempt, backend, alloc, ref, claims, clock, job>>

\* Some or all of the group drifted, or the transaction fails: all of it is
\* rolled back.
CommitFails(m) ==
  /\ pc[m] = "commit"
  /\ Cleanup(m, "discard")
  /\ UNCHANGED <<tickets, attempt, backend, tables, claims, clock, job>>

OrphanReleased(m) ==
  /\ dealloc["worker"][m] \in {"ok", "failed"}
  /\ Goto(m, "orphan", "done")
  /\ UNCHANGED <<tickets, attempt, backend, tables, claims, clock, dealloc, job>>

\* discardOrphanMatch keeps the row when the release failed; the delete may
\* fail too.
DiscardMatch(m) ==
  /\ dealloc["worker"][m] \in {"ok", "failed"}
  /\ Goto(m, "discard", "done")
  /\ \/ UNCHANGED row
     \/ /\ dealloc["worker"][m] = "ok" /\ row[m] = "unclaimed"
        /\ row' = [row EXCEPT ![m] = "gone"]
  /\ UNCHANGED <<tickets, attempt, backend, alloc, ref, resolution, claims, clock, dealloc, job>>

\* ClaimMatch with its expiry guard left out.
ClaimAnyAge(m) ==
  /\ row[m] \in {"unclaimed", "claimed"}
  /\ row' = [row EXCEPT ![m] = "claimed"]
  /\ served' = served \union {m}

ClaimMatch(m) ==
  /\ row[m] \in {"unclaimed", "claimed"}
  /\ ~expired[m]
  /\ row' = [row EXCEPT ![m] = "claimed"]
  /\ served' = served \union {m}

\* notifyMatched sends the address to the players connected here; without a
\* delivery the match is left to the polls.
Notify(m) ==
  /\ \/ Goto(m, "notify", "claim") /\ handed' = handed \union {m}
     \/ Goto(m, "notify", "done") /\ UNCHANGED handed
  /\ UNCHANGED <<tickets, attempt, backend, tables, served, clock, dealloc, job>>

\* The claim that follows a delivery may fail, which is only logged.
ClaimDelivered(m) ==
  /\ Goto(m, "claim", "done")
  /\ ClaimMatch(m) \/ UNCHANGED <<row, served>>
  /\ UNCHANGED <<tickets, attempt, backend, alloc, ref, resolution, handed, clock, dealloc, job>>

\* A player polls its ticket: a matched one claims its match, and the answer
\* has the address.
Poll(m) ==
  /\ tickets[m] = "matched"
  /\ ClaimMatch(m)
  /\ handed' = handed \union {m}
  /\ UNCHANGED <<pass, backend, alloc, ref, resolution, clock, dealloc, job>>

Worker(m) ==
  \/ NewMatch(m) \/ BeginResolution(m) \/ BeginFails(m)
  \/ InsertPending(m) \/ InsertFails(m)
  \/ AllocateSucceeds(m) \/ AllocateFails(m) \/ BackoffCancelled(m)
  \/ MarkReady(m) \/ MarkReadyFails(m) \/ Unmark(m) \/ MarkFailed(m)
  \/ CommitOverCap(m) \/ CommitMatch(m) \/ CommitFails(m)
  \/ Deallocate("worker", m) \/ OrphanReleased(m) \/ DiscardMatch(m)
  \/ Notify(m) \/ ClaimDelivered(m)

-----------------------------------------------------------------------------
(* The retention job: SweepMatchmakerRecords, one job at a time.           *)

ExpiredUnclaimed == {m \in Matches : row[m] = "unclaimed" /\ expired[m]}

GCStart ==
  /\ gc = "idle"
  /\ gc' = "listed"
  /\ doomed' = ExpiredUnclaimed
  /\ UNCHANGED <<pass, backend, tables, claims, clock, dealloc, stale>>

\* sweepMatchmakerResolutions lists its own candidates.
ResolutionsStart ==
  /\ gc = "listed"
  /\ gc' = "resolutions"
  /\ stale' = {m \in Matches : resolution[m] = "open" /\ expired[m]}
  /\ UNCHANGED <<pass, backend, tables, claims, clock, dealloc, doomed>>

Busy == \E m \in Matches : dealloc["gc"][m] # "no"

\* Allocation rows a failed pass left behind are not looked for.
LiveStatuses == {"pending", "ready"}

\* cleanResolution: the allocations with this label that need cleanup.
NeedsCleanup == Unreleased

CleanResolution(m) ==
  /\ gc = "resolutions" /\ m \in stale /\ ~Busy
  /\ dealloc' = [dealloc EXCEPT !["gc"][m] =
                   IF alloc[m] \in NeedsCleanup THEN "get" ELSE "ok"]
  /\ UNCHANGED <<pass, backend, tables, claims, clock, job>>

\* Without the 24 hours for which a resolution is kept.
NoTombstone(m) == alloc[m] \notin Unreleased

\* The resolution is kept for a day after its expiry, and as long as an
\* allocation carries its label.
Forgettable(m) == aged[m] /\ alloc[m] \notin Unreleased

CleanResolutionEnd(m) ==
  /\ gc = "resolutions" /\ m \in stale
  /\ dealloc["gc"][m] \in {"ok", "failed"}
  /\ dealloc' = [dealloc EXCEPT !["gc"][m] = "no"]
  /\ stale' = stale \ {m}
  /\ resolution' = [resolution EXCEPT ![m] =
       IF dealloc["gc"][m] = "ok" /\ Forgettable(m) THEN "gone" ELSE @]
  /\ UNCHANGED <<pass, backend, alloc, ref, row, claims, clock, gc, doomed>>

ResolutionsEnd ==
  /\ gc = "resolutions" /\ stale = {}
  /\ gc' = "matches"
  /\ UNCHANGED <<pass, backend, tables, claims, clock, dealloc, doomed, stale>>

ReleaseMatch(m) ==
  /\ gc = "matches" /\ m \in doomed /\ ~Busy
  /\ dealloc' = [dealloc EXCEPT !["gc"][m] = "get"]
  /\ UNCHANGED <<pass, backend, tables, claims, clock, job>>

\* DeleteExpiredUnclaimedMatchmakerMatch, only after a successful release.
ReleaseMatchEnd(m) ==
  /\ gc = "matches" /\ m \in doomed
  /\ dealloc["gc"][m] \in {"ok", "failed"}
  /\ dealloc' = [dealloc EXCEPT !["gc"][m] = "no"]
  /\ doomed' = doomed \ {m}
  /\ row' = [row EXCEPT ![m] =
       IF dealloc["gc"][m] = "ok" /\ m \in ExpiredUnclaimed THEN "gone" ELSE @]
  /\ UNCHANGED <<pass, backend, alloc, ref, resolution, claims, clock, gc, stale>>

\* Deletes only matches without an allocation: none of this module's.
GCEndKeepsClaimed ==
  /\ gc = "matches" /\ doomed = {}
  /\ gc' = "idle"
  /\ UNCHANGED <<pass, backend, tables, claims, clock, dealloc, doomed, stale>>

\* DeleteExpiredMatchmakerMatches: claimed ones need no release.
GCEnd ==
  /\ gc = "matches" /\ doomed = {}
  /\ gc' = "idle"
  /\ row' = [m \in Matches |-> IF row[m] = "claimed" /\ expired[m] THEN "gone" ELSE row[m]]
  /\ UNCHANGED <<pass, backend, alloc, ref, resolution, claims, clock, dealloc, doomed, stale>>

\* A query fails or the leader dies: River runs the job again.
GCDies ==
  /\ gc # "idle"
  /\ gc' = "idle"
  /\ doomed' = {}
  /\ stale' = {}
  /\ dealloc' = [dealloc EXCEPT !["gc"] = [m \in Matches |-> "no"]]
  /\ UNCHANGED <<pass, backend, tables, claims, clock>>

GC ==
  \/ GCStart \/ ResolutionsStart \/ ResolutionsEnd \/ GCEnd
  \/ \E m \in Matches : \/ CleanResolution(m) \/ CleanResolutionEnd(m)
                        \/ ReleaseMatch(m) \/ ReleaseMatchEnd(m)
                        \/ Deallocate("gc", m)

-----------------------------------------------------------------------------
(* Everything else. *)

\* A cancel, an expiry or a lapsed claim takes one or all tickets of the group.
Drift(m) ==
  /\ tickets[m] = "claimed"
  /\ \E t \in {"short", "drifted"} : tickets' = [tickets EXCEPT ![m] = t]
  /\ UNCHANGED <<pc, attempt, backend, tables, claims, clock, dealloc, job>>

\* The worker's process dies; a backend call it was making goes on.
Crash(m) ==
  /\ pc[m] \notin Over \union {"idle"}
  /\ pc' = [pc EXCEPT ![m] = "dead"]
  /\ late' = [late EXCEPT ![m] = (pc[m] = "call")]
  /\ dealloc' = [dealloc EXCEPT !["worker"][m] = "no"]
  /\ UNCHANGED <<tickets, attempt, running, tables, claims, clock, job>>

\* The call that outlived its worker ends, with or without a server.
LateCall(m) ==
  /\ late[m]
  /\ late' = [late EXCEPT ![m] = FALSE]
  /\ \/ UNCHANGED running
     \/ running' = [running EXCEPT ![m] = @ \union {attempt[m]}]
  /\ UNCHANGED <<pass, tables, claims, clock, dealloc, job>>

\* MatchTTL, a day by default, passes.
Expire(m) ==
  /\ pc[m] # "idle" /\ ~expired[m]
  /\ Straddle \/ (pc[m] \in Over /\ ~late[m])
  /\ expired' = [expired EXCEPT ![m] = TRUE]
  /\ UNCHANGED <<pass, backend, tables, claims, aged, dealloc, job>>

\* Another day passes; no pass and no backend call takes that long.
Age(m) ==
  /\ expired[m] /\ ~aged[m]
  /\ pc[m] \in Over /\ ~late[m]
  /\ aged' = [aged EXCEPT ![m] = TRUE]
  /\ UNCHANGED <<pass, backend, tables, claims, expired, dealloc, job>>

Next ==
  \/ \E m \in Matches :
       \/ Worker(m) \/ Poll(m) \/ Drift(m) \/ Crash(m)
       \/ LateCall(m) \/ Expire(m) \/ Age(m)
  \/ GC
  \/ GCDies

Spec == Init /\ [][Next]_vars

(***************************************************************************)
(* Fairness.  A worker runs until it returns or dies, a backend call ends, *)
(* and time passes.  River keeps running the job, which may fail any       *)
(* number of times, but not for ever: at some point the database and a     *)
(* backend answer it from then on.  (A job that dies with nothing left to  *)
(* do has ended.)                                                          *)
(***************************************************************************)
JobFails == (GCDies /\ ~GCEnd) \/ \E m \in Matches : DeallocateFails("gc", m)

Fairness ==
  /\ \A m \in Matches : /\ WF_vars(Worker(m)) /\ WF_vars(LateCall(m))
                        /\ WF_vars(Expire(m)) /\ WF_vars(Age(m))
  /\ WF_vars(GC)
  /\ <>[][~JobFails]_vars

-----------------------------------------------------------------------------
(* Properties. *)

\* MatchHasServer: a match that was claimed keeps its server, and so does,
\* until it expires, one that a player was sent or can still collect.  Neither
\* the retention job, nor a release of some other pass, nor a worker that
\* straddles the expiry or dies between the delivery and the claim takes it
\* away.  (Past its expiry a match that was delivered and never claimed has
\* nothing to tell the job that it is in use.)
MatchHasServer ==
  \A m \in Matches :
    \/ m \in served
    \/ ~expired[m] /\ (m \in handed \/ row[m] = "unclaimed")
    => ref[m] \in running[m]

\* WorkIsTracked: whatever a worker dies in the middle of, an allocation row
\* that may stand for a running server is reachable from a resolution row or
\* from an unclaimed match row until a claim of the match is recorded, so that
\* one of the retention job's two scans finds it.
WorkIsTracked ==
  \A m \in Matches :
    alloc[m] \in Unreleased /\ m \notin served
      => resolution[m] = "open" \/ row[m] = "unclaimed"

\* A match at rest: no server runs for it unless its claim was recorded, and
\* neither its resolution nor its match row is kept.
Settled(m) ==
  /\ running[m] = {} \/ m \in served
  /\ resolution[m] # "open"
  /\ row[m] \in {"none", "gone"}

\* ServersSettle: every match comes to rest.  Every server the backend runs is
\* released in the end, unless its match was claimed: after a crash between
\* any two steps, a failed or interrupted backend call, a commit whose answer
\* was lost, or a match nobody collects; and the rows kept for recovery do not
\* stay for ever.
ServersSettle == \A m \in Matches : []<>Settled(m)

\* DiscardsOnlyUncommitted: what worker.go says of discardOrphanMatch: it
\* releases a server whose tickets never committed.
DiscardsOnlyUncommitted ==
  \A m \in Matches : pc[m] = "discard" => tickets[m] # "matched"
=============================================================================
