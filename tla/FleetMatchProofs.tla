-------------------------- MODULE FleetMatchProofs --------------------------
(***************************************************************************)
(* Proofs about FleetMatch, for any number of passes, players and retries, *)
(* with or without a backend that can clean up by label, with passes that  *)
(* straddle their expiry.                                                  *)
(*                                                                         *)
(* WorkIsTracked and MatchHasServer are not inductive: whether a release   *)
(* may touch a server depends on where the worker and the job stand.       *)
(* StepsSound ties the worker's step to the rows it has written so far,    *)
(* JobSound the job's lists and its current release to what they were      *)
(* built from, and ServerSound follows the server from the backend call to *)
(* the match row.                                                          *)
(***************************************************************************)
EXTENDS FleetMatch, TLAPS

\* Steps at which the resolution row is certain to be there.
Resolving == {"insert", "call", "mark", "unmark", "fail", "commit", "orphan"}

\* StepsSound: what the worker's step says about the rows.
StepsSound ==
  \A m \in Matches :
    /\ pc[m] \in Resolving => resolution[m] = "open"
    /\ pc[m] = "discard" => resolution[m] = "open" \/ tickets[m] = "matched"
    /\ pc[m] \in {"idle", "begin", "insert"} => alloc[m] = "none"
    /\ pc[m] \in {"idle", "begin"} => resolution[m] = "none"
    /\ tickets[m] # "matched" => row[m] = "none" /\ m \notin handed \union served
    /\ tickets[m] = "matched" => /\ pc[m] \in {"discard", "notify", "claim"} \union Over
                                 /\ alloc[m] # "none"
                                 /\ resolution[m] = "gone"
                                 /\ row[m] # "none"
    /\ row[m] = "unclaimed" => m \notin served
    /\ row[m] = "claimed" => m \in served
    /\ aged[m] => pc[m] \in Over
    /\ dealloc["worker"][m] \in {"get", "clean", "release"}
         => pc[m] \in {"orphan", "discard"}
    /\ dealloc["worker"][m] # "no" => alloc[m] # "none"
    /\ dealloc["worker"][m] = "ok" => alloc[m] = "shutdown"
    /\ pc[m] \in {"notify", "claim"} => tickets[m] = "matched"
    /\ pc[m] \in {"commit", "orphan", "discard", "notify", "claim"} => alloc[m] # "none"

\* JobSound: the job lists only what has expired and was never claimed, and is
\* releasing something it listed.
JobSound ==
  \A m \in Matches :
    /\ m \in doomed \union stale => expired[m] /\ m \notin served
    /\ m \in doomed => tickets[m] = "matched"
    /\ m \in stale => resolution[m] # "none"
    /\ dealloc["gc"][m] # "no" => \/ gc = "resolutions" /\ m \in stale
                                  \/ gc = "matches" /\ m \in doomed
    /\ gc = "matches" /\ dealloc["gc"][m] = "ok" => alloc[m] = "shutdown"
    /\ dealloc["gc"][m] \in {"get", "clean", "release"} => alloc[m] # "none"

\* ServerSound: from the backend call that created it until its match is
\* claimed, only an expiry can cost a pass its server, provided that no
\* commit is taken for a failure.
ServerSound ==
  \A m \in Matches :
    /\ pc[m] = "discard" => tickets[m] # "matched"
    /\ pc[m] \in {"mark", "commit"} => attempt[m] \in running[m] \/ expired[m]
    /\ pc[m] = "commit" => ref[m] = attempt[m]
    /\ tickets[m] = "matched" => ref[m] \in running[m] \/ expired[m]
    /\ m \in served => ref[m] \in running[m]

IInv == TypeOK /\ StepsSound /\ JobSound /\ WorkIsTracked

SInv == IInv /\ ServerSound

-----------------------------------------------------------------------------
(* The invariant behind WorkIsTracked. *)

\* No pass has begun and the job is idle.
LEMMA InitialState == Init => IInv
PROOF
  BY RosterAssumption, BoundsAssumption, FlagsAssumption
  DEF Init, IInv, TypeOK, StepsSound, JobSound, WorkIsTracked, Resolving,
      Attempts, NoRef, Over, WorkerStep, Unreleased, Callers, DeallocateStep

\* Every step of a worker, of a release, of the job and of the environment
\* keeps the invariant.
LEMMA InvariantStep == IInv /\ [Next]_vars => IInv'
PROOF
  <1> SUFFICES ASSUME IInv, [Next]_vars PROVE IInv'
    OBVIOUS
  <1> USE RosterAssumption, BoundsAssumption, FlagsAssumption
      DEF IInv, TypeOK, StepsSound, JobSound, WorkIsTracked, Resolving,
          Attempts, NoRef, Over, WorkerStep, Unreleased, Callers, DeallocateStep,
          vars, pass, backend, tables, claims, clock, job
  <1>1. ASSUME NEW n \in Matches, NewMatch(n) PROVE IInv'
    BY <1>1 DEF NewMatch, Goto
  <1>2. ASSUME NEW n \in Matches, BeginResolution(n) PROVE IInv'
    BY <1>2 DEF BeginResolution, Goto
  <1>3. ASSUME NEW n \in Matches, BeginFails(n) PROVE IInv'
    BY <1>3 DEF BeginFails, Goto
  <1>4. ASSUME NEW n \in Matches, InsertPending(n) PROVE IInv'
    BY <1>4 DEF InsertPending, Goto
  <1>5. ASSUME NEW n \in Matches, InsertFails(n) PROVE IInv'
    BY <1>5 DEF InsertFails, Goto
  <1>6. ASSUME NEW n \in Matches, AllocateSucceeds(n) PROVE IInv'
    BY <1>6 DEF AllocateSucceeds, Goto
  <1>7. ASSUME NEW n \in Matches, AllocateFails(n) PROVE IInv'
    <2>1. CASE UNCHANGED running
      BY <1>7, <2>1 DEF AllocateFails, Goto
    <2>2. CASE running' = [running EXCEPT ![n] = @ \union {attempt[n]}]
      BY <1>7, <2>2 DEF AllocateFails, Goto
    <2> QED
      BY <1>7, <2>1, <2>2 DEF AllocateFails
  <1>8. ASSUME NEW n \in Matches, BackoffCancelled(n) PROVE IInv'
    BY <1>8 DEF BackoffCancelled, Goto
  <1>9. ASSUME NEW n \in Matches, MarkReady(n) PROVE IInv'
    BY <1>9 DEF MarkReady, Goto
  <1>10. ASSUME NEW n \in Matches, MarkReadyFails(n) PROVE IInv'
    BY <1>10, SMTT(60) DEF MarkReadyFails, Goto
  <1>11. ASSUME NEW n \in Matches, Unmark(n) PROVE IInv'
    BY <1>11 DEF Unmark, Goto
  <1>12. ASSUME NEW n \in Matches, MarkFailed(n) PROVE IInv'
    BY <1>12 DEF MarkFailed, Goto
  <1>13. ASSUME NEW n \in Matches, CommitOverCap(n) PROVE IInv'
    BY <1>13 DEF CommitOverCap, Cleanup
  <1>14. ASSUME NEW n \in Matches, CommitMatch(n) PROVE IInv'
    <2>1. CASE pc' = [pc EXCEPT ![n] = "notify"] /\ UNCHANGED dealloc
      BY <1>14, <2>1 DEF CommitMatch
    <2>2. CASE LostAnswers /\ Cleanup(n, "discard")
      BY <1>14, <2>2 DEF CommitMatch, Cleanup
    <2> QED
      BY <1>14, <2>1, <2>2 DEF CommitMatch
  <1>15. ASSUME NEW n \in Matches, CommitFails(n) PROVE IInv'
    BY <1>15 DEF CommitFails, Cleanup
  <1>16. ASSUME NEW n \in Matches, OrphanReleased(n) PROVE IInv'
    BY <1>16 DEF OrphanReleased, Goto
  <1>17. ASSUME NEW n \in Matches, DiscardMatch(n) PROVE IInv'
    BY <1>17 DEF DiscardMatch, Goto
  <1>18. ASSUME NEW n \in Matches, Notify(n) PROVE IInv'
    BY <1>18 DEF Notify, Goto
  <1>19. ASSUME NEW n \in Matches, Poll(n) PROVE IInv'
    BY <1>19 DEF Poll, ClaimMatch
  <1>20. ASSUME NEW n \in Matches, Drift(n) PROVE IInv'
    BY <1>20 DEF Drift
  <1>21. ASSUME NEW n \in Matches, Crash(n) PROVE IInv'
    BY <1>21 DEF Crash
  <1>22. ASSUME NEW n \in Matches, LateCall(n) PROVE IInv'
    BY <1>22 DEF LateCall
  <1>23. ASSUME NEW n \in Matches, Expire(n) PROVE IInv'
    BY <1>23 DEF Expire
  <1>24. ASSUME NEW n \in Matches, Age(n) PROVE IInv'
    BY <1>24 DEF Age
  <1>25. ASSUME NEW n \in Matches, CleanResolution(n) PROVE IInv'
    BY <1>25 DEF CleanResolution, NeedsCleanup, Busy
  <1>26. ASSUME NEW n \in Matches, CleanResolutionEnd(n) PROVE IInv'
    BY <1>26 DEF CleanResolutionEnd, Forgettable
  <1>27. ASSUME NEW n \in Matches, ReleaseMatch(n) PROVE IInv'
    BY <1>27 DEF ReleaseMatch, Busy
  <1>28. ASSUME NEW n \in Matches, ReleaseMatchEnd(n) PROVE IInv'
    BY <1>28 DEF ReleaseMatchEnd, ExpiredUnclaimed
  <1>29. ASSUME NEW c \in Callers, NEW n \in Matches, DeallocateGet(c, n) PROVE IInv'
    BY <1>29 DEF DeallocateGet, DeallocateAt
  <1>30. ASSUME NEW c \in Callers, NEW n \in Matches, DeallocateClean(c, n) PROVE IInv'
    BY <1>30 DEF DeallocateClean, DeallocateAt
  <1>31. ASSUME NEW c \in Callers, NEW n \in Matches, DeallocateRelease(c, n) PROVE IInv'
    BY <1>31 DEF DeallocateRelease, DeallocateAt
  <1>32. ASSUME NEW c \in Callers, NEW n \in Matches, DeallocateFails(c, n) PROVE IInv'
    <2>1. PICK from \in {"get", "clean", "release"} : DeallocateAt(c, n, from, "failed")
      BY <1>32 DEF DeallocateFails
    <2>2. CASE UNCHANGED running
      BY <1>32, <2>1, <2>2 DEF DeallocateFails, DeallocateAt
    <2>3. CASE /\ dealloc[c][n] = "clean" /\ Cleaner
               /\ \E left \in SUBSET running[n] : running' = [running EXCEPT ![n] = left]
      <3>1. PICK left \in SUBSET running[n] : running' = [running EXCEPT ![n] = left]
        BY <2>3
      <3> QED
        BY <1>32, <2>1, <2>3, <3>1 DEF DeallocateFails, DeallocateAt
    <2> QED
      BY <1>32, <2>2, <2>3 DEF DeallocateFails
  <1>33. ASSUME GCStart PROVE IInv'
    BY <1>33 DEF GCStart, ExpiredUnclaimed
  <1>34. ASSUME ResolutionsStart PROVE IInv'
    BY <1>34 DEF ResolutionsStart
  <1>35. ASSUME ResolutionsEnd PROVE IInv'
    BY <1>35 DEF ResolutionsEnd
  <1>36. ASSUME GCEnd PROVE IInv'
    BY <1>36 DEF GCEnd
  <1>37. ASSUME GCDies PROVE IInv'
    BY <1>37 DEF GCDies
  <1>38. ASSUME UNCHANGED vars PROVE IInv'
    BY <1>38
  <1>39. ASSUME NEW n \in Matches, ClaimDelivered(n) PROVE IInv'
    BY <1>39 DEF ClaimDelivered, ClaimMatch, Goto
  <1> QED
    BY <1>1, <1>2, <1>3, <1>4, <1>5, <1>6, <1>7, <1>8, <1>9, <1>10, <1>11, <1>12, <1>13, <1>14, <1>15, <1>16, <1>17, <1>18, <1>19, <1>20, <1>21, <1>22, <1>23, <1>24, <1>25, <1>26, <1>27, <1>28, <1>29, <1>30, <1>31, <1>32, <1>33, <1>34, <1>35, <1>36, <1>37, <1>38, <1>39
    DEF Next, Worker, Deallocate, GC

\* InductiveInvariant: the invariant holds in every reachable state of the
\* dedicated-server path.
THEOREM InductiveInvariant == Spec => []IInv
PROOF
  <1>1. Init => IInv
    BY InitialState
  <1>2. IInv /\ [Next]_vars => IInv'
    BY InvariantStep
  <1> QED
    BY <1>1, <1>2, PTL DEF Spec

\* TrackingSound: whatever a worker dies in the middle of, and whether or not
\* the answers of its transactions are lost, an allocation whose match was
\* never claimed is found by one of the retention job's scans.
THEOREM TrackingSound == Spec => []WorkIsTracked
PROOF
  <1>1. IInv => WorkIsTracked
    BY DEF IInv
  <1> QED
    BY <1>1, InductiveInvariant, PTL

-----------------------------------------------------------------------------
(* The invariant behind MatchHasServer, when no answer is lost. *)

\* ServerSound holds before the first pass and is kept by every step.
LEMMA ServerStep ==
  ASSUME ~LostAnswers
  PROVE  /\ Init => ServerSound
         /\ SInv /\ [Next]_vars => ServerSound'
PROOF
  <1>0. Init => ServerSound
    BY DEF Init, ServerSound
  <1> SUFFICES ASSUME SInv, [Next]_vars PROVE ServerSound'
    BY <1>0
  <1> USE RosterAssumption, BoundsAssumption, FlagsAssumption
      DEF SInv, IInv, TypeOK, StepsSound, JobSound, ServerSound, Resolving,
          Attempts, NoRef, Over, WorkerStep, Unreleased, Callers, DeallocateStep,
          vars, pass, backend, tables, claims, clock, job
  <1>1. ASSUME NEW n \in Matches, NewMatch(n) PROVE ServerSound'
    BY <1>1 DEF NewMatch, Goto
  <1>2. ASSUME NEW n \in Matches, BeginResolution(n) PROVE ServerSound'
    BY <1>2 DEF BeginResolution, Goto
  <1>3. ASSUME NEW n \in Matches, BeginFails(n) PROVE ServerSound'
    BY <1>3 DEF BeginFails, Goto
  <1>4. ASSUME NEW n \in Matches, InsertPending(n) PROVE ServerSound'
    BY <1>4 DEF InsertPending, Goto
  <1>5. ASSUME NEW n \in Matches, InsertFails(n) PROVE ServerSound'
    BY <1>5 DEF InsertFails, Goto
  <1>6. ASSUME NEW n \in Matches, AllocateSucceeds(n) PROVE ServerSound'
    BY <1>6 DEF AllocateSucceeds, Goto
  <1>7. ASSUME NEW n \in Matches, AllocateFails(n) PROVE ServerSound'
    <2>1. CASE UNCHANGED running
      BY <1>7, <2>1 DEF AllocateFails, Goto
    <2>2. CASE running' = [running EXCEPT ![n] = @ \union {attempt[n]}]
      BY <1>7, <2>2 DEF AllocateFails, Goto
    <2> QED
      BY <1>7, <2>1, <2>2 DEF AllocateFails
  <1>8. ASSUME NEW n \in Matches, BackoffCancelled(n) PROVE ServerSound'
    BY <1>8 DEF BackoffCancelled, Goto
  <1>9. ASSUME NEW n \in Matches, MarkReady(n) PROVE ServerSound'
    BY <1>9 DEF MarkReady, Goto
  <1>10. ASSUME NEW n \in Matches, MarkReadyFails(n) PROVE ServerSound'
    BY <1>10 DEF MarkReadyFails, Goto
  <1>11. ASSUME NEW n \in Matches, Unmark(n) PROVE ServerSound'
    BY <1>11 DEF Unmark, Goto
  <1>12. ASSUME NEW n \in Matches, MarkFailed(n) PROVE ServerSound'
    BY <1>12 DEF MarkFailed, Goto
  <1>13. ASSUME NEW n \in Matches, CommitOverCap(n) PROVE ServerSound'
    BY <1>13 DEF CommitOverCap, Cleanup
  <1>14. ASSUME NEW n \in Matches, CommitMatch(n) PROVE ServerSound'
    <2>1. CASE pc' = [pc EXCEPT ![n] = "notify"] /\ UNCHANGED dealloc
      BY <1>14, <2>1 DEF CommitMatch
    <2>2. CASE LostAnswers /\ Cleanup(n, "discard")
      BY <1>14, <2>2 DEF CommitMatch, Cleanup
    <2> QED
      BY <1>14, <2>1, <2>2 DEF CommitMatch
  <1>15. ASSUME NEW n \in Matches, CommitFails(n) PROVE ServerSound'
    BY <1>15 DEF CommitFails, Cleanup
  <1>16. ASSUME NEW n \in Matches, OrphanReleased(n) PROVE ServerSound'
    BY <1>16 DEF OrphanReleased, Goto
  <1>17. ASSUME NEW n \in Matches, DiscardMatch(n) PROVE ServerSound'
    BY <1>17 DEF DiscardMatch, Goto
  <1>18. ASSUME NEW n \in Matches, Notify(n) PROVE ServerSound'
    BY <1>18 DEF Notify, Goto
  <1>19. ASSUME NEW n \in Matches, Poll(n) PROVE ServerSound'
    BY <1>19 DEF Poll, ClaimMatch
  <1>20. ASSUME NEW n \in Matches, Drift(n) PROVE ServerSound'
    BY <1>20 DEF Drift
  <1>21. ASSUME NEW n \in Matches, Crash(n) PROVE ServerSound'
    BY <1>21 DEF Crash
  <1>22. ASSUME NEW n \in Matches, LateCall(n) PROVE ServerSound'
    BY <1>22 DEF LateCall
  <1>23. ASSUME NEW n \in Matches, Expire(n) PROVE ServerSound'
    BY <1>23 DEF Expire
  <1>24. ASSUME NEW n \in Matches, Age(n) PROVE ServerSound'
    BY <1>24 DEF Age
  <1>25. ASSUME NEW n \in Matches, CleanResolution(n) PROVE ServerSound'
    BY <1>25 DEF CleanResolution, NeedsCleanup, Busy
  <1>26. ASSUME NEW n \in Matches, CleanResolutionEnd(n) PROVE ServerSound'
    BY <1>26 DEF CleanResolutionEnd, Forgettable
  <1>27. ASSUME NEW n \in Matches, ReleaseMatch(n) PROVE ServerSound'
    BY <1>27 DEF ReleaseMatch, Busy
  <1>28. ASSUME NEW n \in Matches, ReleaseMatchEnd(n) PROVE ServerSound'
    BY <1>28 DEF ReleaseMatchEnd, ExpiredUnclaimed
  <1>29. ASSUME NEW c \in Callers, NEW n \in Matches, DeallocateGet(c, n) PROVE ServerSound'
    BY <1>29 DEF DeallocateGet, DeallocateAt
  <1>30. ASSUME NEW c \in Callers, NEW n \in Matches, DeallocateClean(c, n) PROVE ServerSound'
    BY <1>30 DEF DeallocateClean, DeallocateAt
  <1>31. ASSUME NEW c \in Callers, NEW n \in Matches, DeallocateRelease(c, n) PROVE ServerSound'
    BY <1>31 DEF DeallocateRelease, DeallocateAt
  <1>32. ASSUME NEW c \in Callers, NEW n \in Matches, DeallocateFails(c, n) PROVE ServerSound'
    <2>1. PICK from \in {"get", "clean", "release"} : DeallocateAt(c, n, from, "failed")
      BY <1>32 DEF DeallocateFails
    <2>2. CASE UNCHANGED running
      BY <1>32, <2>1, <2>2 DEF DeallocateFails, DeallocateAt
    <2>3. CASE /\ dealloc[c][n] = "clean" /\ Cleaner
               /\ \E left \in SUBSET running[n] : running' = [running EXCEPT ![n] = left]
      <3>1. PICK left \in SUBSET running[n] : running' = [running EXCEPT ![n] = left]
        BY <2>3
      <3> QED
        BY <1>32, <2>1, <2>3, <3>1 DEF DeallocateFails, DeallocateAt
    <2> QED
      BY <1>32, <2>2, <2>3 DEF DeallocateFails
  <1>33. ASSUME GCStart PROVE ServerSound'
    BY <1>33 DEF GCStart, ExpiredUnclaimed
  <1>34. ASSUME ResolutionsStart PROVE ServerSound'
    BY <1>34 DEF ResolutionsStart
  <1>35. ASSUME ResolutionsEnd PROVE ServerSound'
    BY <1>35 DEF ResolutionsEnd
  <1>36. ASSUME GCEnd PROVE ServerSound'
    BY <1>36 DEF GCEnd
  <1>37. ASSUME GCDies PROVE ServerSound'
    BY <1>37 DEF GCDies
  <1>38. ASSUME UNCHANGED vars PROVE ServerSound'
    BY <1>38
  <1>39. ASSUME NEW n \in Matches, ClaimDelivered(n) PROVE ServerSound'
    BY <1>39 DEF ClaimDelivered, ClaimMatch, Goto
  <1> QED
    BY <1>1, <1>2, <1>3, <1>4, <1>5, <1>6, <1>7, <1>8, <1>9, <1>10, <1>11, <1>12, <1>13, <1>14, <1>15, <1>16, <1>17, <1>18, <1>19, <1>20, <1>21, <1>22, <1>23, <1>24, <1>25, <1>26, <1>27, <1>28, <1>29, <1>30, <1>31, <1>32, <1>33, <1>34, <1>35, <1>36, <1>37, <1>38, <1>39
    DEF Next, Worker, Deallocate, GC

\* ServersOutliveMatches: when the database's answers arrive, a match that was
\* claimed has its server running, and so has, until it expires, one that a
\* player was sent, with or without a claim after the delivery, or can collect.
THEOREM ServersOutliveMatches ==
  ASSUME ~LostAnswers
  PROVE  Spec => []MatchHasServer
PROOF
  <1>1. Init => SInv
    BY InitialState, ServerStep DEF SInv
  <1>2. SInv /\ [Next]_vars => SInv'
    BY InvariantStep, ServerStep DEF SInv
  <1>3. SInv => MatchHasServer
    BY DEF SInv, IInv, StepsSound, TypeOK, ServerSound, MatchHasServer
  <1> QED
    BY <1>1, <1>2, <1>3, PTL DEF Spec

=============================================================================
