-------------------------- MODULE LifecycleProofs --------------------------
(***************************************************************************)
(* For any finite set of upgrade requests: the drain never misses admitted *)
(* work, the gate follows the controller's state, no open socket escapes   *)
(* CloseAll, and a process that is exiting never returns to service.       *)
(***************************************************************************)
EXTENDS Lifecycle, FiniteSetTheorems, TLAPS

\* The handlers Gate.entered counts.
Inside == {u \in Upgrades : handler[u] # "idle"}

\* Every handler between Enter's first step and Leave is counted exactly once.
CountExact == entered = Cardinality(Inside)

\* Past the first critical section of Shutdown the process is exiting.
ExitHeld ==
  /\ shuttingDown => state \in {"draining", "stopping"}
  /\ main # "serving" => shuttingDown
  /\ remaining = 0 => shuttingDown

\* A poll that read a zero count read it with no handler past the gate.
ZeroSampleIsIdle ==
  main = "polling" /\ sampled = 0 => \A u \in Upgrades : handler[u] \notin Live

\* A late socket learns of CloseAll from the flag.
ClosingSet == main \in {"closewait", "exited"} => closing

\* The inductive invariant.
IInv ==
  /\ LifecycleTypeOK
  /\ CountExact
  /\ ExitHeld
  /\ GateFollowsState
  /\ ZeroSampleIsIdle
  /\ DrainNeverMissesWork
  /\ ClosingSet
  /\ NoSocketMissesCloseAll

\* Inside is finite, so its cardinality is a number, and it is empty when zero.
LEMMA InsideFinite ==
  /\ IsFiniteSet(Inside)
  /\ Cardinality(Inside) \in Nat
  /\ Cardinality(Inside) = 0 <=> Inside = {}
<1>1. Inside \in SUBSET Upgrades
  BY DEF Inside
<1>2. IsFiniteSet(Inside)
  BY <1>1, UpgradesFinite, FS_Subset
<1>3. Cardinality(Inside) \in Nat
  BY <1>2, FS_CardinalityType
<1> QED
  BY <1>2, <1>3, FS_EmptySet

\* A handler that starts or ends moves the count by one; any other step of a
\* handler leaves the counted set alone.
LEMMA InsideMoves ==
  ASSUME LifecycleTypeOK, NEW u \in Upgrades, NEW step \in HandlerStep, To(u, step)
  PROVE  /\ handler' \in [Upgrades -> HandlerStep]
         /\ handler[u] = "idle" /\ step # "idle" => Cardinality(Inside') = Cardinality(Inside) + 1
         /\ handler[u] # "idle" /\ step = "idle" => Cardinality(Inside') = Cardinality(Inside) - 1
         /\ handler[u] # "idle" /\ step # "idle" => Inside' = Inside
<1>1. handler' \in [Upgrades -> HandlerStep]
  BY DEF LifecycleTypeOK, To
<1>2. \A v \in Upgrades : handler'[v] = IF v = u THEN step ELSE handler[v]
  BY DEF LifecycleTypeOK, To
<1>3. ASSUME handler[u] = "idle", step # "idle"
      PROVE  Cardinality(Inside') = Cardinality(Inside) + 1
  <2>1. Inside' = Inside \union {u} /\ u \notin Inside
    BY <1>2, <1>3 DEF Inside
  <2> QED
    BY <2>1, InsideFinite, FS_AddElement
<1>4. ASSUME handler[u] # "idle", step = "idle"
      PROVE  Cardinality(Inside') = Cardinality(Inside) - 1
  <2>1. Inside' = Inside \ {u} /\ u \in Inside
    BY <1>2, <1>4 DEF Inside
  <2> QED
    BY <2>1, InsideFinite, FS_RemoveElement
<1>5. ASSUME handler[u] # "idle", step # "idle"
      PROVE  Inside' = Inside
  BY <1>2, <1>5 DEF Inside
<1> QED
  BY <1>1, <1>3, <1>4, <1>5

\* A new process, not yet ready and with no handler, satisfies the invariant.
LEMMA InitIInv == LifecycleInit => IInv
<1> SUFFICES ASSUME LifecycleInit PROVE IInv
  OBVIOUS
<1>1. LifecycleTypeOK
  <2>1. requests \in 0..MaxHTTP /\ remaining \in Int
    BY MaxHTTPNat DEF LifecycleInit, NoResult
  <2> QED
    BY <2>1 DEF LifecycleInit, LifecycleTypeOK, HandlerStep
<1>2. CountExact
  <2>1. Inside = {}
    BY DEF LifecycleInit, Inside
  <2> QED
    BY <2>1, FS_EmptySet DEF CountExact, LifecycleInit
<1> QED
  BY <1>1, <1>2 DEF LifecycleInit, IInv, ExitHeld, GateFollowsState, ZeroSampleIsIdle,
     DrainNeverMissesWork, ClosingSet, NoSocketMissesCloseAll, NoResult

\* The steps of the controller and of main: no handler moves.
LEMMA ControlStep ==
  ASSUME IInv, Controls \/ ExitPath
  PROVE  IInv'
<1> USE DEF IInv, controller, gate, shutdown
<1>0. UNCHANGED <<entered, handler, requests>>
  BY DEF Controls, ExitPath, MarkReady, DrainProcess, Resume, BeginShutdown, PollSockets,
     PollIdle, PollTimeout, PollTick, StopProcess, CloseAll, CloseAllReturn
<1>1. CountExact'
  <2>1. Inside' = Inside
    BY <1>0 DEF Inside
  <2> QED
    BY <1>0, <2>1 DEF CountExact
<1>2. CASE MarkReady
  BY <1>0, <1>1, <1>2 DEF MarkReady, LifecycleTypeOK, ExitHeld, GateFollowsState, ZeroSampleIsIdle,
     DrainNeverMissesWork, ClosingSet, NoSocketMissesCloseAll
<1>3. CASE DrainProcess
  BY <1>0, <1>1, <1>3 DEF DrainProcess, BeginDrainLocked, LifecycleTypeOK, ExitHeld, GateFollowsState,
     ZeroSampleIsIdle, DrainNeverMissesWork, ClosingSet, NoSocketMissesCloseAll
<1>4. CASE Resume
  BY <1>0, <1>1, <1>4 DEF Resume, LifecycleTypeOK, ExitHeld, GateFollowsState,
     ZeroSampleIsIdle, DrainNeverMissesWork, ClosingSet, NoSocketMissesCloseAll
<1>5. CASE BeginShutdown
  BY <1>0, <1>1, <1>5 DEF BeginShutdown, BeginDrainLocked, LifecycleTypeOK, ExitHeld, GateFollowsState,
     ZeroSampleIsIdle, DrainNeverMissesWork, ClosingSet, NoSocketMissesCloseAll
<1>6. CASE PollSockets
  <2>1. entered = 0 => \A u \in Upgrades : handler[u] \notin Live
    BY InsideFinite DEF CountExact, Inside, Live
  <2> QED
    BY <1>0, <1>1, <1>6, <2>1 DEF PollSockets, LifecycleTypeOK, ExitHeld, GateFollowsState,
       ZeroSampleIsIdle, DrainNeverMissesWork, ClosingSet, NoSocketMissesCloseAll
<1>7. CASE PollIdle
  <2>1. sampled = 0
    BY <1>7, MaxHTTPNat DEF PollIdle, ActiveWork, LifecycleTypeOK
  <2> QED
    BY <1>0, <1>1, <1>7, <2>1 DEF PollIdle, LifecycleTypeOK, ExitHeld, GateFollowsState,
       ZeroSampleIsIdle, DrainNeverMissesWork, ClosingSet, NoSocketMissesCloseAll
<1>8. CASE PollTimeout
  <2>1. remaining' \in Int /\ remaining' # 0
    BY <1>8, MaxHTTPNat DEF PollTimeout, ActiveWork, LifecycleTypeOK
  <2> QED
    BY <1>0, <1>1, <1>8, <2>1 DEF PollTimeout, LifecycleTypeOK, ExitHeld, GateFollowsState,
       ZeroSampleIsIdle, DrainNeverMissesWork, ClosingSet, NoSocketMissesCloseAll
<1>9. CASE PollTick
  BY <1>0, <1>1, <1>9 DEF PollTick, LifecycleTypeOK, ExitHeld, GateFollowsState,
     ZeroSampleIsIdle, DrainNeverMissesWork, ClosingSet, NoSocketMissesCloseAll
<1>10. CASE StopProcess
  BY <1>0, <1>1, <1>10 DEF StopProcess, LifecycleTypeOK, ExitHeld, GateFollowsState,
     ZeroSampleIsIdle, DrainNeverMissesWork, ClosingSet, NoSocketMissesCloseAll
<1>11. CASE CloseAll
  BY <1>0, <1>1, <1>11 DEF CloseAll, LifecycleTypeOK, ExitHeld, GateFollowsState,
     ZeroSampleIsIdle, DrainNeverMissesWork, ClosingSet, NoSocketMissesCloseAll
<1>12. CASE CloseAllReturn
  BY <1>0, <1>1, <1>12 DEF CloseAllReturn, LifecycleTypeOK, ExitHeld, GateFollowsState,
     ZeroSampleIsIdle, DrainNeverMissesWork, ClosingSet, NoSocketMissesCloseAll
<1> QED
  BY <1>2, <1>3, <1>4, <1>5, <1>6, <1>7, <1>8, <1>9, <1>10, <1>11, <1>12 DEF Controls, ExitPath

\* The steps of one handler.  Only EnterAdmit can put a handler past the gate,
\* and while the process is exiting the flag it reads is set.
LEMMA HandlerMove ==
  ASSUME IInv, NEW u \in Upgrades, Serve(u)
  PROVE  IInv'
<1> USE DEF IInv, controller, gate, shutdown
<1>0. UNCHANGED <<controller, draining, requests, shutdown, closing>>
  BY DEF Serve, Enter, EnterRaise, EnterAdmit, EnterRefuse, HandshakeFails, Track, Untrack, Leave
<1>1. ExitHeld' /\ GateFollowsState' /\ ClosingSet'
  BY <1>0 DEF ExitHeld, GateFollowsState, ClosingSet
<1>2. PICK step \in HandlerStep : To(u, step)
  BY DEF Serve, Enter, EnterRaise, EnterAdmit, EnterRefuse, HandshakeFails, Track, Untrack, Leave,
     HandlerStep
<1>3. handler' \in [Upgrades -> HandlerStep]
  BY <1>2, InsideMoves
<1>3a. \A v \in Upgrades : handler'[v] = IF v = u THEN step ELSE handler[v]
  BY <1>2 DEF To, LifecycleTypeOK
<1>4. CountExact' /\ entered' \in Nat
  <2>1. CASE EnterRaise(u)
    <3>1. entered' = entered + 1 /\ step # "idle" /\ handler[u] = "idle"
      BY <1>3a, <2>1 DEF EnterRaise, To, LifecycleTypeOK
    <3> QED
      BY <1>2, <3>1, InsideMoves DEF CountExact, LifecycleTypeOK
  <2>2. CASE EnterRefuse(u) \/ Leave(u)
    <3>1. entered' = entered - 1 /\ step = "idle" /\ handler[u] # "idle"
      BY <1>3a, <2>2 DEF EnterRefuse, Leave, To, LifecycleTypeOK
    <3>2. entered # 0
      BY <3>1, InsideFinite DEF CountExact, Inside
    <3> QED
      BY <1>2, <3>1, <3>2, InsideMoves DEF CountExact, LifecycleTypeOK
  <2>3. CASE EnterAdmit(u) \/ HandshakeFails(u) \/ Track(u) \/ Untrack(u)
    <3>1. entered' = entered /\ step # "idle" /\ handler[u] # "idle"
      BY <1>3a, <2>3 DEF EnterAdmit, HandshakeFails, Track, Untrack, To, LifecycleTypeOK
    <3> QED
      BY <1>2, <3>1, InsideMoves DEF CountExact, LifecycleTypeOK
  <2> QED
    BY <2>1, <2>2, <2>3 DEF Serve, Enter
<1>5. closers' \subseteq Upgrades
  BY DEF Serve, Enter, EnterRaise, EnterAdmit, EnterRefuse, HandshakeFails, Track, Untrack, Leave, LifecycleTypeOK
<1>6. LifecycleTypeOK'
  BY <1>0, <1>3, <1>4, <1>5 DEF LifecycleTypeOK
<1>7. shuttingDown => (handler'[u] \in Live => handler[u] \in Live)
  BY <1>3a DEF ExitHeld, GateFollowsState, LifecycleTypeOK, Live, To,
     Serve, Enter, EnterRaise, EnterAdmit, EnterRefuse, HandshakeFails, Track, Untrack, Leave
<1>8. ZeroSampleIsIdle' /\ DrainNeverMissesWork'
  BY <1>0, <1>3a, <1>7 DEF ZeroSampleIsIdle, DrainNeverMissesWork, ExitHeld
<1>9. NoSocketMissesCloseAll'
  BY <1>0, <1>3a DEF NoSocketMissesCloseAll, ClosingSet, LifecycleTypeOK, To,
     Serve, Enter, EnterRaise, EnterAdmit, EnterRefuse, HandshakeFails, Track, Untrack, Leave
<1> QED
  BY <1>1, <1>4, <1>6, <1>8, <1>9

\* Every step of the controller, the exit path, a handler or a request keeps it.
LEMMA NextIInv == IInv /\ [LifecycleNext]_lcVars => IInv'
<1> SUFFICES ASSUME IInv, [LifecycleNext]_lcVars PROVE IInv'
  OBVIOUS
<1>1. CASE Controls \/ ExitPath
  BY <1>1, ControlStep
<1>2. CASE \E u \in Upgrades : Serve(u)
  BY <1>2, HandlerMove
<1>3. CASE RequestBegins \/ RequestEnds \/ UNCHANGED lcVars
  <2>1. UNCHANGED <<controller, gate, shutdown, closing, closers>> /\ requests' \in 0..MaxHTTP
    BY <1>3, MaxHTTPNat DEF RequestBegins, RequestEnds, lcVars, IInv, LifecycleTypeOK
  <2>2. Inside' = Inside
    BY <2>1 DEF Inside, gate
  <2> QED
    BY <2>1, <2>2 DEF controller, gate, shutdown, IInv, LifecycleTypeOK, CountExact, ExitHeld, GateFollowsState,
       ZeroSampleIsIdle, DrainNeverMissesWork, ClosingSet, NoSocketMissesCloseAll
<1> QED
  BY <1>1, <1>2, <1>3 DEF LifecycleNext

\* The inductive invariant holds in every reachable state of the process.
THEOREM InductiveInvariant == LifecycleSpec => []IInv
<1> QED
  BY InitIInv, NextIInv, PTL DEF LifecycleSpec

\* Once the SIGTERM wait has reported an idle process, no realtime handler is
\* past the gate (Gate.Enter and Controller.waitForIdle), for any number of
\* upgrade requests.
THEOREM DrainSound == LifecycleSpec => []DrainNeverMissesWork
<1>1. IInv => DrainNeverMissesWork
  BY DEF IInv
<1> QED
  BY <1>1, InductiveInvariant, PTL

\* The gate is shut exactly while the controller is draining or stopping
\* (Drain, Resume, MarkReady, Shutdown).
THEOREM GateSound == LifecycleSpec => []GateFollowsState
<1>1. IInv => GateFollowsState
  BY DEF IInv
<1> QED
  BY <1>1, InductiveInvariant, PTL

\* After CloseAll every open socket is being closed (Drain.track, CloseAll).
THEOREM CloseAllSound == LifecycleSpec => []NoSocketMissesCloseAll
<1>1. IInv => NoSocketMissesCloseAll
  BY DEF IInv
<1> QED
  BY <1>1, InductiveInvariant, PTL

\* A process in shutdown never goes back to starting or active, and stopping
\* is final (Resume, MarkReady, Drain racing Shutdown).
THEOREM ExitIsFinal == LifecycleSpec => NoReturnToService
<1>1. IInv /\ [LifecycleNext]_lcVars
        => [shuttingDown => /\ state' \in {"draining", "stopping"}
                            /\ state = "stopping" => state' = "stopping"]_lcVars
  <2> SUFFICES ASSUME IInv, LifecycleNext, shuttingDown
               PROVE  /\ state' \in {"draining", "stopping"}
                      /\ state = "stopping" => state' = "stopping"
    OBVIOUS
  <2>1. state \in {"draining", "stopping"}
    BY DEF IInv, ExitHeld
  <2>2. CASE Controls \/ ExitPath
    BY <2>1, <2>2 DEF Controls, ExitPath, MarkReady, DrainProcess, Resume, BeginShutdown, BeginDrainLocked,
       PollSockets, PollIdle, PollTimeout, PollTick, StopProcess, CloseAll, CloseAllReturn,
       IInv, GateFollowsState, controller
  <2>3. CASE RequestBegins \/ RequestEnds \/ \E u \in Upgrades : Serve(u)
    BY <2>1, <2>3 DEF RequestBegins, RequestEnds, controller, Serve, Enter, EnterRaise, EnterAdmit,
       EnterRefuse, HandshakeFails, Track, Untrack, Leave
  <2> QED
    BY <2>2, <2>3 DEF LifecycleNext
<1> QED
  BY <1>1, InductiveInvariant, PTL DEF LifecycleSpec, NoReturnToService
=============================================================================
