----------------------------- MODULE Lifecycle -----------------------------
(***************************************************************************)
(* The process lifecycle contract of internal/lifecycle as the API server  *)
(* uses it: the Controller (starting, active, draining, stopping), the     *)
(* admission Gate of the realtime socket handlers (internal/realtime       *)
(* drain.go), the in-flight HTTP counter, and the SIGTERM path             *)
(* drainRealtime: Shutdown, then CloseAll.                                 *)
(*                                                                         *)
(* A critical section of the Controller's mutex is one step.  Gate works   *)
(* with atomics only, so Enter is three steps (raise the count, read the   *)
(* flag, lower the count again when refused), and ActiveWork is two reads. *)
(***************************************************************************)
EXTENDS Integers, FiniteSets

CONSTANTS
  Upgrades,   \* the realtime upgrade requests, each a handler goroutine
  MaxHTTP     \* bound on plain HTTP requests in flight at once

ASSUME UpgradesFinite == IsFiniteSet(Upgrades)
ASSUME MaxHTTPNat == MaxHTTP \in Nat

VARIABLES
  state,         \* Controller.state
  isReady,       \* Controller.ready
  shuttingDown,  \* Controller.shuttingDown
  draining,      \* Gate.draining
  entered,       \* Gate.entered
  handler,       \* where each upgrade's handler is
  requests,      \* Inflight.n
  main,          \* where the SIGTERM path of main is
  sampled,       \* Realtime.Count() as read by the current ActiveWork call
  remaining,     \* what waitForIdle returned; NoResult before that
  closing,       \* Drain.closing
  closers        \* sockets a closeWith(GoingAway) goroutine has been started for

controller == <<state, isReady, shuttingDown>>
gate == <<draining, entered, handler>>
shutdown == <<main, sampled, remaining>>
lcVars == <<controller, gate, requests, shutdown, closing, closers>>

NoResult == -1

(***************************************************************************)
(* The steps of an upgrade's handler:                                      *)
(*   "idle"      not running                                               *)
(*   "raised"    Enter has raised the count and not yet read the flag      *)
(*   "refused"   Enter read a set flag and has not lowered the count       *)
(*   "admitted"  authenticating, taking its slots, accepting the socket    *)
(*   "open"      tracked by Drain and reading                              *)
(*   "cleanup"   out of Drain.conns, its other deferred calls running      *)
(***************************************************************************)
HandlerStep == {"idle", "raised", "refused", "admitted", "open", "cleanup"}

Live == {"admitted", "open", "cleanup"}

LifecycleTypeOK ==
  /\ state \in {"starting", "active", "draining", "stopping"}
  /\ isReady \in BOOLEAN
  /\ shuttingDown \in BOOLEAN
  /\ draining \in BOOLEAN
  /\ entered \in Nat
  /\ handler \in [Upgrades -> HandlerStep]
  /\ requests \in 0..MaxHTTP
  /\ main \in {"serving", "poll", "polling", "waited", "closeall", "closewait", "exited"}
  /\ sampled \in Nat
  /\ remaining \in Int
  /\ closing \in BOOLEAN
  /\ closers \subseteq Upgrades

LifecycleInit ==
  /\ state = "starting"
  /\ isReady = FALSE
  /\ shuttingDown = FALSE
  /\ draining = FALSE
  /\ entered = 0
  /\ handler = [u \in Upgrades |-> "idle"]
  /\ requests = 0
  /\ main = "serving"
  /\ sampled = 0
  /\ remaining = NoResult
  /\ closing = FALSE
  /\ closers = {}

-----------------------------------------------------------------------------
(* The Controller. *)

\* MarkReady that forgets a drain requested during startup.
MarkReadyAlways ==
  /\ ~isReady
  /\ isReady' = TRUE
  /\ state' = "active"
  /\ UNCHANGED <<shuttingDown, gate, requests, shutdown, closing, closers>>

MarkReady ==
  /\ ~isReady        \* main calls it once
  /\ isReady' = TRUE
  /\ state' = IF state = "starting" THEN "active" ELSE state
  /\ UNCHANGED <<shuttingDown, gate, requests, shutdown, closing, closers>>

\* beginDrainLocked: idempotent, and a no-op once stopping.
BeginDrainLocked ==
  IF state \in {"draining", "stopping"}
  THEN UNCHANGED <<state, draining>>
  ELSE state' = "draining" /\ draining' = TRUE

\* POST /lifecycle/drain
DrainProcess ==
  /\ BeginDrainLocked
  /\ UNCHANGED <<isReady, shuttingDown, entered, handler, requests, shutdown, closing, closers>>

\* Resume with the shuttingDown check left out.
ResumeWhileExiting ==
  /\ state = "draining"
  /\ draining' = FALSE
  /\ state' = IF isReady THEN "active" ELSE "starting"
  /\ UNCHANGED <<isReady, shuttingDown, entered, handler, requests, shutdown, closing, closers>>

\* POST /lifecycle/resume: refused (409) once Shutdown has started.
Resume ==
  /\ ~shuttingDown
  /\ state = "draining"
  /\ draining' = FALSE
  /\ state' = IF isReady THEN "active" ELSE "starting"
  /\ UNCHANGED <<isReady, shuttingDown, entered, handler, requests, shutdown, closing, closers>>

\* SIGTERM: the first critical section of Shutdown.
BeginShutdown ==
  /\ main = "serving"
  /\ shuttingDown' = TRUE
  /\ BeginDrainLocked
  /\ main' = "poll"
  /\ UNCHANGED <<isReady, entered, handler, requests, sampled, remaining, closing, closers>>

\* waitForIdle, ActiveWork: first Realtime.Count() ...
PollSockets ==
  /\ main = "poll"
  /\ sampled' = entered
  /\ main' = "polling"
  /\ UNCHANGED <<controller, gate, requests, remaining, closing, closers>>

\* ... then Inflight.Count(); the sum is the work left.
ActiveWork == sampled + requests

PollIdle ==
  /\ main = "polling"
  /\ ActiveWork <= 0
  /\ remaining' = 0
  /\ main' = "waited"
  /\ UNCHANGED <<controller, gate, requests, sampled, closing, closers>>

\* waitForIdle without its timeout.
PollTimeoutIgnored ==
  /\ main = "polling"
  /\ ActiveWork > 0
  /\ main' = "poll"
  /\ UNCHANGED <<controller, gate, requests, sampled, remaining, closing, closers>>

\* The drain timeout has elapsed: ctx.Done.
PollTimeout ==
  /\ main = "polling"
  /\ ActiveWork > 0
  /\ remaining' = ActiveWork
  /\ main' = "waited"
  /\ UNCHANGED <<controller, gate, requests, sampled, closing, closers>>

\* The next tick: sample again.
PollTick ==
  /\ main = "polling"
  /\ ActiveWork > 0
  /\ main' = "poll"
  /\ UNCHANGED <<controller, gate, requests, sampled, remaining, closing, closers>>

\* The second critical section of Shutdown.
StopProcess ==
  /\ main = "waited"
  /\ state' = "stopping"
  /\ main' = "closeall"
  /\ UNCHANGED <<isReady, shuttingDown, gate, requests, sampled, remaining, closing, closers>>

\* CloseAll forgets the flag a late socket looks at.
CloseAllNoFlag ==
  /\ main = "closeall"
  /\ closers' = closers \union {u \in Upgrades : handler[u] = "open"}
  /\ main' = "closewait"
  /\ UNCHANGED <<controller, gate, requests, sampled, remaining, closing>>

\* CloseAll: under Drain.mu set closing and list the open sockets, then close
\* each one from a goroutine of its own.
CloseAll ==
  /\ main = "closeall"
  /\ closing' = TRUE
  /\ closers' = closers \union {u \in Upgrades : handler[u] = "open"}
  /\ main' = "closewait"
  /\ UNCHANGED <<controller, gate, requests, sampled, remaining>>

\* CloseAll's wait ends when no handler is left or its five seconds are over.
CloseAllReturn ==
  /\ main = "closewait"
  /\ main' = "exited"
  /\ UNCHANGED <<controller, gate, requests, sampled, remaining, closing, closers>>

-----------------------------------------------------------------------------
(* The Gate and the realtime handlers behind Drain.Guard. *)

To(u, step) == handler' = [handler EXCEPT ![u] = step]

\* Enter raises the count ...
EnterRaise(u) ==
  /\ handler[u] = "idle"
  /\ entered' = entered + 1
  /\ To(u, "raised")
  /\ UNCHANGED <<controller, draining, requests, shutdown, closing, closers>>

\* ... before Admit reads the flag ...
EnterAdmit(u) ==
  /\ handler[u] = "raised"
  /\ To(u, IF draining THEN "refused" ELSE "admitted")
  /\ UNCHANGED <<controller, draining, entered, requests, shutdown, closing, closers>>

\* ... and lowers it again when refused: 503 with Retry-After.
EnterRefuse(u) ==
  /\ handler[u] = "refused"
  /\ entered' = entered - 1
  /\ To(u, "idle")
  /\ UNCHANGED <<controller, draining, requests, shutdown, closing, closers>>

\* Enter with its two steps swapped: the flag is read first and the count is
\* raised by the step that admits.
EnterFlagFirst(u) ==
  /\ handler[u] = "idle"
  /\ To(u, IF draining THEN "idle" ELSE "raised")
  /\ UNCHANGED <<controller, draining, entered, requests, shutdown, closing, closers>>

EnterCountLate(u) ==
  /\ handler[u] = "raised"
  /\ entered' = entered + 1
  /\ To(u, "admitted")
  /\ UNCHANGED <<controller, draining, requests, shutdown, closing, closers>>

EnterUnordered(u) == EnterFlagFirst(u) \/ EnterCountLate(u)

Enter(u) == EnterRaise(u) \/ EnterAdmit(u) \/ EnterRefuse(u)

\* Authentication, a cap or the upgrade itself refuses the request.
HandshakeFails(u) ==
  /\ handler[u] = "admitted"
  /\ To(u, "cleanup")
  /\ UNCHANGED <<controller, draining, entered, requests, shutdown, closing, closers>>

\* track: one critical section of Drain.mu; a socket that opens after CloseAll
\* is closed at once.
Track(u) ==
  /\ handler[u] = "admitted"
  /\ To(u, "open")
  /\ closers' = IF closing THEN closers \union {u} ELSE closers
  /\ UNCHANGED <<controller, draining, entered, requests, shutdown, closing>>

\* Leave as the last deferred call of ServeWS rather than of Guard: the socket
\* is no longer counted while its cleanup runs.
UntrackAndLeave(u) ==
  /\ handler[u] = "open"
  /\ entered' = entered - 1
  /\ To(u, "cleanup")
  /\ closers' = closers \ {u}
  /\ UNCHANGED <<controller, draining, requests, shutdown, closing>>

\* The socket's read loop ends (the peer left, a heartbeat failed, or closeWith
\* ran) and the function track returned takes it out of Drain.conns.
Untrack(u) ==
  /\ handler[u] = "open"
  /\ To(u, "cleanup")
  /\ closers' = closers \ {u}
  /\ UNCHANGED <<controller, draining, entered, requests, shutdown, closing>>

\* Guard's deferred Leave, after every deferred call of ServeWS.
Leave(u) ==
  /\ handler[u] = "cleanup"
  /\ entered' = entered - 1
  /\ To(u, "idle")
  /\ UNCHANGED <<controller, draining, requests, shutdown, closing, closers>>

-----------------------------------------------------------------------------
(* Inflight.Middleware around a plain HTTP request: served in every state. *)

RequestBegins ==
  /\ requests < MaxHTTP
  /\ requests' = requests + 1
  /\ UNCHANGED <<controller, gate, shutdown, closing, closers>>

RequestEnds ==
  /\ requests > 0
  /\ requests' = requests - 1
  /\ UNCHANGED <<controller, gate, shutdown, closing, closers>>

-----------------------------------------------------------------------------
Controls == MarkReady \/ DrainProcess \/ Resume

ExitPath ==
  \/ BeginShutdown \/ PollSockets \/ PollIdle \/ PollTimeout \/ PollTick
  \/ StopProcess \/ CloseAll \/ CloseAllReturn

Serve(u) ==
  \/ Enter(u)
  \/ HandshakeFails(u) \/ Track(u) \/ Untrack(u) \/ Leave(u)

LifecycleNext ==
  \/ Controls
  \/ ExitPath
  \/ \E u \in Upgrades : Serve(u)
  \/ RequestBegins
  \/ RequestEnds

LifecycleSpec == LifecycleInit /\ [][LifecycleNext]_lcVars

(***************************************************************************)
(* Fairness.  main's goroutine is scheduled, and both of its timers fire:  *)
(* an elapsed timeout stays ready in the select of waitForIdle, which the  *)
(* Go runtime cannot pass over for ever (SF).  A handler whose socket was  *)
(* closed returns, since its Read fails; the steps of Enter and the        *)
(* deferred calls run to their end.  Nothing makes a client leave or a     *)
(* request end.                                                            *)
(***************************************************************************)
MainFairness ==
  /\ WF_lcVars(PollSockets) /\ WF_lcVars(PollIdle) /\ SF_lcVars(PollTimeout)
  /\ WF_lcVars(StopProcess) /\ WF_lcVars(CloseAll) /\ WF_lcVars(CloseAllReturn)

HandlerFairness ==
  \A u \in Upgrades :
     /\ WF_lcVars(EnterAdmit(u)) /\ WF_lcVars(EnterRefuse(u)) /\ WF_lcVars(Leave(u))
     /\ WF_lcVars(HandshakeFails(u) \/ Track(u))
     /\ WF_lcVars(u \in closers /\ Untrack(u))

-----------------------------------------------------------------------------
(* What the contract promises. *)

\* A drain "never misses admitted work" (gate.go, Enter): once the SIGTERM wait
\* reported an idle process, no socket handler is past the gate, and none gets
\* past it later, however Enter's steps interleave with the drain flag, the
\* polls and operator drains and resumes.
DrainNeverMissesWork ==
  remaining = 0 => \A u \in Upgrades : handler[u] \notin Live

\* The controller's state and the gate agree: /readyz answers 200 only while
\* the gate admits sockets, and a draining or stopping process admits none.
GateFollowsState ==
  draining <=> state \in {"draining", "stopping"}

\* Once CloseAll has run, every open socket is being closed with Going Away,
\* also one that finishes its handshake after CloseAll listed the open ones.
NoSocketMissesCloseAll ==
  main \in {"closewait", "exited"} =>
     \A u \in Upgrades : handler[u] = "open" => u \in closers

\* A process that began its shutdown is never put back in service, and
\* stopping is final, whatever MarkReady, drain and resume calls race with it.
NoReturnToService ==
  [][shuttingDown => /\ state' \in {"draining", "stopping"}
                     /\ state = "stopping" => state' = "stopping"]_lcVars

\* SIGTERM always ends: with clients that never leave and requests that never
\* end, the two timeouts still take main through Shutdown and CloseAll.
ShutdownCompletes == shuttingDown ~> main = "exited"
=============================================================================
