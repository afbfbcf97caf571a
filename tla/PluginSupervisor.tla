--------------------------- MODULE PluginSupervisor ---------------------------
(***************************************************************************)
(* The host of a fleet plugin: internal/fleet/plugin, supervisor.go.  One  *)
(* goroutine polls for the death of the subprocess and restarts it, one    *)
(* pings it and kills it when it hangs, and Close may come at any time.    *)
(* They share the current plugin under a mutex, the restart counter, which *)
(* is atomic, and the done channel; every access is a step.                *)
(***************************************************************************)
EXTENDS Naturals, FiniteSets

CONSTANTS
  MaxRestarts,         \* SupervisorConfig.MaxRestarts
  PingFailureBudget,   \* SupervisorConfig.PingFailureBudget
  HealthyPings,        \* SupervisorConfig.HealthResetThreshold
  MaxLaunches          \* bound: subprocesses launched

ASSUME SupervisorAssumption ==
  {MaxRestarts, PingFailureBudget, HealthyPings, MaxLaunches} \subseteq Nat \ {0}

VARIABLES
  process,    \* the subprocesses launched so far
  current,    \* Supervisor.current; 0 when there is none
  closed,     \* Supervisor.closed
  done,       \* the done channel is closed
  restarts,   \* restartCount
  watcher,    \* the goroutine of watch
  pinger,     \* the goroutine of pingLoop and its counters
  closer      \* the caller of Close

svVars == <<process, current, closed, done, restarts, watcher, pinger, closer>>

Launched == DOMAIN process
Running(p) == process[p] # "dead"
Kill(p) == [q \in Launched |-> IF q = p THEN "dead" ELSE process[q]]

SupervisorTypeOK ==
  /\ Launched = 1..Cardinality(Launched)
  /\ process \in [Launched -> {"alive", "hung", "dead"}]
  /\ current \in Launched \union {0}
  /\ {closed, done} \subseteq BOOLEAN
  /\ restarts \in 0..MaxRestarts
  /\ watcher \in [at : {"poll", "exited", "retry", "launch", "adopt", "stopped"}, p : Launched \union {0}]
  /\ pinger \in [at : {"idle", "asked", "healthy", "kill", "stopped"}, p : Launched \union {0},
                 fails : Nat, oks : Nat]
  /\ closer \in [at : {"no", "waits", "returned"}, old : Launched \union {0}]

\* NewSupervisor, once the first launch worked.
SupervisorInit ==
  /\ process = [p \in {1} |-> "alive"]
  /\ current = 1
  /\ closed = FALSE /\ done = FALSE /\ restarts = 0
  /\ watcher = [at |-> "poll", p |-> 0]
  /\ pinger = [at |-> "idle", p |-> 0, fails |-> 0, oks |-> 0]
  /\ closer = [at |-> "no", old |-> 0]

\* A subprocess dies, or hangs.
Fails(p) ==
  /\ \/ process[p] = "alive" /\ process' = [process EXCEPT ![p] = "hung"]
     \/ Running(p) /\ process' = Kill(p)
  /\ UNCHANGED <<current, closed, done, restarts, watcher, pinger, closer>>

-----------------------------------------------------------------------------
(* watch and handleExit *)

WatchPolls ==
  /\ watcher.at = "poll" /\ current # 0 /\ ~Running(current)
  /\ watcher' = [at |-> "exited", p |-> 0]
  /\ UNCHANGED <<process, current, closed, done, restarts, pinger, closer>>

WatchStops ==
  /\ watcher.at = "poll" /\ done
  /\ watcher' = [at |-> "stopped", p |-> 0]
  /\ UNCHANGED <<process, current, closed, done, restarts, pinger, closer>>

\* swap(nil): what was current is closed.
WatchDrops ==
  /\ watcher.at = "exited"
  /\ IF closed THEN UNCHANGED <<process, current>>
               ELSE process' = Kill(current) /\ current' = 0
  /\ watcher' = [at |-> "retry", p |-> 0]
  /\ UNCHANGED <<closed, done, restarts, pinger, closer>>

\* The restart budget, spent: both goroutines are told to stop.
WatchGivesUp ==
  /\ watcher.at = "retry" /\ restarts >= MaxRestarts
  /\ done' = TRUE
  /\ watcher' = [at |-> "poll", p |-> 0]
  /\ UNCHANGED <<process, current, closed, restarts, pinger, closer>>

\* The backoff, which the first restart does not wait for, has passed.
WatchRetries ==
  /\ watcher.at = "retry" /\ restarts < MaxRestarts
  /\ watcher' = [at |-> "launch", p |-> 0]
  /\ UNCHANGED <<process, current, closed, done, restarts, pinger, closer>>

\* Told to stop during the backoff.
WatchInterrupted ==
  /\ watcher.at = "retry" /\ restarts \in 1..(MaxRestarts - 1) /\ done
  /\ watcher' = [at |-> "poll", p |-> 0]
  /\ UNCHANGED <<process, current, closed, done, restarts, pinger, closer>>

\* The counter goes up and Launch returns a plugin, or fails and is retried.
WatchLaunches ==
  LET p == Cardinality(Launched) + 1 IN
  /\ watcher.at = "launch"
  /\ restarts' = restarts + 1
  /\ \/ /\ p <= MaxLaunches
        /\ process' = [q \in Launched \union {p} |-> IF q = p THEN "alive" ELSE process[q]]
        /\ watcher' = [at |-> "adopt", p |-> p]
     \/ /\ watcher' = [at |-> "retry", p |-> 0]
        /\ UNCHANGED process
  /\ UNCHANGED <<current, closed, done, pinger, closer>>

\* A new plugin is adopted also when Close was called meanwhile.
WatchAdoptsAnyway ==
  /\ watcher.at = "adopt"
  /\ current' = watcher.p
  /\ watcher' = [at |-> "poll", p |-> 0]
  /\ UNCHANGED <<process, closed, done, restarts, pinger, closer>>

\* swap(p): nothing is current, so nothing is closed; after Close it is p.
WatchAdopts ==
  /\ watcher.at = "adopt"
  /\ IF closed THEN process' = Kill(watcher.p) /\ UNCHANGED current
               ELSE current' = watcher.p /\ UNCHANGED process
  /\ watcher' = [at |-> "poll", p |-> 0]
  /\ UNCHANGED <<closed, done, restarts, pinger, closer>>

-----------------------------------------------------------------------------
(* pingLoop *)

\* The counters are those of the plugin pinged last.
PingAsks ==
  /\ pinger.at = "idle" /\ current # 0
  /\ pinger' = IF pinger.p = current THEN [pinger EXCEPT !.at = "asked"]
               ELSE [at |-> "asked", p |-> current, fails |-> 0, oks |-> 0]
  /\ UNCHANGED <<process, current, closed, done, restarts, watcher, closer>>

PingStops ==
  /\ pinger.at = "idle" /\ done
  /\ pinger' = [at |-> "stopped", p |-> 0, fails |-> 0, oks |-> 0]
  /\ UNCHANGED <<process, current, closed, done, restarts, watcher, closer>>

\* Past the threshold the counter of good pings no longer matters.
PingAnswered ==
  LET oks == IF pinger.oks < HealthyPings THEN pinger.oks + 1 ELSE pinger.oks IN
  /\ pinger.at = "asked" /\ process[pinger.p] = "alive"
  /\ pinger' = [pinger EXCEPT !.fails = 0, !.oks = oks,
                              !.at = IF oks >= HealthyPings THEN "healthy" ELSE "idle"]
  /\ UNCHANGED <<process, current, closed, done, restarts, watcher, closer>>

\* The restart budget is renewed; the plugin may have died since it answered.
PingResets ==
  /\ pinger.at = "healthy"
  /\ restarts' = 0
  /\ pinger' = [pinger EXCEPT !.at = "idle"]
  /\ UNCHANGED <<process, current, closed, done, watcher, closer>>

\* No answer in time, at the end of the budget from a plugin still current.
PingUnanswered ==
  /\ pinger.at = "asked"
  /\ pinger' = IF pinger.fails + 1 < PingFailureBudget
               THEN [pinger EXCEPT !.at = "idle", !.oks = 0, !.fails = @ + 1]
               ELSE [pinger EXCEPT !.at = IF current = pinger.p THEN "kill" ELSE "idle",
                                   !.oks = 0, !.fails = 0]
  /\ UNCHANGED <<process, current, closed, done, restarts, watcher, closer>>

\* The plugin that was pinged is killed, whatever is current by now.
PingKills ==
  /\ pinger.at = "kill"
  /\ process' = Kill(pinger.p)
  /\ pinger' = [pinger EXCEPT !.at = "idle"]
  /\ UNCHANGED <<current, closed, done, restarts, watcher, closer>>

-----------------------------------------------------------------------------
(* Close *)

\* Under the lock, and shutdown.
CloseBegins ==
  /\ closer.at = "no"
  /\ closed' = TRUE /\ current' = 0 /\ done' = TRUE
  /\ closer' = [at |-> "waits", old |-> current]
  /\ UNCHANGED <<process, restarts, watcher, pinger>>

\* Returns at once.
CloseReturnsEarly ==
  /\ closer.at = "waits"
  /\ process' = Kill(closer.old)
  /\ closer' = [at |-> "returned", old |-> 0]
  /\ UNCHANGED <<current, closed, done, restarts, watcher, pinger>>

\* Both goroutines have returned.
CloseReturns ==
  /\ closer.at = "waits" /\ watcher.at = "stopped" /\ pinger.at = "stopped"
  /\ process' = Kill(closer.old)
  /\ closer' = [at |-> "returned", old |-> 0]
  /\ UNCHANGED <<current, closed, done, restarts, watcher, pinger>>

SupervisorNext ==
  \/ \E p \in Launched : Fails(p)
  \/ WatchPolls \/ WatchStops \/ WatchDrops \/ WatchGivesUp
  \/ WatchRetries \/ WatchInterrupted \/ WatchLaunches \/ WatchAdopts
  \/ PingAsks \/ PingStops \/ PingAnswered \/ PingResets \/ PingUnanswered \/ PingKills
  \/ CloseBegins \/ CloseReturns

SupervisorSpec == SupervisorInit /\ [][SupervisorNext]_svVars

-----------------------------------------------------------------------------
(* What the supervisor promises. *)

\* OnePlugin: at most one subprocess runs, and none that a running supervisor
\* has lost sight of: it is the current one, the one about to be adopted, or
\* the one Close is about to kill.
OnePlugin ==
  /\ Cardinality({p \in Launched : Running(p)}) <= 1
  /\ \A p \in Launched : Running(p) => p \in {current, watcher.p, closer.old}

\* NothingLeftRunning: once Close has returned no subprocess runs, also if a
\* restart or a ping was under way when it was called.
NothingLeftRunning == closer.at = "returned" => \A p \in Launched : ~Running(p)

\* PluginSound: one subprocess, and none after Close.
PluginSound == OnePlugin /\ NothingLeftRunning
=============================================================================
