----------------------------- MODULE SocketSweep -----------------------------
(***************************************************************************)
(* How a ban, a deletion or a disabled tenant reaches the sockets that are *)
(* already open: httpapi/realtime_lifecycle.go.  One goroutine reads the   *)
(* lifecycle of every tenant with open sockets and leaves a verdict on     *)
(* each socket; a heartbeat reads the verdict, and also gives up a socket  *)
(* that nobody could verify for too long.  So a revocation arrives in a    *)
(* bounded time even when the database does not answer.                    *)
(*                                                                         *)
(* Time is counted in ticks.  A goroutine that is ready runs within a tick;*)
(* the sweep of a tenant, a ping and a refresh of slots each end within    *)
(* SweepInterval, which is their timeout; a request is admitted and        *)
(* registered within AdmitTime.                                            *)
(***************************************************************************)
EXTENDS Integers, FiniteSets

CONSTANTS
  Streams,         \* sockets
  CallerOf,        \* the player of each socket
  HomeOf,          \* the tenant of each player
  SweepInterval,   \* the heartbeat, and the period of the sweep, in ticks
  GraceIntervals,  \* wsGraceIntervals
  AdmitTime,       \* bound: ticks from the check of a token to register
  Revocable,       \* players who, or whose tenant, may lose their sessions
  LastEpoch        \* bound: how often a player's sessions are revoked

Callers == {CallerOf[s] : s \in Streams}
Homes == {HomeOf[c] : c \in Callers}

ASSUME SweepAssumption ==
  /\ CallerOf \in [Streams -> Callers] /\ HomeOf \in [Callers -> Homes]
  /\ {SweepInterval, GraceIntervals} \subseteq Nat \ {0}
  /\ AdmitTime \in 0..SweepInterval /\ LastEpoch \in Nat /\ Revocable \subseteq Callers
  /\ IsFiniteSet(Homes)

\* Every socket of a player and of a tenant of its own.
Apart == [s \in Streams |-> s]

VARIABLES
  disabled, \* the tenants that are disabled
  epoch,    \* each player's session_epoch
  stream,   \* wsConnState, and the ticks its admission or its end is waiting
  sweeper,  \* the sweep goroutine: its ticker, the sockets and tenants it has left
  void,     \* how long each admitted session has been revoked without a break
  spoilt    \* a sweep of the socket's tenant failed since the socket was last verified

swVars == <<disabled, epoch, stream, sweeper, void, spoilt>>

None == -1

HomeFor(s) == HomeOf[CallerOf[s]]

\* grace
Grace == GraceIntervals * SweepInterval

\* From one call of Revalidate to the next: a heartbeat may find its tick
\* waiting, then pings and refreshes.
CheckGap == 3 * SweepInterval

\* What a revocation takes to reach a socket: the sweep that read the rows
\* before it, the grace, and the heartbeat that notices.
Reach == SweepInterval + Grace + CheckGap

NoStream == [at |-> "closed", claim |-> None, stale |-> FALSE, verified |-> 0, gap |-> 0]
NoSweep == [running |-> FALSE, phase |-> 0, due |-> FALSE, conns |-> {}, todo |-> {},
            at |-> "waits", tenant |-> CHOOSE t \in Homes : TRUE, took |-> 0, disabled |-> FALSE,
            epochs |-> [c \in Callers |-> None]]

SweepTypeOK ==
  /\ disabled \subseteq Homes
  /\ epoch \in [Callers -> 0..LastEpoch]
  /\ \A s \in Streams : /\ stream[s].at \in {"closed", "admitted", "open"}
                        /\ stream[s].verified \in 0..Grace + CheckGap /\ stream[s].gap \in 0..CheckGap
  /\ sweeper.at \in {"waits", "picks", "reads", "counts"} /\ sweeper.conns \subseteq Streams

SweepInit ==
  /\ disabled = {}
  /\ epoch = [c \in Callers |-> 0]
  /\ stream = [s \in Streams |-> NoStream]
  /\ sweeper = NoSweep
  /\ void = [s \in Streams |-> 0]
  /\ spoilt = [s \in Streams |-> FALSE]

LiveSockets == {s \in Streams : stream[s].at = "open"}

IsVoid(s) == HomeFor(s) \in disabled \/ epoch[CallerOf[s]] # stream[s].claim

-----------------------------------------------------------------------------
(* Revocations *)

\* playerToggleBan, a reused refresh token, a suspension: the epoch moves.  A
\* deleted player, whose row the sweep does not find, is one that no later
\* token is made for.
RevokeSessions(c) ==
  /\ epoch[c] \in 0..LastEpoch - 1
  /\ epoch' = [epoch EXCEPT ![c] = @ + 1]
  /\ UNCHANGED <<disabled, stream, sweeper, void, spoilt>>

DisableTenant(t) ==
  /\ t \notin disabled /\ \E c \in Revocable : HomeOf[c] = t
  /\ disabled' = disabled \cup {t}
  /\ UNCHANGED <<epoch, stream, sweeper, void, spoilt>>

EnableTenant(t) ==
  /\ t \in disabled
  /\ disabled' = disabled \ {t}
  /\ void' = [s \in Streams |-> IF HomeFor(s) = t /\ epoch[CallerOf[s]] = stream[s].claim
                                THEN 0 ELSE void[s]]
  /\ UNCHANGED <<epoch, stream, sweeper, spoilt>>

-----------------------------------------------------------------------------
(* The handshake *)

\* tenant.Admit and playerauth.Admit
Admits(c, claim) == HomeOf[c] \notin disabled /\ epoch[c] = claim

\* By the headers of a native client, or by the one-time ticket of a browser:
\* redeeming a ticket runs the same checks of the session it was made for.
Admit(s) ==
  LET c == CallerOf[s] IN
  /\ stream[s].at = "closed"
  /\ \E claim \in 0..LastEpoch :
       /\ Admits(c, claim)
       /\ stream' = [stream EXCEPT ![s] = [at |-> "admitted", claim |-> claim, stale |-> FALSE,
                                           verified |-> 0, gap |-> 0]]
  /\ UNCHANGED <<disabled, epoch, sweeper, void, spoilt>>

\* register: the first socket starts the sweep.
RegisterSocket(s) ==
  /\ stream[s].at = "admitted"
  /\ stream' = [stream EXCEPT ![s] = [stream[s] EXCEPT !.at = "open", !.verified = 0, !.gap = 0]]
  /\ sweeper' = IF sweeper.running THEN sweeper ELSE [NoSweep EXCEPT !.running = TRUE]
  /\ UNCHANGED <<disabled, epoch, void, spoilt>>

\* A limiter or a cap refuses the request.
RefuseSocket(s) ==
  /\ stream[s].at = "admitted"
  /\ stream' = [stream EXCEPT ![s] = NoStream]
  /\ void' = [void EXCEPT ![s] = 0]
  /\ UNCHANGED <<disabled, epoch, sweeper, spoilt>>

\* A verdict on a socket that is gone has no effect.
Unregister(s) ==
  /\ stream' = [stream EXCEPT ![s] = NoStream]
  /\ sweeper' = [sweeper EXCEPT !.conns = @ \ {s}]
  /\ void' = [void EXCEPT ![s] = 0]
  /\ spoilt' = [spoilt EXCEPT ![s] = FALSE]

-----------------------------------------------------------------------------
(* The heartbeat *)

\* The clock is not looked at.
VerdictOnly(st) == st.stale

\* The verdict of the sweep, or the clock.
GivesUp(st) == st.stale \/ st.verified > Grace

\* A ping came back, Revalidate is called and ends the connection.
Check(s) ==
  /\ stream[s].at = "open" /\ GivesUp(stream[s])
  /\ Unregister(s)
  /\ UNCHANGED <<disabled, epoch>>

\* The client left, or a ping failed.
Leave(s) ==
  /\ stream[s].at = "open"
  /\ Unregister(s)
  /\ UNCHANGED <<disabled, epoch>>

-----------------------------------------------------------------------------
(* run and sweepTenant *)

\* A tick: the sockets of this moment, by tenant; without any the goroutine ends.
TakeTick ==
  /\ sweeper.running /\ sweeper.at = "waits" /\ sweeper.due
  /\ sweeper' = IF LiveSockets = {} THEN NoSweep
                ELSE [sweeper EXCEPT !.due = FALSE, !.at = "picks", !.conns = LiveSockets,
                                     !.todo = {HomeFor(s) : s \in LiveSockets}]
  /\ UNCHANGED <<disabled, epoch, stream, void, spoilt>>

\* The next tenant in the order of the map: the state of the tenant is read.
ReadTenant(t) ==
  /\ sweeper.at = "picks" /\ t \in sweeper.todo
  /\ sweeper' = [sweeper EXCEPT !.at = "reads", !.todo = @ \ {t}, !.tenant = t, !.took = 0,
                                !.disabled = t \in disabled]
  /\ UNCHANGED <<disabled, epoch, stream, void, spoilt>>

SweptNow == {s \in sweeper.conns : HomeFor(s) = sweeper.tenant}

\* Then the epochs of the players whose sockets it has.
ReadEpochs ==
  /\ sweeper.at = "reads"
  /\ sweeper' = [sweeper EXCEPT !.at = "counts",
                                !.epochs = [c \in Callers |-> IF HomeOf[c] = sweeper.tenant
                                                              THEN epoch[c] ELSE None]]
  /\ UNCHANGED <<disabled, epoch, stream, void, spoilt>>

Swept == [sweeper EXCEPT !.at = IF sweeper.todo = {} THEN "waits" ELSE "picks", !.took = 0,
                         !.tenant = NoSweep.tenant, !.disabled = FALSE, !.epochs = [c \in Callers |-> None]]

\* markStale or markVerified, by what was read.  A stale socket stays stale,
\* and its clock is not looked at again.
Marked(s) ==
  IF s \notin SweptNow THEN stream[s]
  ELSE IF sweeper.disabled \/ sweeper.epochs[CallerOf[s]] # stream[s].claim
       THEN [stream[s] EXCEPT !.stale = TRUE, !.verified = 0]
  ELSE IF stream[s].stale THEN stream[s] ELSE [stream[s] EXCEPT !.verified = 0]

Mark ==
  /\ sweeper.at = "counts"
  /\ stream' = [s \in Streams |-> Marked(s)]
  /\ spoilt' = [s \in Streams |-> spoilt[s] /\ s \notin SweptNow]
  /\ sweeper' = Swept
  /\ UNCHANGED <<disabled, epoch, void>>

\* Nothing is marked: the database failed, or took the whole interval.
SweepFails ==
  /\ sweeper.at \in {"reads", "counts"}
  /\ spoilt' = [s \in Streams |-> spoilt[s] \/ (s \in SweptNow /\ ~stream[s].stale)]
  /\ sweeper' = Swept
  /\ UNCHANGED <<disabled, epoch, stream, void>>

-----------------------------------------------------------------------------

StreamAged(st) ==
  LET older == [st EXCEPT !.verified = IF st.stale THEN st.verified ELSE st.verified + 1] IN
  CASE st.at = "closed" -> st
    [] st.at = "admitted" -> [st EXCEPT !.gap = st.gap + 1]
    [] OTHER -> [older EXCEPT !.gap = IF GivesUp(older) THEN st.gap + 1 ELSE 0]

SweeperAged ==
  LET fires == sweeper.phase + 1 = SweepInterval IN
  IF ~sweeper.running THEN sweeper
  ELSE [sweeper EXCEPT !.phase = IF fires THEN 0 ELSE sweeper.phase + 1, !.due = sweeper.due \/ fires,
                       !.took = IF sweeper.at \in {"reads", "counts"} THEN sweeper.took + 1 ELSE 0]

SweepTick ==
  /\ \A s \in Streams : stream[s].gap < CASE stream[s].at = "admitted" -> AdmitTime
                                          [] OTHER -> CheckGap
  /\ ~(sweeper.running /\ sweeper.at = "waits" /\ sweeper.due) /\ sweeper.at # "picks"
  /\ sweeper.took < SweepInterval
  /\ stream' = [s \in Streams |-> StreamAged(stream[s])]
  /\ sweeper' = SweeperAged
  /\ void' = [s \in Streams |-> IF stream[s].at = "closed" \/ ~IsVoid(s) THEN 0 ELSE void[s] + 1]
  /\ UNCHANGED <<disabled, epoch, spoilt>>

SweepNext ==
  \/ \E c \in Revocable : RevokeSessions(c)
  \/ \E t \in Homes : DisableTenant(t) \/ EnableTenant(t) \/ ReadTenant(t)
  \/ \E s \in Streams : Admit(s) \/ RegisterSocket(s) \/ RefuseSocket(s) \/ Check(s) \/ Leave(s)
  \/ TakeTick \/ ReadEpochs \/ Mark \/ SweepFails \/ SweepTick

SweepSpec == SweepInit /\ [][SweepNext]_swVars

-----------------------------------------------------------------------------

\* A revoked session keeps no socket for longer than Reach, whatever the
\* database does.
RevokedAreClosed == \A s \in LiveSockets : void[s] <= Reach

\* While there are sockets there is a sweep.
SweepRuns == LiveSockets # {} => sweeper.running

\* The two rounds of a sweep that may keep a socket waiting: the one under way
\* when it was last verified or opened, and its own, every tenant at its timeout.
SweepLag == 2 * Cardinality(Homes) * SweepInterval

\* A socket that no failed sweep of its own tenant touched is verified within
\* two rounds, however slow the sweeps of the others are.
VerifiedInTime ==
  \A s \in LiveSockets : stream[s].verified > SweepLag => stream[s].stale \/ spoilt[s]

(***************************************************************************)
(* SweepSound: what realtime_lifecycle.go achieves.  "Infrastructure       *)
(* errors do NOT fail open indefinitely", definitive answers reach every   *)
(* socket, and one sweep for all costs the sockets of a healthy tenant two *)
(* rounds at most.                                                         *)
(***************************************************************************)
SweepSound == RevokedAreClosed /\ SweepRuns /\ VerifiedInTime

\* DroppedForCause: a socket is due to be closed as unverifiable only if a
\* sweep of its own tenant failed since it was last verified.  The comment of
\* sweepTenant says that the grace "closes the tenant's sockets if the state
\* stays unverifiable"; with three tenants the slow sweeps of two are enough.
DroppedForCause ==
  \A s \in LiveSockets : stream[s].verified > Grace => stream[s].stale \/ spoilt[s]
=============================================================================
