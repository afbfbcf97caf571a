--------------------------- MODULE RelayAllocations ---------------------------
(***************************************************************************)
(* What a TURN relay node lets its players allocate: internal/relay,       *)
(* allocation_request.go, allocation.go and playercap.go.  Every Allocate  *)
(* request passes the drain gate, the budget of its player and the cap of  *)
(* the node, each on its own, and gives back what it took when it fails or *)
(* when its socket is closed.  The gate itself is the one of Lifecycle,    *)
(* here in one step.                                                       *)
(***************************************************************************)
EXTENDS Integers, FiniteSets

CONSTANTS
  Allocations,     \* Allocate requests, all of players who share a budget
  Closers,         \* calls of Close that one socket may see
  MaxAllocations,  \* the cap of the node
  Burst, Rate,     \* the budget: tokens at most, and tokens a tick
  LastTick         \* bound: ticks of the clock

ASSUME AllocationsAssumption == {MaxAllocations, Burst, Rate, LastTick} \subseteq Nat \ {0}

VARIABLES
  demand,    \* where each request is
  closing,   \* how far each Close of its socket is
  draining,  \* the gate is shut
  work,      \* what the gate counts
  live,      \* allocationLimiter.live
  bucket,    \* the allocCell, with its last refill
  time,      \* the clock, which every request reads
  granted    \* history: tokens taken

alVars == <<demand, closing, draining, work, live, bucket, time, granted>>

AllocationsTypeOK ==
  /\ demand \in [Allocations -> [at : {"new", "entered", "timed", "allowed", "over", "binding",
                                      "leaving", "bound", "done"}, now : 0..LastTick]]
  /\ closing \in [Allocations -> [Closers -> 0..3]]
  /\ draining \in BOOLEAN
  /\ {work, live} \subseteq Int
  /\ bucket \in [tokens : 0..Burst, last : 0..LastTick]
  /\ time \in 0..LastTick /\ granted \in Nat

AllocationsInit ==
  /\ demand = [a \in Allocations |-> [at |-> "new", now |-> 0]]
  /\ closing = [a \in Allocations |-> [c \in Closers |-> 0]]
  /\ draining = FALSE /\ work = 0 /\ live = 0
  /\ bucket = [tokens |-> Burst, last |-> 0]
  /\ time = 0 /\ granted = 0

AllocationTick ==
  /\ time < LastTick /\ time' = time + 1
  /\ UNCHANGED <<demand, closing, draining, work, live, bucket, granted>>

\* The node begins to drain: the gate refuses what comes after.
ShutGate ==
  /\ ~draining /\ draining' = TRUE
  /\ UNCHANGED <<demand, closing, work, live, bucket, time, granted>>

-----------------------------------------------------------------------------
(* playerAllocationGenerator.AllocatePacketConn *)

\* Gate.Enter
AllocateEnters(a) ==
  /\ demand[a].at = "new" /\ ~draining
  /\ work' = work + 1
  /\ demand' = [demand EXCEPT ![a].at = "entered"]
  /\ UNCHANGED <<closing, draining, live, bucket, time, granted>>

\* playerAllocLimiter.allow reads the clock before it takes its lock.
BudgetReadsClock(a) ==
  /\ demand[a].at = "entered"
  /\ demand' = [demand EXCEPT ![a] = [at |-> "timed", now |-> time]]
  /\ UNCHANGED <<closing, draining, work, live, bucket, time, granted>>

\* The cell is stamped also by a time read before its last refill.
RefilledByAny(now) ==
  LET earned == IF now > bucket.last THEN (now - bucket.last) * Rate ELSE 0 IN
  [tokens |-> IF bucket.tokens + earned < Burst THEN bucket.tokens + earned ELSE Burst, last |-> now]

\* The cell after the refill that the clock read earlier allows.
Refilled(now) ==
  LET earned == bucket.tokens + (now - bucket.last) * Rate IN
  IF now <= bucket.last THEN bucket
  ELSE [tokens |-> IF earned < Burst THEN earned ELSE Burst, last |-> now]

BudgetDecides(a) ==
  LET cell == Refilled(demand[a].now)
      pays == cell.tokens >= 1
  IN  /\ demand[a].at = "timed"
      /\ bucket' = IF pays THEN [tokens |-> cell.tokens - 1, last |-> cell.last] ELSE cell
      /\ granted' = IF pays THEN granted + 1 ELSE granted
      /\ demand' = [demand EXCEPT ![a].at = IF pays THEN "allowed" ELSE "leaving"]
      /\ UNCHANGED <<closing, draining, work, live, time>>

\* A cap that lets one more in.
OverByOne(n) == n > MaxAllocations + 1

OverLimit(n) == n > MaxAllocations

\* allocationLimiter.acquire counts first and takes it back when it is over.
AcquireCounts(a) ==
  /\ demand[a].at = "allowed"
  /\ live' = live + 1
  /\ demand' = [demand EXCEPT ![a].at = IF OverLimit(live') THEN "over" ELSE "binding"]
  /\ UNCHANGED <<closing, draining, work, bucket, time, granted>>

\* Over the cap, or the port could not be bound: the slot is given back.
AcquireFails(a) ==
  /\ demand[a].at \in {"over", "binding"}
  /\ live' = live - 1
  /\ demand' = [demand EXCEPT ![a].at = "leaving"]
  /\ UNCHANGED <<closing, draining, work, bucket, time, granted>>

PortBound(a) ==
  /\ demand[a].at = "binding"
  /\ demand' = [demand EXCEPT ![a].at = "bound"]
  /\ UNCHANGED <<closing, draining, work, live, bucket, time, granted>>

AllocateLeaves(a) ==
  /\ demand[a].at = "leaving"
  /\ work' = work - 1
  /\ demand' = [demand EXCEPT ![a].at = "done"]
  /\ UNCHANGED <<closing, draining, live, bucket, time, granted>>

-----------------------------------------------------------------------------
(* countedPacketConn.Close, of the outer and then of the inner wrapper.    *)

\* Every Close releases.
Releases(a, stage) == TRUE

\* sync.Once: no Close of this socket has been past the stage.
FirstClose(a, stage) == \A c \in Closers : closing[a][c] < stage

CloseLeaves(a, c) ==
  /\ demand[a].at = "bound" /\ closing[a][c] = 0
  /\ work' = IF FirstClose(a, 1) THEN work - 1 ELSE work
  /\ closing' = [closing EXCEPT ![a][c] = 1]
  /\ UNCHANGED <<demand, draining, live, bucket, time, granted>>

CloseReleases(a, c) ==
  /\ closing[a][c] = 1
  /\ live' = IF FirstClose(a, 2) THEN live - 1 ELSE live
  /\ closing' = [closing EXCEPT ![a][c] = 2]
  /\ UNCHANGED <<demand, draining, work, bucket, time, granted>>

SocketCloses(a, c) ==
  /\ closing[a][c] = 2
  /\ closing' = [closing EXCEPT ![a][c] = 3]
  /\ UNCHANGED <<demand, draining, work, live, bucket, time, granted>>

AllocationsNext ==
  \/ AllocationTick \/ ShutGate
  \/ \E a \in Allocations :
       \/ AllocateEnters(a) \/ BudgetReadsClock(a) \/ BudgetDecides(a)
       \/ AcquireCounts(a) \/ AcquireFails(a) \/ PortBound(a) \/ AllocateLeaves(a)
       \/ \E c \in Closers : CloseLeaves(a, c) \/ CloseReleases(a, c) \/ SocketCloses(a, c)

AllocationsSpec == AllocationsInit /\ [][AllocationsNext]_alVars

-----------------------------------------------------------------------------
(* What the node promises. *)

\* Sockets nobody has begun to close, and requests that hold work of the gate.
InUse == {a \in Allocations : demand[a].at = "bound" /\ FirstClose(a, 1)}
UnderWay == {a \in Allocations : demand[a].at \notin {"new", "bound", "done"}}

\* AllocationsSound: the node never has more sockets in use than its cap; a
\* drain that finds no work left leaves nobody's socket in use and no request
\* half way; once every request and socket is finished nothing stays counted,
\* however often and by whom a socket is closed; and players who share a
\* budget never got more than the burst and what has been refilled since.
AllocationsSound ==
  /\ Cardinality(InUse) <= MaxAllocations
  /\ draining /\ work = 0 => InUse \union UnderWay = {}
  /\ work >= 0 /\ live >= 0
  /\ (\A a \in Allocations : \/ demand[a].at \in {"new", "done"}
                             \/ demand[a].at = "bound" /\ \E c \in Closers : closing[a][c] = 3)
       => work = 0 /\ live = 0
  /\ granted <= Burst + Rate * time
=============================================================================
