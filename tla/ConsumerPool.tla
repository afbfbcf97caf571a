---------------------------- MODULE ConsumerPool ----------------------------
(***************************************************************************)
(* How the matchmaker worker is woken (internal/matchmaker worker.go): the *)
(* NOTIFY listener and the fallback ticker put buckets on a bounded        *)
(* channel, and a pool of consumers takes them off.  Runs of one bucket    *)
(* are serialised: a second event during a run queues one rerun behind it. *)
(*                                                                         *)
(* Here a bucket's queue is a number of waiting tickets and every Min of   *)
(* them make a group; claims, leases and commits are module MatchQueue's.  *)
(***************************************************************************)
EXTENDS Integers, Sequences

CONSTANTS
  Buckets,      \* the buckets, in the order ListReadyBuckets sorts them
  Consumers,    \* Config.WorkerCount goroutines
  Capacity,     \* eventsBuffer
  Batch,        \* maxClaimBatch
  Min,          \* tickets that make a group
  MaxTickets    \* bound on the tickets enqueued in a bucket

ASSUME PoolConstants ==
  /\ Buckets \subseteq Nat \ {0}
  /\ Capacity \in Nat \ {0}
  /\ Batch \in Nat \ {0}
  /\ Min \in Nat \ {0}
  /\ MaxTickets \in Nat

VARIABLES
  waiting,     \* queued, unclaimed tickets of each bucket
  arrived,     \* tickets ever enqueued in it
  notices,     \* NOTIFYs sent for it and not yet received
  events,      \* the channel
  drainList,   \* the buckets drain has still to send
  inflight,    \* Worker.inflight: "absent", or whether a rerun is queued
  consumer,    \* each consumer goroutine
  missed,      \* buckets with a ticket no event stands for until the next tick
  cancelled    \* ctx

poolVars == <<waiting, arrived, notices, events, drainList, inflight, consumer, missed, cancelled>>

\* "select"; "got" an event; "run" before ClaimBucket; "claimed" before the
\* group is settled; "return" the leftovers; "finish".
Step == {"select", "got", "run", "claimed", "return", "finish", "exited"}
NoBucket == 0

PoolTypeOK ==
  /\ waiting \in [Buckets -> 0..MaxTickets]
  /\ arrived \in [Buckets -> 0..MaxTickets]
  /\ notices \in [Buckets -> 0..MaxTickets]
  /\ events \in Seq(Buckets) /\ Len(events) <= Capacity
  /\ drainList \subseteq Buckets
  /\ inflight \in [Buckets -> {"absent", "running", "rerun"}]
  /\ consumer \in [Consumers -> [pc : Step, bucket : Buckets \union {NoBucket}, held : 0..MaxTickets]]
  /\ missed \subseteq Buckets
  /\ cancelled \in BOOLEAN

Idle == [pc |-> "select", bucket |-> NoBucket, held |-> 0]

PoolInit ==
  /\ waiting = [b \in Buckets |-> 0]
  /\ arrived = [b \in Buckets |-> 0]
  /\ notices = [b \in Buckets |-> 0]
  /\ events = <<>>
  /\ drainList = {}
  /\ inflight = [b \in Buckets |-> "absent"]
  /\ consumer = [c \in Consumers |-> Idle]
  /\ missed = {}
  /\ cancelled = FALSE

-----------------------------------------------------------------------------
(* Where events come from. *)

\* Enqueue commits a ticket and then notifies.
Enqueue(b) ==
  /\ arrived[b] < MaxTickets
  /\ arrived' = [arrived EXCEPT ![b] = @ + 1]
  /\ waiting' = [waiting EXCEPT ![b] = @ + 1]
  /\ notices' = [notices EXCEPT ![b] = @ + 1]
  /\ UNCHANGED <<events, drainList, inflight, consumer, missed, cancelled>>

Full == Len(events) >= Capacity

\* A send that does not look whether the channel has room.
SendUnbounded(b) == events' = Append(events, b)

\* select { case events <- b: default: dropEvent }
Send(b) == events' = IF Full THEN events ELSE Append(events, b)

\* runListener hands a NOTIFY to the pool; a drop is left to the ticker.
NotifyReceived(b) ==
  /\ notices[b] > 0
  /\ notices' = [notices EXCEPT ![b] = @ - 1]
  /\ Send(b)
  /\ missed' = IF Full THEN missed \union {b} ELSE missed
  /\ UNCHANGED <<waiting, arrived, drainList, inflight, consumer, cancelled>>

\* Debounced by notifyLimiter, failed to send, or the listener was disconnected.
NotifyLost(b) ==
  /\ notices[b] > 0
  /\ notices' = [notices EXCEPT ![b] = @ - 1]
  /\ missed' = missed \union {b}
  /\ UNCHANGED <<waiting, arrived, events, drainList, inflight, consumer, cancelled>>

\* The ticker fires: drain lists the ready buckets ...
Tick ==
  /\ ~cancelled
  /\ drainList = {}
  /\ drainList' = {b \in Buckets : waiting[b] > 0}
  /\ UNCHANGED <<waiting, arrived, notices, events, inflight, consumer, missed, cancelled>>

\* ... and offers them to the channel in order.
DrainSend ==
  /\ \E b \in drainList :
        /\ \A other \in drainList : b <= other
        /\ Send(b)
        /\ drainList' = drainList \ {b}
  /\ UNCHANGED <<waiting, arrived, notices, inflight, consumer, missed, cancelled>>

\* The select may take ctx.Done instead.
DrainStops ==
  /\ cancelled
  /\ drainList # {}
  /\ drainList' = {}
  /\ UNCHANGED <<waiting, arrived, notices, events, inflight, consumer, missed, cancelled>>

-----------------------------------------------------------------------------
(* A consumer: runConsumer and consumeEvent. *)

Receive(c) ==
  /\ consumer[c].pc = "select"
  /\ events # <<>>
  /\ consumer' = [consumer EXCEPT ![c] = [pc |-> "got", bucket |-> Head(events), held |-> 0]]
  /\ events' = Tail(events)
  /\ UNCHANGED <<waiting, arrived, notices, drainList, inflight, missed, cancelled>>

\* No serialisation.
AcquireAlways(c) ==
  LET b == consumer[c].bucket IN
  /\ consumer[c].pc = "got"
  /\ inflight' = [inflight EXCEPT ![b] = "running"]
  /\ consumer' = [consumer EXCEPT ![c].pc = "run"]
  /\ UNCHANGED <<waiting, arrived, notices, events, drainList, missed, cancelled>>

\* A duplicate event is dropped rather than queued behind the run.
AcquireDropping(c) ==
  LET b == consumer[c].bucket IN
  /\ consumer[c].pc = "got"
  /\ IF inflight[b] = "absent"
     THEN /\ inflight' = [inflight EXCEPT ![b] = "running"]
          /\ consumer' = [consumer EXCEPT ![c].pc = "run"]
     ELSE /\ consumer' = [consumer EXCEPT ![c] = Idle]
          /\ UNCHANGED inflight
  /\ UNCHANGED <<waiting, arrived, notices, events, drainList, missed, cancelled>>

\* tryAcquire: take the bucket, or coalesce the event into one rerun.
TryAcquire(c) ==
  LET b == consumer[c].bucket IN
  /\ consumer[c].pc = "got"
  /\ IF inflight[b] = "absent"
     THEN /\ inflight' = [inflight EXCEPT ![b] = "running"]
          /\ consumer' = [consumer EXCEPT ![c].pc = "run"]
     ELSE /\ inflight' = [inflight EXCEPT ![b] = "rerun"]
          /\ consumer' = [consumer EXCEPT ![c] = Idle]
  /\ UNCHANGED <<waiting, arrived, notices, events, drainList, missed, cancelled>>

\* processBucket claims up to a batch of what waits now; what is beyond the
\* batch is left to a later event.
ClaimBucket(c) ==
  LET b == consumer[c].bucket
      n == IF waiting[b] <= Batch THEN waiting[b] ELSE Batch
  IN
  /\ consumer[c].pc = "run"
  /\ waiting' = [waiting EXCEPT ![b] = @ - n]
  /\ consumer' = [consumer EXCEPT ![c] = [pc |-> IF n = 0 THEN "finish" ELSE "claimed", bucket |-> b, held |-> n]]
  /\ missed' = IF waiting[b] > Batch THEN missed \union {b} ELSE missed \ {b}
  /\ UNCHANGED <<arrived, notices, events, drainList, inflight, cancelled>>

\* Groups are formed and committed: too few tickets are left over.
GroupsCommit(c) ==
  /\ consumer[c].pc = "claimed"
  /\ consumer' = [consumer EXCEPT ![c] = [pc |-> "return", bucket |-> consumer[c].bucket,
                                          held |-> consumer[c].held % Min]]
  /\ UNCHANGED <<waiting, arrived, notices, events, drainList, inflight, missed, cancelled>>

\* A group's backend step fails: its tickets wait for the next tick or notify.
GroupsFail(c) ==
  /\ consumer[c].pc = "claimed"
  /\ consumer[c].held >= Min
  /\ consumer' = [consumer EXCEPT ![c].pc = "return"]
  /\ missed' = missed \union {consumer[c].bucket}
  /\ UNCHANGED <<waiting, arrived, notices, events, drainList, inflight, cancelled>>

\* ReleaseTickets, ReturnTickets or ReturnUnmatched put the rest back.
ReturnRest(c) ==
  LET b == consumer[c].bucket IN
  /\ consumer[c].pc = "return"
  /\ waiting' = [waiting EXCEPT ![b] = @ + consumer[c].held]
  /\ consumer' = [consumer EXCEPT ![c] = [pc |-> "finish", bucket |-> b, held |-> 0]]
  /\ UNCHANGED <<arrived, notices, events, drainList, inflight, missed, cancelled>>

\* finish that never deletes the map entry.
FinishLeaks(c) ==
  LET b == consumer[c].bucket IN
  /\ consumer[c].pc = "finish"
  /\ inflight' = [inflight EXCEPT ![b] = "running"]
  /\ consumer' = [consumer EXCEPT ![c] = IF inflight[b] = "rerun" THEN [@ EXCEPT !.pc = "run"] ELSE Idle]
  /\ UNCHANGED <<waiting, arrived, notices, events, drainList, missed, cancelled>>

\* finish: run once more if an event came meanwhile, unless ctx ended.
Finish(c) ==
  LET b == consumer[c].bucket IN
  /\ consumer[c].pc = "finish"
  /\ inflight' = [inflight EXCEPT ![b] = IF inflight[b] = "rerun" THEN "running" ELSE "absent"]
  /\ consumer' = [consumer EXCEPT ![c] = IF inflight[b] = "rerun" /\ ~cancelled
                                         THEN [pc |-> "run", bucket |-> b, held |-> consumer[c].held] ELSE Idle]
  /\ UNCHANGED <<waiting, arrived, notices, events, drainList, missed, cancelled>>

StopPool ==
  /\ ~cancelled
  /\ cancelled' = TRUE
  /\ UNCHANGED <<waiting, arrived, notices, events, drainList, inflight, consumer, missed>>

\* The select may as well take ctx.Done.
ConsumerStops(c) ==
  /\ consumer[c].pc = "select"
  /\ cancelled
  /\ consumer' = [consumer EXCEPT ![c].pc = "exited"]
  /\ UNCHANGED <<waiting, arrived, notices, events, drainList, inflight, missed, cancelled>>

-----------------------------------------------------------------------------
Consume(c) ==
  \/ Receive(c) \/ TryAcquire(c) \/ ClaimBucket(c)
  \/ GroupsCommit(c) \/ GroupsFail(c) \/ ReturnRest(c) \/ Finish(c)
  \/ ConsumerStops(c)

PoolNext ==
  \/ \E b \in Buckets : Enqueue(b) \/ NotifyReceived(b) \/ NotifyLost(b)
  \/ Tick \/ DrainSend \/ DrainStops
  \/ \E c \in Consumers : Consume(c)
  \/ StopPool

PoolSpec == PoolInit /\ [][PoolNext]_poolVars

(***************************************************************************)
(* Fairness: the ticker fires, drain's loop and every consumer goroutine   *)
(* run on.  Notifications may be lost for ever and backends may always     *)
(* fail.                                                                   *)
(***************************************************************************)
PoolFairness ==
  /\ WF_poolVars(Tick) /\ WF_poolVars(DrainSend)
  /\ \A c \in Consumers : WF_poolVars(Consume(c))

-----------------------------------------------------------------------------
(* What the pool promises. *)

Busy(c, b) == consumer[c].bucket = b /\ consumer[c].pc \in {"run", "claimed", "return", "finish"}

\* Runs of one bucket are serialised across the pool, and the inflight map
\* holds exactly the buckets that have a run while the worker is up.
OneRunPerBucket ==
  \A b \in Buckets :
     /\ \A c1, c2 \in Consumers : Busy(c1, b) /\ Busy(c2, b) => c1 = c2
     /\ ~cancelled => (inflight[b] # "absent" <=> \E c \in Consumers : Busy(c, b))

Quiet(b) ==
  /\ \A i \in DOMAIN events : events[i] # b
  /\ \A c \in Consumers : consumer[c].bucket # b
  /\ notices[b] = 0

\* "No wakeup is lost" (consumeEvent): once the events of a bucket are worked
\* off, no group that could be formed is left waiting for the fallback ticker,
\* unless an event was dropped or lost, a batch was full or a backend failed.
NoLostWakeup ==
  \A b \in Buckets : Quiet(b) /\ b \notin missed /\ ~cancelled => waiting[b] < Min

\* WakeupsServed: every wakeup leads to a run, one at a time in its bucket.
WakeupsServed == OneRunPerBucket /\ NoLostWakeup

\* Whatever notifications are lost, a formable group is claimed in the end,
\* provided the channel is not full again and again.
FormableGroupsRun ==
  <>[](~Full /\ ~cancelled) => \A b \in Buckets : waiting[b] >= Min ~> waiting[b] < Min
=============================================================================
