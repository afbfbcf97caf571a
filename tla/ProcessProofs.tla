---------------------------- MODULE ProcessProofs ----------------------------
(***************************************************************************)
(* Theorems about what runs inside one server process: the consumer pool   *)
(* of the matchmaker worker (ConsumerPool), the supervisor of a fleet      *)
(* plugin's subprocess (PluginSupervisor), the selection of TURN relay     *)
(* nodes (RelayNodes), and what a relay node and the meter of a tenant's   *)
(* relay sessions count (RelayAllocations, RelayMeter).                    *)
(***************************************************************************)
EXTENDS ConsumerPool, PluginSupervisor, RelayNodes, RelayMeter,
        FiniteSetTheorems, SequenceTheorems, TLAPS

-----------------------------------------------------------------------------
(* The consumer pool *)

\* A consumer goroutine, without a bound on what it holds.
Goroutines == [pc : Step, bucket : Buckets \union {NoBucket}, held : Nat]

\* The pool's types; the bounds on tickets follow from Counted.
PoolTyped ==
  /\ waiting \in [Buckets -> Nat] /\ arrived \in [Buckets -> Nat] /\ notices \in [Buckets -> Nat]
  /\ events \in Seq(Buckets) /\ Len(events) <= Capacity
  /\ drainList \subseteq Buckets
  /\ inflight \in [Buckets -> {"absent", "running", "rerun"}]
  /\ consumer \in [Consumers -> Goroutines]
  /\ missed \subseteq Buckets
  /\ cancelled \in BOOLEAN

\* A consumer has a bucket from the event to the end of the run, and holds tickets
\* only between the claim and their return.
Placed ==
  \A c \in Consumers :
    /\ consumer[c].bucket = NoBucket <=> consumer[c].pc \in {"select", "exited"}
    /\ consumer[c].pc \notin {"claimed", "return"} => consumer[c].held = 0

\* No ticket is counted twice.
Counted ==
  \A b \in Buckets :
    /\ arrived[b] <= MaxTickets /\ waiting[b] <= arrived[b] /\ notices[b] <= arrived[b]
    /\ \A c \in Consumers : consumer[c].bucket = b => waiting[b] + consumer[c].held <= arrived[b]

\* A run has its bucket in the inflight map, after ctx ended too.
Acquired == \A b \in Buckets, c \in Consumers : Busy(c, b) => inflight[b] # "absent"

\* Something will run the bucket again, or the next tick has to.
Awaited(b) ==
  \/ b \in missed \/ notices[b] > 0 \/ inflight[b] = "rerun"
  \/ \E i \in DOMAIN events : events[i] = b
  \/ \E c \in Consumers : consumer[c].bucket = b /\ consumer[c].pc = "got"

\* What the current run has claimed, and what it will leave, is less than a group.
RunSees(b) ==
  /\ (\A c \in Consumers : ~Busy(c, b)) => waiting[b] < Min
  /\ \A c \in Consumers : consumer[c].bucket = b =>
       /\ consumer[c].pc = "claimed" => waiting[b] = 0
       /\ consumer[c].pc = "return" => waiting[b] = 0 /\ consumer[c].held < Min
       /\ consumer[c].pc = "finish" => waiting[b] < Min

\* Every bucket has an event on its way, or nothing to make a group of.
Settled == ~cancelled => \A b \in Buckets : Awaited(b) \/ RunSees(b)

\* The inductive invariant of the pool.
PoolInv == PoolTyped /\ Placed /\ Counted /\ Acquired /\ OneRunPerBucket /\ Settled

\* NewWorker: nothing waits, and no consumer has a bucket.
LEMMA PoolInitial == PoolInit => PoolInv
PROOF
  <1> SUFFICES ASSUME PoolInit PROVE PoolInv
    OBVIOUS
  <1>1. Idle \in Goroutines /\ Idle.pc = "select" /\ Idle.bucket = NoBucket /\ Idle.held = 0 /\ NoBucket \notin Buckets
    BY PoolConstants DEF Idle, Goroutines, Step, NoBucket
  <1>2. PoolTyped
    <2>1. events \in Seq(Buckets) /\ Len(events) = 0
      BY DEF PoolInit
    <2>2. consumer \in [Consumers -> Goroutines]
      BY <1>1 DEF PoolInit
    <2>3. cancelled \in BOOLEAN
      BY Zenon DEF PoolInit
    <2>4. /\ waiting \in [Buckets -> Nat] /\ arrived \in [Buckets -> Nat] /\ notices \in [Buckets -> Nat]
          /\ inflight \in [Buckets -> {"absent", "running", "rerun"}] /\ drainList = {} /\ missed = {}
      BY DEF PoolInit
    <2>5. Len(events) <= Capacity
      BY <2>1, PoolConstants
    <2> QED
      BY <2>1, <2>2, <2>3, <2>4, <2>5 DEF PoolTyped
  <1>3. \A c \in Consumers : consumer[c].pc = "select" /\ consumer[c].bucket = NoBucket /\ consumer[c].held = 0
    BY <1>1 DEF PoolInit
  <1>8. \A b \in Buckets : waiting[b] = 0 /\ arrived[b] = 0 /\ notices[b] = 0 /\ b # NoBucket
    BY <1>1 DEF PoolInit
  <1>9. Min \in Nat \ {0} /\ MaxTickets \in Nat
    BY PoolConstants
  <1>4. Placed /\ Acquired
    BY <1>3 DEF Placed, Acquired, Busy
  <1>5. Counted
    <2> SUFFICES ASSUME NEW b \in Buckets
                 PROVE  /\ arrived[b] <= MaxTickets /\ waiting[b] <= arrived[b] /\ notices[b] <= arrived[b]
                        /\ \A c \in Consumers : consumer[c].bucket # b
      BY DEF Counted
    <2>1. waiting[b] = 0 /\ arrived[b] = 0 /\ notices[b] = 0
      BY <1>8
    <2>2. \A c \in Consumers : consumer[c].bucket # b
      BY <1>3, <1>8
    <2> QED
      BY <1>9, <2>1, <2>2
  <1>6. OneRunPerBucket
    BY <1>3 DEF PoolInit, OneRunPerBucket, Busy
  <1>7. Settled
    <2> SUFFICES ASSUME NEW b \in Buckets
                 PROVE  waiting[b] < Min /\ \A c \in Consumers : consumer[c].bucket # b
      BY DEF Settled, RunSees
    <2>1. waiting[b] = 0
      BY <1>8
    <2>2. \A c \in Consumers : consumer[c].bucket # b
      BY <1>3, <1>8
    <2> QED
      BY <1>9, <2>1, <2>2
  <1> QED
    BY <1>2, <1>4, <1>5, <1>6, <1>7 DEF PoolInv

\* A send keeps what is on the channel, and what it does not send is not there.
LEMMA Sent ==
  ASSUME PoolTyped, NEW b \in Buckets, Send(b)
  PROVE  /\ events' \in Seq(Buckets) /\ Len(events') <= Capacity
         /\ \A a : (\E i \in DOMAIN events : events[i] = a) => \E i \in DOMAIN events' : events'[i] = a
         /\ Full \/ \E i \in DOMAIN events' : events'[i] = b
PROOF
  <1>1. events \in Seq(Buckets) /\ Len(events) \in Nat /\ Len(events) <= Capacity /\ Capacity \in Nat
    BY PoolConstants DEF PoolTyped
  <1>2. CASE Full
    BY <1>1, <1>2 DEF Send
  <1>3. CASE ~Full
    <2>1. events' = Append(events, b) /\ Len(events) < Capacity
      BY <1>1, <1>3 DEF Send, Full
    <2>2. /\ events' \in Seq(Buckets) /\ Len(events') = Len(events) + 1
          /\ \A i \in 1..Len(events) : events'[i] = events[i]
          /\ events'[Len(events) + 1] = b
      BY <1>1, <2>1
    <2>3. DOMAIN events = 1..Len(events) /\ DOMAIN events' = 1..(Len(events) + 1)
      BY <1>1, <2>2
    <2> QED
      BY <1>1, <2>1, <2>2, <2>3
  <1> QED
    BY <1>2, <1>3

\* Whatever still stands for a bucket keeps standing for it while events come in.
LEMMA EventsStep ==
  ASSUME PoolInv, UNCHANGED <<waiting, arrived, inflight, consumer, cancelled>>,
         PoolTyped', \A b \in Buckets : notices'[b] <= notices[b],
         \A b \in Buckets : Awaited(b) => Awaited(b)'
  PROVE  PoolInv'
PROOF
  <1>1. Placed' /\ Acquired' /\ OneRunPerBucket'
    BY DEF PoolInv, Placed, Acquired, OneRunPerBucket, Busy
  <1>2. Counted'
    BY DEF PoolInv, PoolTyped, Counted
  <1>3. Settled'
    BY DEF PoolInv, Settled, RunSees, Busy
  <1> QED
    BY <1>1, <1>2, <1>3 DEF PoolInv

\* One step of one consumer: the parts of the invariant that are about the others.
LEMMA ConsumerStep ==
  ASSUME PoolInv, NEW c \in Consumers, NEW q \in Goroutines, consumer' = [consumer EXCEPT ![c] = q],
         UNCHANGED <<arrived, notices, drainList, cancelled>>,
         q.bucket = NoBucket <=> q.pc \in {"select", "exited"},
         q.pc \notin {"claimed", "return"} => q.held = 0
  PROVE  /\ consumer' \in [Consumers -> Goroutines] /\ Placed'
         /\ consumer'[c] = q /\ \A d \in Consumers : d # c => consumer'[d] = consumer[d]
PROOF
  <1>1. consumer \in [Consumers -> Goroutines] /\ Placed
    BY DEF PoolInv, PoolTyped
  <1>2. consumer'[c] = q /\ \A d \in Consumers : d # c => consumer'[d] = consumer[d]
    BY <1>1
  <1> QED
    BY <1>1, <1>2 DEF Placed

\* What the invariant says of one bucket.
BucketInv(b) ==
  /\ arrived[b] <= MaxTickets /\ waiting[b] <= arrived[b] /\ notices[b] <= arrived[b]
  /\ \A c \in Consumers : consumer[c].bucket = b => waiting[b] + consumer[c].held <= arrived[b]
  /\ \A c \in Consumers : Busy(c, b) => inflight[b] # "absent"
  /\ \A c1, c2 \in Consumers : Busy(c1, b) /\ Busy(c2, b) => c1 = c2
  /\ ~cancelled => (inflight[b] # "absent" <=> \E c \in Consumers : Busy(c, b))
  /\ ~cancelled => Awaited(b) \/ RunSees(b)

\* The parts of the invariant that are about buckets, taken bucket by bucket.
LEMMA ByBucket ==
  /\ (Counted /\ Acquired /\ OneRunPerBucket /\ Settled) <=> \A b \in Buckets : BucketInv(b)
  /\ (Counted /\ Acquired /\ OneRunPerBucket /\ Settled)' <=> \A b \in Buckets : BucketInv(b)'
PROOF
  BY DEF Counted, Acquired, OneRunPerBucket, Settled, BucketInv

\* A step of one consumer on one bucket says nothing of another bucket.
LEMMA OtherBucket ==
  ASSUME PoolInv, NEW c \in Consumers, NEW q, consumer'[c] = q,
         \A d \in Consumers : d # c => consumer'[d] = consumer[d],
         NEW a \in Buckets, consumer[c].bucket # a, q.bucket # a,
         waiting'[a] = waiting[a], inflight'[a] = inflight[a], a \in missed => a \in missed',
         (\E i \in DOMAIN events : events[i] = a) => \E i \in DOMAIN events' : events'[i] = a,
         UNCHANGED <<arrived, notices, cancelled>>
  PROVE  BucketInv(a)'
PROOF
  <1>1. BucketInv(a)
    BY ByBucket DEF PoolInv
  <1>2. \A d \in Consumers : (consumer'[d].bucket = a <=> consumer[d].bucket = a)
                             /\ (consumer[d].bucket = a => consumer'[d] = consumer[d])
    OBVIOUS
  <1>3. \A d \in Consumers : Busy(d, a)' <=> Busy(d, a)
    BY <1>2 DEF Busy
  <1>4. Awaited(a) => Awaited(a)'
    BY <1>2 DEF Awaited
  <1>5. RunSees(a) => RunSees(a)'
    BY <1>2, <1>3 DEF RunSees
  <1>6. /\ arrived'[a] <= MaxTickets /\ waiting'[a] <= arrived'[a] /\ notices'[a] <= arrived'[a]
        /\ \A d \in Consumers : consumer'[d].bucket = a => waiting'[a] + consumer'[d].held <= arrived'[a]
    BY <1>1, <1>2 DEF BucketInv
  <1>7. /\ \A d \in Consumers : Busy(d, a)' => inflight'[a] # "absent"
        /\ \A c1, c2 \in Consumers : Busy(c1, a)' /\ Busy(c2, a)' => c1 = c2
        /\ ~cancelled' => (inflight'[a] # "absent" <=> \E d \in Consumers : Busy(d, a)')
    BY <1>1, <1>3 DEF BucketInv
  <1>8. ~cancelled' => (Awaited(a) \/ RunSees(a))'
    BY <1>1, <1>4, <1>5 DEF BucketInv
  <1> QED
    BY <1>6, <1>7, <1>8 DEF BucketInv

\* A step of a consumer's run of a bucket: what it has of the bucket becomes q, w
\* tickets wait then, and f is the bucket's entry in the inflight map.
Moves(c, b, q, w, f) ==
  /\ c \in Consumers /\ b \in Buckets /\ q \in Goroutines /\ w \in Nat /\ f \in {"absent", "running", "rerun"}
  /\ consumer' = [consumer EXCEPT ![c] = q] /\ consumer[c].bucket = b /\ q.bucket \in {b, NoBucket}
  /\ q.bucket = NoBucket <=> q.pc \in {"select", "exited"}
  /\ q.pc \notin {"claimed", "return"} => q.held = 0
  /\ waiting' = [waiting EXCEPT ![b] = w] /\ inflight' = [inflight EXCEPT ![b] = f]
  /\ missed \subseteq missed' \union {b} /\ missed' \subseteq missed \union {b}
  /\ UNCHANGED <<arrived, notices, events, drainList, cancelled>>

\* What such a step changes, and nothing else.
LEMMA BucketMoves ==
  ASSUME PoolInv, NEW c, NEW b, NEW q, NEW w, NEW f, Moves(c, b, q, w, f)
  PROVE  /\ consumer'[c] = q /\ \A d \in Consumers : d # c => consumer'[d] = consumer[d]
         /\ waiting'[b] = w /\ inflight'[b] = f
         /\ UNCHANGED <<arrived, notices, events, drainList, cancelled>>
         /\ BucketInv(b) /\ b \in Buckets /\ b # NoBucket /\ consumer[c].bucket = b
PROOF
  <1>1. PoolTyped /\ BucketInv(b) /\ NoBucket \notin Buckets
    BY ByBucket, PoolConstants DEF PoolInv, Moves, NoBucket
  <1> QED
    BY <1>1 DEF Moves, PoolTyped

\* It leaves the other buckets alone: only its own has to be looked at.
LEMMA BucketStep ==
  ASSUME PoolInv, NEW c, NEW b, NEW q, NEW w, NEW f, Moves(c, b, q, w, f), BucketInv(b)'
  PROVE  PoolInv'
PROOF
  <1>0. PoolTyped /\ NoBucket \notin Buckets
    BY PoolConstants DEF PoolInv, NoBucket
  <1>1. /\ consumer' \in [Consumers -> Goroutines] /\ Placed'
        /\ consumer'[c] = q /\ \A d \in Consumers : d # c => consumer'[d] = consumer[d]
    BY ConsumerStep DEF Moves
  <1>2. /\ waiting' \in [Buckets -> Nat] /\ \A a \in Buckets : a # b => waiting'[a] = waiting[a]
        /\ inflight' \in [Buckets -> {"absent", "running", "rerun"}]
        /\ \A a \in Buckets : a # b => inflight'[a] = inflight[a]
    BY <1>0 DEF PoolTyped, Moves
  <1>3. PoolTyped'
    BY <1>0, <1>1, <1>2 DEF PoolTyped, Moves
  <1>4. ASSUME NEW a \in Buckets, a # b PROVE BucketInv(a)'
    <2>1. consumer[c].bucket # a /\ q.bucket # a /\ c \in Consumers
      BY <1>0, <1>4 DEF Moves
    <2>2. waiting'[a] = waiting[a] /\ inflight'[a] = inflight[a] /\ (a \in missed => a \in missed')
      BY <1>2, <1>4 DEF Moves
    <2>3. /\ (\E i \in DOMAIN events : events[i] = a) => \E i \in DOMAIN events' : events'[i] = a
          /\ UNCHANGED <<arrived, notices, cancelled>>
      BY DEF Moves
    <2> QED
      BY <1>1, <2>1, <2>2, <2>3, OtherBucket
  <1>5. \A a \in Buckets : BucketInv(a)'
    BY <1>4
  <1> QED
    BY <1>1, <1>3, <1>5, ByBucket DEF PoolInv

\* A consumer with a run has the bucket to itself: the others that have it only got
\* an event.
LEMMA AloneInBucket ==
  ASSUME PoolInv, NEW c \in Consumers, consumer[c].pc \in {"run", "claimed", "return", "finish"}
  PROVE  /\ consumer[c].bucket \in Buckets /\ Busy(c, consumer[c].bucket)
         /\ inflight[consumer[c].bucket] # "absent"
         /\ \A d \in Consumers : d # c /\ consumer[d].bucket = consumer[c].bucket
                                   => consumer[d].pc = "got" /\ consumer[d].held = 0
         /\ \A d \in Consumers : d # c => ~Busy(d, consumer[c].bucket)
PROOF
  <1>0. /\ PoolTyped /\ Placed /\ Acquired /\ OneRunPerBucket
        /\ \A d \in Consumers : consumer[d] \in Goroutines /\ consumer[d].bucket \in Buckets \union {NoBucket}
    BY DEF PoolInv, PoolTyped, Goroutines
  <1>1. consumer[c].bucket # NoBucket
    BY <1>0 DEF Placed
  <1>2. consumer[c].bucket \in Buckets
    BY <1>0, <1>1
  <1>3. Busy(c, consumer[c].bucket)
    BY DEF Busy
  <1>4. \A d \in Consumers : d # c => ~Busy(d, consumer[c].bucket)
    BY <1>0, <1>2, <1>3 DEF OneRunPerBucket
  <1>5. ASSUME NEW d \in Consumers, d # c, consumer[d].bucket = consumer[c].bucket
        PROVE  consumer[d].pc = "got" /\ consumer[d].held = 0
    <2>1. consumer[d].pc \notin {"run", "claimed", "return", "finish", "select", "exited"}
      BY <1>0, <1>1, <1>4, <1>5 DEF Busy, Placed
    <2>2. consumer[d].pc \in Step
      BY <1>0 DEF Goroutines
    <2>3. consumer[d].pc = "got"
      BY <2>1, <2>2 DEF Step
    <2> QED
      BY <1>0, <2>3 DEF Placed
  <1> QED
    BY <1>0, <1>2, <1>3, <1>4, <1>5 DEF Acquired

\* A step within a run.
LEMMA RunStep ==
  ASSUME PoolInv, NEW c, NEW b, NEW q, NEW w, NEW f, Moves(c, b, q, w, f), f # "absent",
         consumer[c].pc \in {"run", "claimed", "return", "finish"}, q.pc \in {"run", "claimed", "return", "finish"},
         w + q.held <= arrived[b],
         cancelled \/ b \in missed' \/ (UNCHANGED missed /\ f = inflight[b] /\ Awaited(b))
           \/ /\ q.pc = "claimed" => w = 0
              /\ q.pc = "return" => w = 0 /\ q.held < Min
              /\ q.pc = "finish" => w < Min
  PROVE  PoolInv'
PROOF
  <1>1. /\ consumer'[c] = q /\ \A d \in Consumers : d # c => consumer'[d] = consumer[d]
        /\ waiting'[b] = w /\ inflight'[b] = f /\ UNCHANGED <<arrived, notices, events, cancelled>>
        /\ BucketInv(b) /\ b \in Buckets /\ b # NoBucket /\ consumer[c].bucket = b
    BY BucketMoves
  <1>2. /\ c \in Consumers /\ q.bucket = b /\ w \in Nat /\ q.held \in Nat
        /\ arrived[b] \in Nat
    BY <1>1 DEF Moves, PoolInv, PoolTyped, Goroutines
  <1>3. /\ \A d \in Consumers : d # c /\ consumer[d].bucket = b => consumer[d].pc = "got" /\ consumer[d].held = 0
        /\ \A d \in Consumers : d # c => ~Busy(d, b)
    BY <1>1, <1>2, AloneInBucket
  <1>4. \A d \in Consumers : Busy(d, b)' <=> d = c
    BY <1>1, <1>2, <1>3 DEF Busy
  <1>5. ASSUME NEW d \in Consumers, consumer'[d].bucket = b PROVE waiting'[b] + consumer'[d].held <= arrived'[b]
    <2>1. CASE d = c
      BY <1>1, <2>1
    <2>2. CASE d # c
      <3>1. consumer'[d].held = 0
        BY <1>1, <1>3, <1>5, <2>2
      <3>2. w + 0 <= arrived[b]
        BY <1>2
      <3> QED
        BY <1>1, <3>1, <3>2
    <2> QED
      BY <2>1, <2>2
  <1>6. waiting'[b] <= arrived'[b]
    BY <1>1, <1>2
  <1>7. ~cancelled' => (Awaited(b) \/ RunSees(b))'
    <2>1. CASE b \in missed'
      BY <2>1 DEF Awaited
    <2>2. CASE UNCHANGED missed /\ f = inflight[b] /\ Awaited(b)
      <3>1. \A d \in Consumers : consumer[d].bucket = b /\ consumer[d].pc = "got"
                                   => consumer'[d].bucket = b /\ consumer'[d].pc = "got"
        BY <1>1, <1>2
      <3> QED
        BY <1>1, <2>2, <3>1 DEF Awaited
    <2>3. CASE /\ q.pc = "claimed" => w = 0
               /\ q.pc = "return" => w = 0 /\ q.held < Min
               /\ q.pc = "finish" => w < Min
      <3>1. ASSUME NEW d \in Consumers, consumer'[d].bucket = b
            PROVE  /\ consumer'[d].pc = "claimed" => waiting'[b] = 0
                   /\ consumer'[d].pc = "return" => waiting'[b] = 0 /\ consumer'[d].held < Min
                   /\ consumer'[d].pc = "finish" => waiting'[b] < Min
        <4>1. CASE d = c
          BY <1>1, <2>3, <4>1
        <4>2. CASE d # c
          <5>1. consumer'[d].pc = "got"
            BY <1>1, <1>3, <3>1, <4>2
          <5> QED
            BY <5>1
        <4> QED
          BY <4>1, <4>2
      <3> QED
        BY <1>2, <1>4, <3>1 DEF RunSees
    <2> QED
      BY <1>1, <2>1, <2>2, <2>3
  <1>8. BucketInv(b)'
    BY <1>1, <1>2, <1>4, <1>5, <1>6, <1>7 DEF BucketInv
  <1> QED
    BY <1>8, BucketStep

\* What is left over when groups of Min are taken from n tickets.
LEMMA Remainder == ASSUME NEW n \in Nat, NEW m \in Nat \ {0} PROVE n % m \in Nat /\ n % m <= n /\ n % m < m
PROOF
  OBVIOUS

\* Every step of the pool preserves the invariant: an event is passed on from the
\* notice to the channel, to a consumer and to the rerun flag, or its loss is
\* recorded, and a run that no event came during leaves less than a group.
LEMMA PoolStep == PoolInv /\ [PoolNext]_poolVars => PoolInv'
PROOF
  <1> SUFFICES ASSUME PoolInv, [PoolNext]_poolVars PROVE PoolInv'
    OBVIOUS
  <1>0. /\ PoolTyped /\ Placed /\ Counted /\ Acquired /\ OneRunPerBucket /\ Settled
        /\ NoBucket \notin Buckets /\ Min \in Nat \ {0} /\ Batch \in Nat \ {0} /\ MaxTickets \in Nat
        /\ \A b \in Buckets : /\ waiting[b] \in Nat /\ arrived[b] \in Nat /\ notices[b] \in Nat
                              /\ inflight[b] \in {"absent", "running", "rerun"}
        /\ \A c \in Consumers : /\ consumer[c] \in Goroutines /\ consumer[c].held \in Nat
                                /\ consumer[c].bucket \in Buckets \union {NoBucket}
    BY PoolConstants DEF PoolInv, PoolTyped, Goroutines, NoBucket
  <1>1. ASSUME NEW b \in Buckets, Enqueue(b) PROVE PoolInv'
    <2>1. /\ arrived[b] < MaxTickets
          /\ arrived' = [arrived EXCEPT ![b] = arrived[b] + 1] /\ waiting' = [waiting EXCEPT ![b] = waiting[b] + 1]
          /\ notices' = [notices EXCEPT ![b] = notices[b] + 1]
          /\ UNCHANGED <<events, drainList, inflight, consumer, missed, cancelled>>
      BY <1>1 DEF Enqueue
    <2>2. /\ arrived'[b] = arrived[b] + 1 /\ waiting'[b] = waiting[b] + 1 /\ notices'[b] = notices[b] + 1
          /\ \A a \in Buckets : a # b => arrived'[a] = arrived[a] /\ waiting'[a] = waiting[a] /\ notices'[a] = notices[a]
      BY <1>0, <2>1 DEF PoolTyped
    <2>3. PoolTyped'
      BY <1>0, <2>1 DEF PoolTyped
    <2>4. Counted'
      <3> SUFFICES ASSUME NEW a \in Buckets
                   PROVE  /\ arrived'[a] <= MaxTickets /\ waiting'[a] <= arrived'[a] /\ notices'[a] <= arrived'[a]
                          /\ \A c \in Consumers : consumer[c].bucket = a => waiting'[a] + consumer[c].held <= arrived'[a]
        BY <2>1 DEF Counted
      <3>1. CASE a = b
        BY <1>0, <2>1, <2>2, <3>1 DEF Counted
      <3>2. CASE a # b
        BY <1>0, <2>2, <3>2 DEF Counted
      <3> QED
        BY <3>1, <3>2
    <2>5. Settled'
      <3>1. Awaited(b)'
        BY <1>0, <2>2 DEF Awaited
      <3>2. ASSUME NEW a \in Buckets, a # b, Awaited(a) \/ RunSees(a) PROVE (Awaited(a) \/ RunSees(a))'
        BY <2>1, <2>2, <3>2 DEF Awaited, RunSees, Busy
      <3> QED
        BY <1>0, <2>1, <3>1, <3>2 DEF Settled
    <2> QED
      BY <1>0, <2>1, <2>3, <2>4, <2>5 DEF PoolInv, Placed, Acquired, OneRunPerBucket, Busy
  <1>2. ASSUME NEW b \in Buckets, NotifyReceived(b) \/ NotifyLost(b) PROVE PoolInv'
    <2>1. /\ notices[b] > 0 /\ notices' = [notices EXCEPT ![b] = notices[b] - 1]
          /\ UNCHANGED <<waiting, arrived, drainList, inflight, consumer, cancelled>>
          /\ \/ Send(b) /\ missed' = IF Full THEN missed \union {b} ELSE missed
             \/ UNCHANGED events /\ missed' = missed \union {b}
      BY <1>2 DEF NotifyReceived, NotifyLost
    <2>2. /\ notices'[b] = notices[b] - 1 /\ \A a \in Buckets : a # b => notices'[a] = notices[a]
          /\ notices' \in [Buckets -> Nat] /\ \A a \in Buckets : notices'[a] <= notices[a]
      <3>1. notices[b] - 1 \in Nat /\ notices[b] - 1 <= notices[b]
        BY <1>0, <2>1
      <3>2. /\ notices'[b] = notices[b] - 1 /\ \A a \in Buckets : a # b => notices'[a] = notices[a]
            /\ notices' \in [Buckets -> Nat]
        BY <1>0, <2>1, <3>1 DEF PoolTyped
      <3>3. ASSUME NEW a \in Buckets PROVE notices'[a] <= notices[a]
        BY <1>0, <3>1, <3>2
      <3> QED
        BY <3>2, <3>3
    <2>3. /\ events' \in Seq(Buckets) /\ Len(events') <= Capacity
          /\ \A a : (\E i \in DOMAIN events : events[i] = a) => \E i \in DOMAIN events' : events'[i] = a
          /\ b \in missed' \/ \E i \in DOMAIN events' : events'[i] = b
          /\ missed \subseteq missed' /\ missed' \subseteq Buckets
      BY <1>0, <2>1, Sent DEF PoolTyped
    <2>4. PoolTyped'
      BY <1>0, <2>1, <2>2, <2>3 DEF PoolTyped
    <2>5. ASSUME NEW a \in Buckets, Awaited(a) PROVE Awaited(a)'
      <3>1. CASE a = b
        BY <2>3, <3>1 DEF Awaited
      <3>2. CASE a # b
        BY <2>1, <2>2, <2>3, <2>5, <3>2 DEF Awaited
      <3> QED
        BY <3>1, <3>2
    <2> QED
      BY <2>1, <2>2, <2>4, <2>5, EventsStep
  <1>3. CASE Tick \/ DrainSend \/ DrainStops
    <2>1. /\ UNCHANGED <<waiting, arrived, notices, inflight, consumer, missed, cancelled>>
          /\ drainList' \subseteq Buckets
          /\ UNCHANGED events \/ \E b \in Buckets : Send(b)
      BY <1>0, <1>3 DEF Tick, DrainSend, DrainStops, PoolTyped
    <2>2. /\ events' \in Seq(Buckets) /\ Len(events') <= Capacity
          /\ \A a : (\E i \in DOMAIN events : events[i] = a) => \E i \in DOMAIN events' : events'[i] = a
      BY <1>0, <2>1, Sent DEF PoolTyped
    <2>3. PoolTyped'
      BY <1>0, <2>1, <2>2 DEF PoolTyped
    <2>4. ASSUME NEW a \in Buckets PROVE notices'[a] <= notices[a]
      BY <1>0, <2>1
    <2>5. ASSUME NEW a \in Buckets, Awaited(a) PROVE Awaited(a)'
      BY <2>1, <2>2, <2>5 DEF Awaited
    <2> QED
      BY <2>1, <2>3, <2>4, <2>5, EventsStep
  <1>4. CASE StopPool
    <2>1. cancelled' = TRUE /\ UNCHANGED <<waiting, arrived, notices, events, drainList, inflight, consumer, missed>>
      BY <1>4 DEF StopPool
    <2>2. cancelled' \in BOOLEAN
      BY <2>1, Zenon
    <2> QED
      BY <1>0, <2>1, <2>2 DEF PoolInv, PoolTyped, Placed, Counted, Acquired, OneRunPerBucket, Busy, Settled
  <1>5. ASSUME NEW c \in Consumers, Receive(c) PROVE PoolInv'
    <2>1. PICK b : b = Head(events)
      OBVIOUS
    <2>2. events \in Seq(Buckets) /\ events # <<>> /\ Len(events) \in Nat /\ Len(events) <= Capacity /\ Capacity \in Nat
      BY <1>0, <1>5, PoolConstants DEF Receive, PoolTyped
    <2>3. b \in Buckets /\ events' \in Seq(Buckets) /\ Len(events') <= Capacity
          /\ \A a : a # b /\ (\E i \in DOMAIN events : events[i] = a) => \E i \in DOMAIN events' : events'[i] = a
      <3>1. events' = Tail(events)
        BY <1>5 DEF Receive
      <3>2. /\ events' \in Seq(Buckets) /\ Len(events') = Len(events) - 1 /\ b = events[1] /\ Len(events) >= 1
            /\ \A i \in 1..(Len(events) - 1) : events'[i] = events[i + 1]
        BY <2>1, <2>2, <3>1
      <3>3. DOMAIN events = 1..Len(events) /\ DOMAIN events' = 1..(Len(events) - 1)
        BY <2>2, <3>2
      <3>4. ASSUME NEW a, a # b, NEW i \in DOMAIN events, events[i] = a
            PROVE  \E j \in DOMAIN events' : events'[j] = a
        <4>1. i \in 1..Len(events) /\ i # 1
          BY <3>2, <3>3, <3>4
        <4>2. i - 1 \in 1..(Len(events) - 1) /\ (i - 1) + 1 = i
          BY <2>2, <4>1
        <4> QED
          BY <3>2, <3>3, <3>4, <4>2
      <3>5. b \in Buckets
        BY <2>2, <3>2
      <3>6. Len(events') <= Capacity
        BY <2>2, <3>2
      <3>7. \A a : a # b /\ (\E i \in DOMAIN events : events[i] = a) => \E i \in DOMAIN events' : events'[i] = a
        BY <3>4
      <3> QED
        BY <3>2, <3>5, <3>6, <3>7
    <2>4. PICK q : q = [pc |-> "got", bucket |-> b, held |-> 0]
      OBVIOUS
    <2>5. q \in Goroutines /\ q.pc = "got" /\ q.bucket = b /\ q.held = 0 /\ b # NoBucket
      BY <1>0, <2>3, <2>4 DEF Goroutines, Step
    <2>6. /\ consumer' = [consumer EXCEPT ![c] = q] /\ consumer[c].pc = "select"
          /\ UNCHANGED <<waiting, arrived, notices, drainList, inflight, missed, cancelled>>
      BY <1>5, <2>1, <2>4 DEF Receive
    <2>7. /\ consumer' \in [Consumers -> Goroutines] /\ Placed'
          /\ consumer'[c] = q /\ \A d \in Consumers : d # c => consumer'[d] = consumer[d]
      BY <2>5, <2>6, ConsumerStep
    <2>8. consumer[c].bucket = NoBucket
      BY <1>0, <2>6 DEF Placed
    <2>9. ASSUME NEW a \in Buckets, a # b PROVE BucketInv(a)'
      <3>1. consumer[c].bucket # a /\ q.bucket # a
        BY <1>0, <2>5, <2>8, <2>9
      <3>2. (\E i \in DOMAIN events : events[i] = a) => \E i \in DOMAIN events' : events'[i] = a
        BY <2>3, <2>9
      <3> QED
        BY <2>6, <2>7, <3>1, <3>2, OtherBucket
    <2>10. BucketInv(b)'
      <3>1. BucketInv(b)
        BY <1>0, <2>3, ByBucket
      <3>2. \A d \in Consumers : Busy(d, b)' <=> Busy(d, b)
        BY <2>5, <2>6, <2>7 DEF Busy
      <3>3. Awaited(b)'
        BY <2>5, <2>7 DEF Awaited
      <3>4. \A d \in Consumers : consumer'[d].bucket = b => waiting'[b] + consumer'[d].held <= arrived'[b]
        <4> SUFFICES ASSUME NEW d \in Consumers, consumer'[d].bucket = b
                     PROVE  waiting[b] + consumer'[d].held <= arrived[b]
          BY <2>6
        <4>1. waiting[b] <= arrived[b] /\ (consumer[d].bucket = b => waiting[b] + consumer[d].held <= arrived[b])
          BY <3>1 DEF BucketInv
        <4>2. CASE d = c
          BY <1>0, <2>3, <2>5, <2>7, <4>1, <4>2
        <4>3. CASE d # c
          BY <2>7, <4>1, <4>3
        <4> QED
          BY <4>2, <4>3
      <3> QED
        BY <2>6, <3>1, <3>2, <3>3, <3>4 DEF BucketInv
    <2>11. PoolTyped'
      BY <1>0, <2>3, <2>6, <2>7 DEF PoolTyped
    <2>12. \A a \in Buckets : BucketInv(a)'
      BY <2>9, <2>10
    <2> QED
      BY <2>7, <2>11, <2>12, ByBucket DEF PoolInv
  <1>7. ASSUME NEW c \in Consumers, TryAcquire(c) PROVE PoolInv'
    <2>1. PICK b : b = consumer[c].bucket
      OBVIOUS
    <2>2. consumer[c].pc = "got" /\ b \in Buckets /\ consumer[c].held = 0 /\ consumer[c].bucket = b
      <3>1. consumer[c].pc = "got"
        BY <1>7 DEF TryAcquire
      <3>2. b # NoBucket /\ consumer[c].held = 0
        BY <1>0, <2>1, <3>1 DEF Placed
      <3> QED
        BY <1>0, <2>1, <3>1, <3>2
    <2>3. BucketInv(b) /\ UNCHANGED <<waiting, arrived, notices, events, drainList, missed, cancelled>>
      BY <1>0, <1>7, <2>2, ByBucket DEF TryAcquire
    <2>4. waiting' = [waiting EXCEPT ![b] = waiting[b]] /\ waiting[b] \in Nat /\ waiting'[b] = waiting[b]
      BY <1>0, <2>2, <2>3 DEF PoolTyped
    <2>5. ASSUME NEW d \in Consumers PROVE consumer[d].bucket = b /\ ~Busy(d, b) => consumer[d].pc = "got"
      <3>1. consumer[d].bucket = b => consumer[d].pc \notin {"select", "exited"}
        BY <1>0, <2>2 DEF Placed
      <3>2. consumer[d].pc \in Step
        BY <1>0 DEF Goroutines
      <3> QED
        BY <3>1, <3>2 DEF Step, Busy
    <2>6. CASE inflight[b] = "absent"
      <3>1. PICK q : q = [pc |-> "run", bucket |-> b, held |-> 0]
        OBVIOUS
      <3>2. q \in Goroutines /\ q.pc = "run" /\ q.bucket = b /\ q.held = 0 /\ b # NoBucket
        BY <1>0, <2>2, <3>1 DEF Goroutines, Step
      <3>3. consumer' = [consumer EXCEPT ![c] = q] /\ inflight' = [inflight EXCEPT ![b] = "running"]
        <4>1. consumer' = [consumer EXCEPT ![c].pc = "run"] /\ inflight' = [inflight EXCEPT ![b] = "running"]
          BY <1>7, <2>1, <2>6 DEF TryAcquire
        <4>2. [consumer[c] EXCEPT !.pc = "run"] = q
          BY <1>0, <2>2, <3>1 DEF Goroutines
        <4> QED
          BY <1>0, <4>1, <4>2 DEF PoolTyped
      <3>5. Moves(c, b, q, waiting[b], "running")
        BY <2>2, <2>3, <2>4, <3>2, <3>3 DEF Moves
      <3>4. consumer'[c] = q /\ (\A d \in Consumers : d # c => consumer'[d] = consumer[d]) /\ inflight'[b] = "running"
        BY <3>5, BucketMoves
      <3>6. BucketInv(b)'
        <4>1. \A d \in Consumers : ~Busy(d, b)
          BY <2>3, <2>6 DEF BucketInv
        <4>2. \A d \in Consumers : Busy(d, b)' <=> d = c
          BY <3>2, <3>4, <4>1 DEF Busy
        <4>3. RunSees(b)'
          <5>1. ASSUME NEW d \in Consumers, consumer'[d].bucket = b PROVE consumer'[d].pc \in {"run", "got"}
            BY <2>5, <3>2, <3>4, <4>1, <5>1
          <5> QED
            BY <4>2, <5>1 DEF RunSees
        <4>4. \A d \in Consumers : consumer'[d].bucket = b => waiting'[b] + consumer'[d].held <= arrived'[b]
          <5> SUFFICES ASSUME NEW d \in Consumers, consumer'[d].bucket = b
                       PROVE  consumer'[d].held = consumer[d].held /\ consumer[d].bucket = b
            BY <2>3 DEF BucketInv
          <5> QED
            BY <2>2, <3>2, <3>4
        <4>5. /\ \A d \in Consumers : Busy(d, b)' => inflight'[b] # "absent"
              /\ \A c1, c2 \in Consumers : Busy(c1, b)' /\ Busy(c2, b)' => c1 = c2
              /\ ~cancelled' => (inflight'[b] # "absent" <=> \E d \in Consumers : Busy(d, b)')
          BY <3>4, <4>2
        <4> QED
          BY <2>3, <4>3, <4>4, <4>5 DEF BucketInv
      <3> QED
        BY <3>5, <3>6, BucketStep
    <2>7. CASE inflight[b] # "absent"
      <3>1. consumer' = [consumer EXCEPT ![c] = Idle] /\ inflight' = [inflight EXCEPT ![b] = "rerun"]
        BY <1>7, <2>1, <2>7 DEF TryAcquire
      <3>2. Idle \in Goroutines /\ Idle.pc = "select" /\ Idle.bucket = NoBucket /\ Idle.held = 0 /\ b # NoBucket
        BY <1>0, <2>2 DEF Goroutines, Step, Idle
      <3>5. Moves(c, b, Idle, waiting[b], "rerun")
        BY <2>2, <2>3, <2>4, <3>1, <3>2 DEF Moves
      <3>3. consumer'[c] = Idle /\ (\A d \in Consumers : d # c => consumer'[d] = consumer[d]) /\ inflight'[b] = "rerun"
        BY <3>5, BucketMoves
      <3>6. BucketInv(b)'
        <4>1. \A d \in Consumers : Busy(d, b)' <=> Busy(d, b)
          BY <2>2, <3>2, <3>3 DEF Busy
        <4>2. Awaited(b)'
          BY <3>3 DEF Awaited
        <4>3. \A d \in Consumers : consumer'[d].bucket = b => waiting'[b] + consumer'[d].held <= arrived'[b]
          <5> SUFFICES ASSUME NEW d \in Consumers, consumer'[d].bucket = b
                       PROVE  consumer'[d].held = consumer[d].held /\ consumer[d].bucket = b
            BY <2>3 DEF BucketInv
          <5> QED
            BY <3>2, <3>3
        <4>5. /\ \A d \in Consumers : Busy(d, b)' => inflight'[b] # "absent"
              /\ \A c1, c2 \in Consumers : Busy(c1, b)' /\ Busy(c2, b)' => c1 = c2
              /\ ~cancelled' => (inflight'[b] # "absent" <=> \E d \in Consumers : Busy(d, b)')
          BY <2>3, <2>7, <3>3, <4>1 DEF BucketInv
        <4> QED
          BY <2>3, <4>2, <4>3, <4>5 DEF BucketInv
      <3> QED
        BY <3>5, <3>6, BucketStep
    <2> QED
      BY <2>6, <2>7
  <1>8. ASSUME NEW c \in Consumers, consumer[c].pc \in {"run", "claimed", "return", "finish"}, UNCHANGED waiting
        PROVE  waiting' = [waiting EXCEPT ![consumer[c].bucket] = waiting[consumer[c].bucket]]
    BY <1>0, <1>8 DEF PoolTyped
  <1>9. ASSUME NEW c \in Consumers, consumer[c].pc \in {"run", "claimed", "return", "finish"}, UNCHANGED inflight
        PROVE  inflight' = [inflight EXCEPT ![consumer[c].bucket] = inflight[consumer[c].bucket]]
    BY <1>0, <1>9 DEF PoolTyped
  <1>10. ASSUME NEW c \in Consumers, consumer[c].pc \in {"run", "claimed", "return", "finish"}
         PROVE  /\ consumer[c].bucket \in Buckets /\ consumer[c].bucket # NoBucket
                /\ inflight[consumer[c].bucket] \in {"running", "rerun"}
                /\ waiting[consumer[c].bucket] + consumer[c].held <= arrived[consumer[c].bucket]
                /\ consumer[c].pc \in {"run", "finish"} => consumer[c].held = 0
    BY <1>0, <1>10, AloneInBucket DEF Counted, Placed
  <1>11. ASSUME NEW c \in Consumers, ClaimBucket(c) PROVE PoolInv'
    <2>1. PICK b, n : b = consumer[c].bucket /\ n = (IF waiting[b] <= Batch THEN waiting[b] ELSE Batch)
      OBVIOUS
    <2>2. /\ consumer[c].pc = "run" /\ waiting' = [waiting EXCEPT ![b] = waiting[b] - n]
          /\ consumer' = [consumer EXCEPT ![c] = [pc |-> IF n = 0 THEN "finish" ELSE "claimed", bucket |-> b, held |-> n]]
          /\ missed' = IF waiting[b] > Batch THEN missed \union {b} ELSE missed \ {b}
          /\ UNCHANGED <<arrived, notices, events, drainList, inflight, cancelled>>
      BY <1>11, <2>1 DEF ClaimBucket
    <2>3. /\ b \in Buckets /\ b # NoBucket /\ inflight[b] \in {"running", "rerun"} /\ consumer[c].bucket = b
          /\ waiting[b] \in Nat /\ arrived[b] \in Nat
      BY <1>0, <1>10, <2>1, <2>2
    <2>4. /\ n \in Nat /\ waiting[b] - n \in Nat /\ (waiting[b] - n) + n <= arrived[b]
          /\ waiting[b] > Batch \/ waiting[b] - n = 0
      <3>1. waiting[b] <= arrived[b]
        BY <1>0, <2>3 DEF Counted
      <3>2. CASE waiting[b] <= Batch
        BY <1>0, <2>1, <2>3, <3>1, <3>2
      <3>3. CASE ~(waiting[b] <= Batch)
        BY <1>0, <2>1, <2>3, <3>1, <3>3
      <3> QED
        BY <3>2, <3>3
    <2>5. PICK q, p : p = (IF n = 0 THEN "finish" ELSE "claimed") /\ q = [pc |-> p, bucket |-> b, held |-> n]
      OBVIOUS
    <2>6. p \in {"finish", "claimed"} /\ (p = "finish" => n = 0)
      BY <2>5
    <2>7. q \in Goroutines /\ q.pc = p /\ q.bucket = b /\ q.held = n
      BY <2>3, <2>4, <2>5, <2>6 DEF Goroutines, Step
    <2>8. Moves(c, b, q, waiting[b] - n, inflight[b])
      <3>1. consumer' = [consumer EXCEPT ![c] = q]
        BY <2>2, <2>5
      <3>2. inflight' = [inflight EXCEPT ![b] = inflight[b]]
        BY <1>9, <2>2, <2>3
      <3> QED
        BY <2>2, <2>3, <2>4, <2>6, <2>7, <3>1, <3>2 DEF Moves
    <2>9. b \in missed' \/ waiting[b] - n = 0
      BY <2>2, <2>4
    <2>10. waiting[b] - n = 0 => waiting[b] - n < Min
      BY <1>0, <2>4
    <2> QED
      BY <2>2, <2>3, <2>4, <2>6, <2>7, <2>8, <2>9, <2>10, RunStep
  <1>12. ASSUME NEW c \in Consumers, GroupsCommit(c) PROVE PoolInv'
    <2>1. PICK b, n : b = consumer[c].bucket /\ n = consumer[c].held % Min
      OBVIOUS
    <2>2. /\ consumer[c].pc = "claimed"
          /\ consumer' = [consumer EXCEPT ![c] = [pc |-> "return", bucket |-> b, held |-> n]]
          /\ UNCHANGED <<waiting, arrived, notices, events, drainList, inflight, missed, cancelled>>
      BY <1>12, <2>1 DEF GroupsCommit
    <2>3. /\ b \in Buckets /\ b # NoBucket /\ inflight[b] \in {"running", "rerun"} /\ consumer[c].bucket = b
          /\ waiting[b] \in Nat /\ arrived[b] \in Nat /\ consumer[c].held \in Nat
          /\ waiting[b] + consumer[c].held <= arrived[b]
      BY <1>0, <1>10, <2>1, <2>2
    <2>4. n \in Nat /\ n <= consumer[c].held /\ n < Min
      BY <1>0, <2>1, <2>3, Remainder
    <2>5. waiting[b] + n <= arrived[b]
      BY <2>3, <2>4
    <2>6. PICK q : q = [pc |-> "return", bucket |-> b, held |-> n]
      OBVIOUS
    <2>7. q \in Goroutines /\ q.pc = "return" /\ q.bucket = b /\ q.held = n
      BY <2>3, <2>4, <2>6 DEF Goroutines, Step
    <2>8. Moves(c, b, q, waiting[b], inflight[b])
      <3>1. inflight' = [inflight EXCEPT ![b] = inflight[b]] /\ waiting' = [waiting EXCEPT ![b] = waiting[b]]
        BY <1>8, <1>9, <2>2, <2>3
      <3> QED
        BY <2>2, <2>3, <2>6, <2>7, <3>1 DEF Moves
    <2>9. cancelled \/ (UNCHANGED missed /\ inflight[b] = inflight[b] /\ Awaited(b)) \/ waiting[b] = 0
      BY <1>0, <2>2, <2>3 DEF Settled, RunSees
    <2> QED
      BY <2>2, <2>3, <2>4, <2>5, <2>7, <2>8, <2>9, RunStep
  <1>13. ASSUME NEW c \in Consumers, GroupsFail(c) PROVE PoolInv'
    <2>1. PICK b, n : b = consumer[c].bucket /\ n = consumer[c].held
      OBVIOUS
    <2>2. /\ consumer[c].pc = "claimed" /\ consumer' = [consumer EXCEPT ![c].pc = "return"]
          /\ missed' = missed \union {b}
          /\ UNCHANGED <<waiting, arrived, notices, events, drainList, inflight, cancelled>>
      BY <1>13, <2>1 DEF GroupsFail
    <2>3. /\ b \in Buckets /\ b # NoBucket /\ inflight[b] \in {"running", "rerun"} /\ consumer[c].bucket = b
          /\ waiting[b] \in Nat /\ n \in Nat /\ waiting[b] + n <= arrived[b]
      BY <1>0, <1>10, <2>1, <2>2
    <2>4. PICK q : q = [pc |-> "return", bucket |-> b, held |-> n]
      OBVIOUS
    <2>5. q \in Goroutines /\ q.pc = "return" /\ q.bucket = b /\ q.held = n
      BY <2>3, <2>4 DEF Goroutines, Step
    <2>6. consumer' = [consumer EXCEPT ![c] = q]
      <3>1. [consumer[c] EXCEPT !.pc = "return"] = q
        BY <1>0, <2>1, <2>4 DEF Goroutines
      <3> QED
        BY <1>0, <2>2, <3>1 DEF PoolTyped
    <2>7. Moves(c, b, q, waiting[b], inflight[b])
      <3>1. inflight' = [inflight EXCEPT ![b] = inflight[b]] /\ waiting' = [waiting EXCEPT ![b] = waiting[b]]
        BY <1>8, <1>9, <2>2, <2>3
      <3> QED
        BY <2>2, <2>3, <2>5, <2>6, <3>1 DEF Moves
    <2>8. b \in missed'
      BY <2>2
    <2> QED
      BY <2>2, <2>3, <2>5, <2>7, <2>8, RunStep
  <1>14. ASSUME NEW c \in Consumers, ReturnRest(c) PROVE PoolInv'
    <2>1. PICK b, n : b = consumer[c].bucket /\ n = waiting[b] + consumer[c].held
      OBVIOUS
    <2>2. /\ consumer[c].pc = "return" /\ waiting' = [waiting EXCEPT ![b] = n]
          /\ consumer' = [consumer EXCEPT ![c] = [pc |-> "finish", bucket |-> b, held |-> 0]]
          /\ UNCHANGED <<arrived, notices, events, drainList, inflight, missed, cancelled>>
      BY <1>14, <2>1 DEF ReturnRest
    <2>3. /\ b \in Buckets /\ b # NoBucket /\ inflight[b] \in {"running", "rerun"} /\ consumer[c].bucket = b
          /\ waiting[b] \in Nat /\ consumer[c].held \in Nat /\ n <= arrived[b]
      BY <1>0, <1>10, <2>1, <2>2
    <2>4. n \in Nat /\ n + 0 <= arrived[b]
      BY <2>1, <2>3
    <2>5. PICK q : q = [pc |-> "finish", bucket |-> b, held |-> 0]
      OBVIOUS
    <2>6. q \in Goroutines /\ q.pc = "finish" /\ q.bucket = b /\ q.held = 0
      BY <2>3, <2>5 DEF Goroutines, Step
    <2>7. Moves(c, b, q, n, inflight[b])
      <3>1. inflight' = [inflight EXCEPT ![b] = inflight[b]]
        BY <1>9, <2>2, <2>3
      <3> QED
        BY <2>2, <2>3, <2>4, <2>5, <2>6, <3>1 DEF Moves
    <2>8. cancelled \/ (UNCHANGED missed /\ inflight[b] = inflight[b] /\ Awaited(b)) \/ n < Min
      <3>1. cancelled \/ Awaited(b) \/ (waiting[b] = 0 /\ consumer[c].held < Min)
        BY <1>0, <2>2, <2>3 DEF Settled, RunSees
      <3>2. waiting[b] = 0 /\ consumer[c].held < Min => n < Min
        BY <1>0, <2>1, <2>3
      <3> QED
        BY <2>2, <3>1, <3>2
    <2> QED
      BY <2>2, <2>3, <2>4, <2>6, <2>7, <2>8, RunStep
  <1>15. ASSUME NEW c \in Consumers, Finish(c) PROVE PoolInv'
    <2>1. PICK b : b = consumer[c].bucket
      OBVIOUS
    <2>2. /\ consumer[c].pc = "finish"
          /\ inflight' = [inflight EXCEPT ![b] = IF inflight[b] = "rerun" THEN "running" ELSE "absent"]
          /\ consumer' = [consumer EXCEPT ![c] = IF inflight[b] = "rerun" /\ ~cancelled
                                                 THEN [pc |-> "run", bucket |-> b, held |-> consumer[c].held] ELSE Idle]
          /\ UNCHANGED <<waiting, arrived, notices, events, drainList, missed, cancelled>>
      BY <1>15, <2>1 DEF Finish
    <2>3. /\ b \in Buckets /\ b # NoBucket /\ inflight[b] \in {"running", "rerun"} /\ consumer[c].bucket = b
          /\ waiting[b] \in Nat /\ consumer[c].held = 0 /\ waiting[b] + 0 <= arrived[b]
          /\ waiting' = [waiting EXCEPT ![b] = waiting[b]]
      BY <1>0, <1>8, <1>10, <2>1, <2>2
    <2>4. CASE inflight[b] = "rerun" /\ ~cancelled
      <3>1. PICK q : q = [pc |-> "run", bucket |-> b, held |-> 0]
        OBVIOUS
      <3>2. q \in Goroutines /\ q.pc = "run" /\ q.bucket = b /\ q.held = 0
        BY <2>3, <3>1 DEF Goroutines, Step
      <3>3. consumer' = [consumer EXCEPT ![c] = q] /\ inflight' = [inflight EXCEPT ![b] = "running"]
        BY <2>2, <2>3, <2>4, <3>1
      <3>4. Moves(c, b, q, waiting[b], "running")
        BY <2>2, <2>3, <3>2, <3>3 DEF Moves
      <3> QED
        BY <2>2, <2>3, <3>2, <3>4, RunStep
    <2>5. CASE ~(inflight[b] = "rerun" /\ ~cancelled)
      <3>1. PICK f : f = IF inflight[b] = "rerun" THEN "running" ELSE "absent"
        OBVIOUS
      <3>2. consumer' = [consumer EXCEPT ![c] = Idle] /\ inflight' = [inflight EXCEPT ![b] = f]
        BY <2>2, <2>5, <3>1
      <3>3. Idle \in Goroutines /\ Idle.pc = "select" /\ Idle.bucket = NoBucket /\ Idle.held = 0
        BY DEF Goroutines, Step, Idle
      <3>4. f \in {"running", "absent"} /\ (~cancelled => f = "absent" /\ inflight[b] # "rerun")
        BY <2>5, <3>1
      <3>5. Moves(c, b, Idle, waiting[b], f)
        BY <2>2, <2>3, <3>2, <3>3, <3>4 DEF Moves
      <3>6. /\ consumer'[c] = Idle /\ \A d \in Consumers : d # c => consumer'[d] = consumer[d]
            /\ waiting'[b] = waiting[b] /\ inflight'[b] = f /\ BucketInv(b)
        BY <3>5, BucketMoves
      <3>7. \A d \in Consumers : ~Busy(d, b)'
        <4>1. \A d \in Consumers : d # c => ~Busy(d, b)
          BY <2>2, <2>3, AloneInBucket
        <4> QED
          BY <2>3, <3>3, <3>6, <4>1 DEF Busy
      <3>8. \A d \in Consumers : consumer'[d].bucket = b => d # c
        BY <2>3, <3>3, <3>6
      <3>9. \A d \in Consumers : consumer'[d].bucket = b => waiting'[b] + consumer'[d].held <= arrived'[b]
        BY <2>2, <3>6, <3>8 DEF BucketInv
      <3>10. ~cancelled' => (Awaited(b) \/ RunSees(b))'
        <4> SUFFICES ASSUME ~cancelled PROVE Awaited(b)' \/ RunSees(b)'
          BY <2>2
        <4>1. CASE Awaited(b)
          <5>1. \A d \in Consumers : consumer[d].bucket = b /\ consumer[d].pc = "got"
                                       => consumer'[d].bucket = b /\ consumer'[d].pc = "got"
            BY <2>2, <3>6
          <5> QED
            BY <2>2, <3>4, <4>1, <5>1 DEF Awaited
        <4>2. CASE RunSees(b)
          <5>1. waiting[b] < Min
            BY <2>2, <2>3, <4>2 DEF RunSees
          <5> QED
            BY <3>6, <3>8, <4>2, <5>1 DEF RunSees
        <4> QED
          BY <1>0, <2>3, <4>1, <4>2 DEF Settled
      <3>11. BucketInv(b)'
        BY <2>2, <3>4, <3>6, <3>7, <3>9, <3>10 DEF BucketInv
      <3> QED
        BY <3>5, <3>11, BucketStep
    <2> QED
      BY <2>4, <2>5
  <1>16. ASSUME NEW c \in Consumers, ConsumerStops(c) PROVE PoolInv'
    <2>1. /\ consumer[c].pc = "select" /\ cancelled /\ consumer' = [consumer EXCEPT ![c].pc = "exited"]
          /\ UNCHANGED <<waiting, arrived, notices, events, drainList, inflight, missed, cancelled>>
      BY <1>16 DEF ConsumerStops
    <2>2. consumer[c].bucket = NoBucket /\ consumer[c].held = 0
      BY <1>0, <2>1 DEF Placed
    <2>3. PICK q : q = [pc |-> "exited", bucket |-> NoBucket, held |-> 0]
      OBVIOUS
    <2>4. q \in Goroutines /\ q.pc = "exited" /\ q.bucket = NoBucket /\ q.held = 0
      BY <2>3 DEF Goroutines, Step
    <2>5. consumer' = [consumer EXCEPT ![c] = q]
      <3>1. [consumer[c] EXCEPT !.pc = "exited"] = q
        BY <1>0, <2>2, <2>3 DEF Goroutines
      <3> QED
        BY <1>0, <2>1, <3>1 DEF PoolTyped
    <2>6. /\ consumer' \in [Consumers -> Goroutines] /\ Placed'
          /\ consumer'[c] = q /\ \A d \in Consumers : d # c => consumer'[d] = consumer[d]
      BY <2>1, <2>4, <2>5, ConsumerStep
    <2>7. ASSUME NEW a \in Buckets PROVE BucketInv(a)'
      <3>1. consumer[c].bucket # a /\ q.bucket # a
        BY <1>0, <2>2, <2>4
      <3>2. /\ waiting'[a] = waiting[a] /\ inflight'[a] = inflight[a] /\ (a \in missed => a \in missed')
            /\ (\E i \in DOMAIN events : events[i] = a) => \E i \in DOMAIN events' : events'[i] = a
            /\ UNCHANGED <<arrived, notices, cancelled>>
        BY <2>1
      <3> QED
        BY <2>6, <3>1, <3>2, OtherBucket
    <2>8. PoolTyped'
      BY <1>0, <2>1, <2>6 DEF PoolTyped
    <2> QED
      BY <2>6, <2>7, <2>8, ByBucket DEF PoolInv
  <1>20. CASE UNCHANGED poolVars
    BY <1>20 DEF poolVars, PoolInv, PoolTyped, Placed, Counted, Acquired, OneRunPerBucket, Busy, Settled, Awaited, RunSees
  <1> QED
    BY <1>1, <1>2, <1>3, <1>4, <1>5, <1>7, <1>11, <1>12, <1>13, <1>14, <1>15, <1>16, <1>20 DEF PoolNext, Consume

\* The pool's state stays in its types: eventsBuffer is never exceeded, and no
\* ticket is counted twice, whether it waits or a run holds it.
THEOREM PoolTypes == PoolSpec => []PoolTypeOK
PROOF
  <1>1. PoolInv => PoolTypeOK
    <2> SUFFICES ASSUME PoolInv PROVE PoolTypeOK
      OBVIOUS
    <2>1. /\ PoolTyped /\ Placed /\ Counted /\ MaxTickets \in Nat
          /\ \A b \in Buckets : waiting[b] \in Nat /\ arrived[b] \in Nat /\ notices[b] \in Nat
          /\ \A c \in Consumers : consumer[c] \in Goroutines /\ consumer[c].held \in Nat
                                   /\ consumer[c].bucket \in Buckets \union {NoBucket}
      BY PoolConstants DEF PoolInv, PoolTyped, Goroutines
    <2>2. ASSUME NEW b \in Buckets
          PROVE  waiting[b] \in 0..MaxTickets /\ arrived[b] \in 0..MaxTickets /\ notices[b] \in 0..MaxTickets
      BY <2>1 DEF Counted
    <2>3. ASSUME NEW c \in Consumers PROVE consumer[c].held \in 0..MaxTickets
      <3>1. CASE consumer[c].bucket = NoBucket
        <4>1. consumer[c].held = 0
          BY <2>1, <3>1 DEF Placed
        <4> QED
          BY <2>1, <4>1
      <3>2. CASE consumer[c].bucket \in Buckets
        BY <2>1, <3>2 DEF Counted
      <3> QED
        BY <2>1, <3>1, <3>2
    <2>4. ASSUME NEW c \in Consumers
          PROVE  consumer[c] \in [pc : Step, bucket : Buckets \union {NoBucket}, held : 0..MaxTickets]
      BY <2>1, <2>3 DEF Goroutines
    <2> QED
      BY <2>1, <2>2, <2>4 DEF PoolTyped, PoolTypeOK
  <1> QED
    BY PoolInitial, PoolStep, <1>1, PTL DEF PoolSpec

\* tryAcquire and finish of Worker: for any number of consumers, buckets and
\* tickets, runs of a bucket are serialised, the inflight map holds just the buckets
\* with a run, and no wakeup that was not dropped is lost.
THEOREM WakeupsHold == PoolSpec => []WakeupsServed
PROOF
  <1>1. PoolInv => WakeupsServed
    <2> SUFFICES ASSUME PoolInv, NEW b \in Buckets, Quiet(b), b \notin missed, ~cancelled PROVE waiting[b] < Min
      BY DEF PoolInv, WakeupsServed, NoLostWakeup
    <2>1. OneRunPerBucket /\ Settled /\ PoolTyped
      BY DEF PoolInv
    <2>2. \A c \in Consumers : ~Busy(c, b)
      BY DEF Quiet, Busy
    <2>3. inflight[b] = "absent"
      BY <2>1, <2>2 DEF OneRunPerBucket
    <2>4. ~Awaited(b)
      BY <2>3 DEF Awaited, Quiet
    <2> QED
      BY <2>1, <2>2, <2>4 DEF Settled, RunSees
  <1> QED
    BY PoolInitial, PoolStep, <1>1, PTL DEF PoolSpec

-----------------------------------------------------------------------------
(* The plugin supervisor *)

\* The states of a launched subprocess.
Subprocess == {"alive", "hung", "dead"}

\* RestartAlone: between the death of a plugin and the adoption of its successor
\* nothing runs but that successor; otherwise what runs is current, or is what Close
\* took over, and never both.
RestartAlone ==
  /\ watcher.at \in {"exited", "retry", "launch", "adopt"}
       => \A p \in Launched : Running(p) => p = watcher.p
  /\ watcher.at # "adopt" => watcher.p = 0
  /\ \A p \in Launched : Running(p) => p \in {current, watcher.p, closer.old}

\* CloseTakesOver: Close leaves nothing current, and until then has nothing.
CloseTakesOver ==
  /\ closed <=> closer.at # "no"
  /\ closed => current = 0
  /\ ~closed => closer.old = 0
  /\ closer.at = "returned" => watcher.at = "stopped" /\ closer.old = 0

\* The inductive invariant of the supervisor.
SupervisorInv ==
  /\ \E n \in Nat : process \in [1..n -> Subprocess]
  /\ watcher.at \in {"poll", "exited", "retry", "launch", "adopt", "stopped"}
  /\ RestartAlone /\ CloseTakesOver

\* NewSupervisor: one plugin is launched and adopted.
LEMMA SupervisorInitial == SupervisorInit => SupervisorInv
PROOF
  <1> SUFFICES ASSUME SupervisorInit PROVE SupervisorInv
    OBVIOUS
  <1>1. 1..1 = {1}
    OBVIOUS
  <1>2. process \in [1..1 -> Subprocess] /\ Launched = {1}
    BY <1>1 DEF SupervisorInit, Subprocess, Launched
  <1> QED
    BY <1>2 DEF SupervisorInit, SupervisorInv, RestartAlone, CloseTakesOver

\* Kill ends one subprocess and leaves the others as they are.
LEMMA Killed ==
  ASSUME NEW n \in Nat, process \in [1..n -> Subprocess], NEW p
  PROVE  /\ Kill(p) \in [1..n -> Subprocess] /\ \A q \in 1..n : q # p => Kill(p)[q] = process[q]
         /\ p \in 1..n => Kill(p)[p] = "dead"
PROOF
  BY DEF Kill, Launched, Subprocess

\* watch, restart and Close, however they overlap, preserve the invariant.
LEMMA SupervisorStep == SupervisorInv /\ [SupervisorNext]_svVars => SupervisorInv'
PROOF
  <1> SUFFICES ASSUME SupervisorInv, [SupervisorNext]_svVars PROVE SupervisorInv'
    OBVIOUS
  <1>0. PICK n \in Nat : process \in [1..n -> Subprocess]
    BY DEF SupervisorInv
  <1>1. Launched = 1..n /\ \A p \in Launched : p # 0
    BY <1>0 DEF Launched
  <1>2. ASSUME process' \in [1..n -> Subprocess], \A p \in 1..n : Running(p)' => Running(p),
               UNCHANGED <<current, closed, watcher, closer>>
        PROVE  SupervisorInv'
    <2>1. Launched' = Launched /\ \A p \in Launched : Running(p)' => Running(p)
      BY <1>1, <1>2 DEF Launched
    <2> QED
      BY <1>2, <2>1 DEF SupervisorInv, RestartAlone, CloseTakesOver
  <1>3. ASSUME UNCHANGED <<process, current, closed, watcher, closer>> PROVE SupervisorInv'
    BY <1>0, <1>2, <1>3 DEF Running
  <1>4. ASSUME NEW p \in Launched, Fails(p) PROVE SupervisorInv'
    <2>1. CASE process[p] = "alive" /\ process' = [process EXCEPT ![p] = "hung"]
      BY <1>0, <1>1, <1>2, <1>4, <2>1 DEF Fails, Running, Subprocess
    <2>2. CASE process' = Kill(p)
      BY <1>0, <1>1, <1>2, <1>4, <2>2, Killed DEF Fails, Running
    <2> QED
      BY <1>4, <2>1, <2>2 DEF Fails
  <1>5. ASSUME UNCHANGED <<process, current, closed, closer>>,
               watcher' = [at |-> "exited", p |-> 0] \/ watcher' = [at |-> "retry", p |-> 0]
                 \/ watcher' = [at |-> "launch", p |-> 0],
               \A p \in Launched : ~Running(p), closer.at # "returned"
        PROVE  SupervisorInv'
    BY <1>0, <1>1, <1>5 DEF SupervisorInv, RestartAlone, CloseTakesOver, Launched, Running
  <1>6. CASE WatchPolls
    <2>1. /\ watcher.at = "poll" /\ current # 0 /\ ~Running(current) /\ watcher' = [at |-> "exited", p |-> 0]
          /\ UNCHANGED <<process, current, closed, closer>>
      BY <1>6 DEF WatchPolls
    <2>2. ~closed /\ closer.old = 0 /\ watcher.p = 0 /\ closer.at # "returned"
      BY <2>1 DEF SupervisorInv, RestartAlone, CloseTakesOver
    <2>3. \A p \in Launched : ~Running(p)
      BY <1>1, <2>1, <2>2 DEF SupervisorInv, RestartAlone
    <2> QED
      BY <1>5, <2>1, <2>2, <2>3
  <1>7. ASSUME watcher.p = 0, NEW at \in {"poll", "stopped"}, watcher' = [at |-> at, p |-> 0],
               UNCHANGED <<process, current, closed, closer>>,
               at = "poll" => closer.at # "returned"
        PROVE  SupervisorInv'
    BY <1>0, <1>1, <1>7 DEF SupervisorInv, RestartAlone, CloseTakesOver, Launched, Running
  <1>8. CASE WatchStops
    BY <1>7, <1>8 DEF WatchStops, SupervisorInv, RestartAlone
  <1>9. ASSUME watcher.at \in {"exited", "retry", "launch"}
        PROVE  watcher.p = 0 /\ closer.at # "returned" /\ \A p \in Launched : ~Running(p)
    BY <1>1, <1>9 DEF SupervisorInv, RestartAlone, CloseTakesOver
  <1>10. CASE WatchDrops
    <2>1. watcher.at = "exited" /\ watcher' = [at |-> "retry", p |-> 0] /\ UNCHANGED <<closed, closer>>
      BY <1>10 DEF WatchDrops
    <2>2. CASE closed
      BY <1>5, <1>9, <1>10, <2>1, <2>2 DEF WatchDrops
    <2>3. CASE ~closed
      <3>1. process' = Kill(current) /\ current' = 0
        BY <1>10, <2>3 DEF WatchDrops
      <3>2. process' \in [1..n -> Subprocess] /\ \A p \in 1..n : ~Running(p)'
        BY <1>0, <1>1, <1>9, <2>1, <3>1, Killed DEF Running
      <3> QED
        BY <1>0, <1>9, <2>1, <2>3, <3>1, <3>2 DEF SupervisorInv, RestartAlone, CloseTakesOver, Launched
    <2> QED
      BY <2>2, <2>3
  <1>11. CASE WatchGivesUp
    BY <1>7, <1>9, <1>11 DEF WatchGivesUp
  <1>12. CASE WatchRetries
    BY <1>5, <1>9, <1>12 DEF WatchRetries
  <1>13. CASE WatchInterrupted
    BY <1>7, <1>9, <1>13 DEF WatchInterrupted
  <1>14. CASE WatchLaunches
    <2>1. Cardinality(Launched) = n
      BY <1>1, FS_Interval
    <2>2. PICK p : p = n + 1
      OBVIOUS
    <2>3. watcher.at = "launch" /\ UNCHANGED <<current, closed, closer>>
      BY <1>14 DEF WatchLaunches
    <2>4. CASE UNCHANGED process /\ watcher' = [at |-> "retry", p |-> 0]
      BY <1>5, <1>9, <2>3, <2>4
    <2>5. CASE /\ process' = [q \in Launched \union {p} |-> IF q = p THEN "alive" ELSE process[q]]
               /\ watcher' = [at |-> "adopt", p |-> p]
      <3>1. Launched \union {p} = 1..(n + 1) /\ p \notin Launched /\ n + 1 \in Nat
        BY <1>1, <2>2
      <3>2. process' \in [1..(n + 1) -> Subprocess] /\ Launched' = 1..(n + 1)
        BY <1>0, <1>1, <2>5, <3>1 DEF Launched, Subprocess
      <3>3. \A q \in Launched' : Running(q)' => q = p
        BY <1>1, <1>9, <2>3, <2>5, <3>1, <3>2 DEF Running
      <3> QED
        BY <1>9, <2>3, <2>5, <3>1, <3>2, <3>3 DEF SupervisorInv, RestartAlone, CloseTakesOver
    <2> QED
      BY <1>14, <2>1, <2>2, <2>4, <2>5 DEF WatchLaunches
  <1>15. CASE WatchAdopts
    <2>1. /\ watcher.at = "adopt" /\ watcher' = [at |-> "poll", p |-> 0] /\ UNCHANGED <<closed, closer>>
          /\ \A p \in Launched : Running(p) => p = watcher.p
      BY <1>15 DEF WatchAdopts, SupervisorInv, RestartAlone
    <2>2. CASE closed
      <3>1. process' = Kill(watcher.p) /\ current' = current
        BY <1>15, <2>2 DEF WatchAdopts
      <3>2. process' \in [1..n -> Subprocess] /\ \A p \in 1..n : ~Running(p)'
        BY <1>0, <1>1, <2>1, <3>1, Killed DEF Running
      <3> QED
        BY <1>0, <2>1, <3>1, <3>2 DEF SupervisorInv, RestartAlone, CloseTakesOver, Launched
    <2>3. CASE ~closed
      <3>1. current' = watcher.p /\ process' = process
        BY <1>15, <2>3 DEF WatchAdopts
      <3> QED
        BY <1>0, <2>1, <2>3, <3>1 DEF SupervisorInv, RestartAlone, CloseTakesOver, Launched, Running
    <2> QED
      BY <2>2, <2>3
  <1>16. CASE PingAsks \/ PingStops \/ PingAnswered \/ PingResets \/ PingUnanswered
    BY <1>3, <1>16 DEF PingAsks, PingStops, PingAnswered, PingResets, PingUnanswered
  <1>17. CASE PingKills
    BY <1>0, <1>2, <1>17, Killed DEF PingKills, Running
  <1>18. CASE CloseBegins
    <2>1. /\ closer.at = "no" /\ closed' = TRUE /\ current' = 0 /\ closer' = [at |-> "waits", old |-> current]
          /\ UNCHANGED <<process, watcher>>
      BY <1>18 DEF CloseBegins
    <2> QED
      BY <1>0, <1>1, <2>1 DEF SupervisorInv, RestartAlone, CloseTakesOver, Launched, Running
  <1>19. CASE CloseReturns
    <2>1. /\ closer.at = "waits" /\ watcher.at = "stopped" /\ process' = Kill(closer.old)
          /\ closer' = [at |-> "returned", old |-> 0] /\ UNCHANGED <<current, closed, watcher>>
      BY <1>19 DEF CloseReturns
    <2>2. current = 0 /\ watcher.p = 0
      BY <2>1 DEF SupervisorInv, RestartAlone, CloseTakesOver
    <2>3. process' \in [1..n -> Subprocess] /\ \A p \in 1..n : ~Running(p)'
      BY <1>0, <1>1, <2>1, <2>2, Killed DEF Running, SupervisorInv, RestartAlone
    <2> QED
      BY <1>0, <2>1, <2>2, <2>3 DEF SupervisorInv, RestartAlone, CloseTakesOver, Launched
  <1>20. CASE UNCHANGED svVars
    BY <1>3, <1>20 DEF svVars
  <1> QED
    BY <1>4, <1>6, <1>8, <1>10, <1>11, <1>12, <1>13, <1>14, <1>15, <1>16, <1>17, <1>18, <1>19, <1>20
    DEF SupervisorNext

\* The supervisor of a fleet plugin (restart and Close of the plugin host): however
\* often a plugin dies and is restarted, and whenever Close comes, at most one
\* subprocess runs, and none once Close has returned.
THEOREM OnePluginRuns == SupervisorSpec => []PluginSound
PROOF
  <1>1. SupervisorInv => PluginSound
    <2> SUFFICES ASSUME SupervisorInv PROVE PluginSound
      OBVIOUS
    <2>0. PICK n \in Nat : Launched = 1..n
      BY DEF SupervisorInv, Launched
    <2>1. \A p, q \in Launched : Running(p) /\ Running(q) => p = q
      BY <2>0 DEF SupervisorInv, RestartAlone, CloseTakesOver
    <2>2. Cardinality({p \in Launched : Running(p)}) <= 1
      <3>1. CASE {p \in Launched : Running(p)} = {}
        BY <3>1, FS_EmptySet
      <3>2. ASSUME NEW p \in Launched, Running(p) PROVE Cardinality({q \in Launched : Running(q)}) = 1
        <4>1. {q \in Launched : Running(q)} = {p}
          BY <2>1, <3>2
        <4> QED
          BY <4>1, FS_Singleton
      <3> QED
        BY <3>1, <3>2
    <2>3. NothingLeftRunning
      BY <2>0 DEF NothingLeftRunning, SupervisorInv, RestartAlone, CloseTakesOver
    <2> QED
      BY <2>2, <2>3 DEF PluginSound, OnePlugin, SupervisorInv, RestartAlone
  <1> QED
    BY SupervisorInitial, SupervisorStep, <1>1, PTL DEF SupervisorSpec

-----------------------------------------------------------------------------
(* The relay nodes *)

\* The rows, probes, reads and ages of RelayNodes, without bounds on the ages.
NodeRows == [state : {"none", "known", "retired"}, life : {"none", "active", "draining", "down"}, age : Nat]
ProbesAsked == [at : {"asked"}, node : Nodes, age : Nat]
ProbesAnswered == [at : {"answered"}, node : Nodes, age : Nat, life : {"active", "draining", "down"}]
ReadsBegun == [at : {"reading"}, age : Nat]
ReadsDone == [at : {"read"}, age : Nat, nodes : SUBSET Nodes]
Ages == [known : Nat, active : Nat]

\* The types of the relay registry.
RelayTyped ==
  /\ relay \in [Nodes -> {"active", "draining", "down"}]
  /\ node \in [Nodes -> NodeRows]
  /\ probe \in [Probers -> {Resting} \union ProbesAsked \union ProbesAnswered]
  /\ reader \in [Readers -> {Resting} \union ReadsBegun \union ReadsDone]
  /\ cache \in [nodes : SUBSET Nodes, age : Nat]
  /\ gone \in [Nodes -> Ages]

\* What the rows, the probes, the reads and the cache say of a node was so lately.
RowsLately ==
  \A n \in Nodes :
    /\ node[n].state = "known" => gone[n].known = 0
    /\ relay[n] = "active" => gone[n].active = 0
    /\ node[n].life = "active" /\ node[n].age < FreshnessWindow
         => gone[n].active <= ProbeInterval + node[n].age

\* A probe is under way for ProbeInterval at most, and its node was then as it says.
ProbesLately ==
  \A p \in Probers : probe[p] # Resting =>
    /\ probe[p].age <= ProbeInterval
    /\ probe[p].at = "answered" /\ probe[p].life = "active" => gone[probe[p].node].active <= probe[p].age

\* A node that was listed `age' ago.
Lately(n, age) ==
  gone[n].known <= age /\ gone[n].active <= ProbeInterval + FreshnessWindow + age

\* So were the nodes a read has found, since the read began.
ReadsLately ==
  \A r \in Readers : reader[r].at = "read" => \A n \in reader[r].nodes : Lately(n, reader[r].age)

\* So were the nodes of a cache that is still used.
CacheLately == cache.age < CacheTTL => \A n \in cache.nodes : Lately(n, cache.age)

\* The inductive invariant of the relay nodes.
RelayNodesInv ==
  /\ RelayTyped /\ RowsLately /\ ProbesLately /\ ReadsLately /\ CacheLately /\ AdvertisedAreFresh

\* Nothing is registered, probed, read or cached.
LEMMA RelayNodesInitial == RelayNodesInit => RelayNodesInv
PROOF
  <1> SUFFICES ASSUME RelayNodesInit PROVE RelayNodesInv
    OBVIOUS
  <1>1. RelayTyped
    <2>1. node \in [Nodes -> NodeRows] /\ gone \in [Nodes -> Ages]
      BY RelayNodesAssumption DEF RelayNodesInit, NodeRows, Ages
    <2>2. cache \in [nodes : SUBSET Nodes, age : Nat]
      BY RelayNodesAssumption DEF RelayNodesInit
    <2> QED
      BY <2>1, <2>2 DEF RelayNodesInit, RelayTyped
  <1>2. RowsLately /\ CacheLately
    BY RelayNodesAssumption DEF RelayNodesInit, RowsLately, CacheLately
  <1>3. ProbesLately /\ ReadsLately
    BY DEF RelayNodesInit, ProbesLately, ReadsLately, Resting
  <1>4. AdvertisedAreFresh
    BY DEF RelayNodesInit, AdvertisedAreFresh, Nothing
  <1> QED
    BY <1>1, <1>2, <1>3, <1>4 DEF RelayNodesInv

\* Time that is counted again from nothing only makes things more recent.
LEMMA StillLately ==
  ASSUME RelayTyped, gone' \in [Nodes -> Ages],
         \A n \in Nodes : gone'[n].known <= gone[n].known /\ gone'[n].active <= gone[n].active
  PROVE  /\ \A n \in Nodes, age \in Nat : Lately(n, age) => Lately(n, age)'
         /\ ReadsLately /\ UNCHANGED reader => ReadsLately'
         /\ ProbesLately /\ UNCHANGED probe => ProbesLately'
         /\ CacheLately /\ UNCHANGED cache => CacheLately'
PROOF
  <1>0. \A n \in Nodes : /\ gone[n].known \in Nat /\ gone[n].active \in Nat
                         /\ gone'[n].known \in Nat /\ gone'[n].active \in Nat
    BY DEF RelayTyped, Ages
  <1>1. ASSUME NEW n \in Nodes, NEW age \in Nat, Lately(n, age) PROVE Lately(n, age)'
    BY <1>0, <1>1, RelayNodesAssumption DEF Lately
  <1>2. ASSUME ReadsLately, UNCHANGED reader PROVE ReadsLately'
    <2>1. \A r \in Readers : reader[r].at = "read" => reader[r].age \in Nat /\ reader[r].nodes \subseteq Nodes
      BY DEF RelayTyped, Resting, ReadsBegun, ReadsDone
    <2> QED
      BY <1>1, <1>2, <2>1 DEF ReadsLately
  <1>3. ASSUME ProbesLately, UNCHANGED probe PROVE ProbesLately'
    <2>1. \A p \in Probers : probe[p] # Resting => probe[p].age \in Nat /\ probe[p].node \in Nodes
      BY DEF RelayTyped, ProbesAsked, ProbesAnswered
    <2> QED
      BY <1>0, <1>3, <2>1 DEF ProbesLately
  <1>4. ASSUME CacheLately, UNCHANGED cache PROVE CacheLately'
    <2>1. cache.age \in Nat /\ cache.nodes \subseteq Nodes
      BY DEF RelayTyped
    <2> QED
      BY <1>1, <1>4, <2>1 DEF CacheLately
  <1> QED
    BY <1>1, <1>2, <1>3, <1>4

\* A tick makes everything at most one older.
LEMMA TickLately ==
  ASSUME RelayNodesInv, RelayTick PROVE RelayNodesInv'
PROOF
  <1>0. /\ RelayTyped
        /\ \A n \in Nodes : /\ gone[n].known \in Nat /\ gone[n].active \in Nat /\ node[n].age \in Nat
                            /\ node[n] \in NodeRows
        /\ {ProbeInterval, FreshnessWindow, CacheTTL, LongestRead} \subseteq Nat \ {0}
    BY RelayNodesAssumption DEF RelayNodesInv, RelayTyped, Ages, NodeRows
  <1>1. Longest \in Nat
    BY <1>0 DEF Longest
  <1>3. ASSUME NEW age \in Nat, NEW cap \in Nat
        PROVE  /\ Older(age, cap) \in Nat /\ Older(age, cap) <= age + 1
               /\ Older(age, cap) < cap => Older(age, cap) = age + 1
    BY <1>3 DEF Older
  <1>4. /\ gone' \in [Nodes -> Ages]
        /\ \A n \in Nodes : /\ gone'[n].known \in Nat /\ gone'[n].active \in Nat
                            /\ gone'[n].known <= gone[n].known + 1 /\ gone'[n].active <= gone[n].active + 1
                            /\ node[n].state = "known" => gone'[n].known = 0
                            /\ relay[n] = "active" => gone'[n].active = 0
    <2>1. gone' = [n \in Nodes |->
                [known |-> IF node[n].state = "known" THEN 0 ELSE Older(gone[n].known, Longest),
                 active |-> IF relay[n] = "active" THEN 0 ELSE Older(gone[n].active, Longest)]]
      BY DEF RelayTick
    <2>2. ASSUME NEW n \in Nodes
          PROVE  /\ gone'[n] \in Ages
                 /\ gone'[n].known \in Nat /\ gone'[n].active \in Nat
                 /\ gone'[n].known <= gone[n].known + 1 /\ gone'[n].active <= gone[n].active + 1
                 /\ node[n].state = "known" => gone'[n].known = 0
                 /\ relay[n] = "active" => gone'[n].active = 0
      <3>1. PICK k, a : /\ k = (IF node[n].state = "known" THEN 0 ELSE Older(gone[n].known, Longest))
                        /\ a = (IF relay[n] = "active" THEN 0 ELSE Older(gone[n].active, Longest))
        OBVIOUS
      <3>2. /\ k \in Nat /\ a \in Nat /\ k <= gone[n].known + 1 /\ a <= gone[n].active + 1
            /\ node[n].state = "known" => k = 0
            /\ relay[n] = "active" => a = 0
        <4>1. k \in Nat /\ k <= gone[n].known + 1 /\ (node[n].state = "known" => k = 0)
          <5>1. CASE node[n].state = "known"
            BY <1>0, <3>1, <5>1
          <5>2. CASE node[n].state # "known"
            <6>1. k = Older(gone[n].known, Longest)
              BY <3>1, <5>2
            <6> QED
              BY <1>0, <1>1, <1>3, <5>2, <6>1
          <5> QED
            BY <5>1, <5>2
        <4>2. a \in Nat /\ a <= gone[n].active + 1 /\ (relay[n] = "active" => a = 0)
          <5>1. CASE relay[n] = "active"
            BY <1>0, <3>1, <5>1
          <5>2. CASE relay[n] # "active"
            <6>1. a = Older(gone[n].active, Longest)
              BY <3>1, <5>2
            <6> QED
              BY <1>0, <1>1, <1>3, <5>2, <6>1
          <5> QED
            BY <5>1, <5>2
        <4> QED
          BY <4>1, <4>2
      <3>3. gone'[n] = [known |-> k, active |-> a]
        BY <2>1, <3>1
      <3> QED
        BY <3>2, <3>3 DEF Ages
    <2> QED
      BY <2>1, <2>2
  <1>5. ASSUME NEW n \in Nodes
        PROVE  /\ node'[n] \in NodeRows /\ node'[n].state = node[n].state /\ node'[n].life = node[n].life
               /\ node'[n].age = Older(node[n].age, FreshnessWindow)
    <2>1. node'[n] = [node[n] EXCEPT !.age = Older(node[n].age, FreshnessWindow)]
      BY DEF RelayTick
    <2> QED
      BY <1>0, <1>3, <2>1 DEF NodeRows
  <1>6. node' \in [Nodes -> NodeRows]
    BY <1>5 DEF RelayTick
  <1>7. RowsLately'
    <2> SUFFICES ASSUME NEW n \in Nodes
                 PROVE  /\ node'[n].state = "known" => gone'[n].known = 0
                        /\ relay'[n] = "active" => gone'[n].active = 0
                        /\ node'[n].life = "active" /\ node'[n].age < FreshnessWindow
                             => gone'[n].active <= ProbeInterval + node'[n].age
      BY DEF RowsLately
    <2>1. relay' = relay
      BY DEF RelayTick
    <2>2. ASSUME node'[n].life = "active", node'[n].age < FreshnessWindow
          PROVE  gone'[n].active <= ProbeInterval + node'[n].age
      <3>1. node'[n].age = node[n].age + 1
        BY <1>0, <1>3, <1>5, <2>2
      <3>2. gone[n].active <= ProbeInterval + node[n].age
        BY <1>0, <1>5, <2>2, <3>1 DEF RelayNodesInv, RowsLately
      <3> QED
        BY <1>0, <1>4, <3>1, <3>2
    <2> QED
      BY <1>4, <1>5, <2>1, <2>2
  <1>8. ASSUME NEW p \in Probers
        PROVE  /\ probe'[p] \in {Resting} \union ProbesAsked \union ProbesAnswered
               /\ probe[p] = Resting => probe'[p] = Resting
               /\ probe[p] # Resting =>
                    /\ probe'[p].age = probe[p].age + 1 /\ probe'[p].at = probe[p].at
                    /\ probe'[p].node = probe[p].node /\ probe[p].age \in Nat /\ probe[p].node \in Nodes
                    /\ probe[p].at = "answered" => probe'[p].life = probe[p].life
    <2>1. PICK q : /\ q = probe'[p]
                   /\ q = IF probe[p] = Resting THEN Resting ELSE [probe[p] EXCEPT !.age = probe[p].age + 1]
      BY DEF RelayTick
    <2>2. CASE probe[p] = Resting
      BY <2>1, <2>2
    <2>3. CASE probe[p] \in ProbesAsked
      <3>1. probe[p] # Resting /\ q = [probe[p] EXCEPT !.age = probe[p].age + 1]
        BY <2>1, <2>3 DEF ProbesAsked, Resting
      <3> QED
        BY <2>1, <2>3, <3>1 DEF ProbesAsked
    <2>4. CASE probe[p] \in ProbesAnswered
      <3>1. probe[p] # Resting /\ q = [probe[p] EXCEPT !.age = probe[p].age + 1]
        BY <2>1, <2>4 DEF ProbesAnswered, Resting
      <3> QED
        BY <2>1, <2>4, <3>1 DEF ProbesAnswered
    <2> QED
      BY <1>0, <2>2, <2>3, <2>4 DEF RelayTyped
  <1>9. ProbesLately'
    <2> SUFFICES ASSUME NEW p \in Probers, probe'[p] # Resting
                 PROVE  /\ probe'[p].age <= ProbeInterval
                        /\ probe'[p].at = "answered" /\ probe'[p].life = "active"
                             => gone'[probe'[p].node].active <= probe'[p].age
      BY DEF ProbesLately
    <2>1. probe[p] # Resting /\ probe[p].at # "none"
      BY <1>0, <1>8 DEF RelayTyped, ProbesAsked, ProbesAnswered
    <2>2. probe[p].age < ProbeInterval
      BY <2>1 DEF RelayTick
    <2> QED
      BY <1>0, <1>4, <1>8, <2>1, <2>2 DEF RelayNodesInv, ProbesLately
  <1>10. ASSUME NEW n \in Nodes, NEW age \in Nat, Lately(n, age)
         PROVE  /\ gone'[n].known <= age + 1 /\ gone'[n].active <= ProbeInterval + FreshnessWindow + (age + 1)
    BY <1>0, <1>4, <1>10 DEF Lately
  <1>11. ASSUME NEW r \in Readers
         PROVE  /\ reader'[r] \in {Resting} \union ReadsBegun \union ReadsDone
                /\ reader'[r].at = "read" => /\ reader[r].at = "read" /\ reader'[r].nodes = reader[r].nodes
                                             /\ reader'[r].age = reader[r].age + 1 /\ reader[r].age \in Nat
                                             /\ reader[r].nodes \subseteq Nodes
    <2>1. PICK q : /\ q = reader'[r]
                   /\ q = IF reader[r] = Resting THEN Resting ELSE [reader[r] EXCEPT !.age = reader[r].age + 1]
      BY DEF RelayTick
    <2>2. CASE reader[r] = Resting
      BY <2>1, <2>2 DEF Resting
    <2>3. CASE reader[r] \in ReadsBegun
      <3>1. reader[r] # Resting /\ q = [reader[r] EXCEPT !.age = reader[r].age + 1]
        BY <2>1, <2>3 DEF ReadsBegun, Resting
      <3> QED
        BY <2>1, <2>3, <3>1 DEF ReadsBegun
    <2>4. CASE reader[r] \in ReadsDone
      <3>1. reader[r] # Resting /\ q = [reader[r] EXCEPT !.age = reader[r].age + 1]
        BY <2>1, <2>4 DEF ReadsDone, Resting
      <3> QED
        BY <2>1, <2>4, <3>1 DEF ReadsDone
    <2> QED
      BY <1>0, <2>2, <2>3, <2>4 DEF RelayTyped
  <1>12. ReadsLately'
    <2> SUFFICES ASSUME NEW r \in Readers, reader'[r].at = "read", NEW n \in reader'[r].nodes
                 PROVE  Lately(n, reader[r].age)'
      BY DEF ReadsLately
    <2>1. Lately(n, reader[r].age) /\ n \in Nodes
      BY <1>11 DEF RelayNodesInv, ReadsLately
    <2> QED
      BY <1>10, <1>11, <2>1 DEF Lately
  <1>13. /\ cache' \in [nodes : SUBSET Nodes, age : Nat] /\ cache'.nodes = cache.nodes
         /\ cache'.age = Older(cache.age, CacheTTL) /\ cache.age \in Nat /\ cache.nodes \subseteq Nodes
    <2>1. cache' = [cache EXCEPT !.age = Older(cache.age, CacheTTL)] /\ cache \in [nodes : SUBSET Nodes, age : Nat]
      BY <1>0 DEF RelayTick, RelayTyped
    <2> QED
      BY <1>0, <1>3, <2>1
  <1>14. CacheLately'
    <2> SUFFICES ASSUME cache'.age < CacheTTL, NEW n \in cache'.nodes PROVE Lately(n, cache.age)'
      BY DEF CacheLately
    <2>1. cache'.age = cache.age + 1 /\ n \in Nodes
      BY <1>0, <1>3, <1>13
    <2>2. cache.age < CacheTTL
      BY <1>0, <1>13, <2>1
    <2>3. Lately(n, cache.age)
      BY <1>13, <2>2 DEF RelayNodesInv, CacheLately
    <2> QED
      BY <1>10, <1>13, <2>1, <2>3 DEF Lately
  <1>15. RelayTyped'
    <2>1. relay' = relay /\ probe' \in [Probers -> {Resting} \union ProbesAsked \union ProbesAnswered]
          /\ reader' \in [Readers -> {Resting} \union ReadsBegun \union ReadsDone]
      BY <1>8, <1>11 DEF RelayTick
    <2> QED
      BY <1>0, <1>4, <1>6, <1>13, <2>1 DEF RelayTyped
  <1>16. AdvertisedAreFresh'
    BY DEF RelayTick, AdvertisedAreFresh, Nothing
  <1> QED
    BY <1>7, <1>9, <1>12, <1>14, <1>15, <1>16 DEF RelayNodesInv

\* Between ticks a node is at most known or active again, which makes what is
\* said of it more recent; every other step writes one row, probe or read.
LEMMA RelayNodesStep == RelayNodesInv /\ [RelayNodesNext]_rnVars => RelayNodesInv'
PROOF
  <1> SUFFICES ASSUME RelayNodesInv, [RelayNodesNext]_rnVars PROVE RelayNodesInv'
    OBVIOUS
  <1>0. /\ RelayTyped /\ RowsLately /\ ProbesLately /\ ReadsLately /\ CacheLately
        /\ {ProbeInterval, FreshnessWindow, CacheTTL, LongestRead} \subseteq Nat \ {0}
        /\ \A n \in Nodes : /\ gone[n].known \in Nat /\ gone[n].active \in Nat /\ node[n].age \in Nat
                            /\ node[n] \in NodeRows /\ gone[n] \in Ages
    BY RelayNodesAssumption DEF RelayNodesInv, RelayTyped, Ages, NodeRows
  <1>1. ASSUME advertised' = Nothing PROVE AdvertisedAreFresh'
    BY <1>1 DEF AdvertisedAreFresh, Nothing
  <1>2. CASE RelayTick
    BY <1>2, TickLately
  <1>3. ASSUME NEW n \in Nodes, Register(n) PROVE RelayNodesInv'
    <2>1. /\ node' = [node EXCEPT ![n].state = "known"] /\ gone' = [gone EXCEPT ![n].known = 0]
          /\ advertised' = Nothing /\ UNCHANGED <<relay, probe, reader, cache>>
      BY <1>3 DEF Register
    <2>2. node' \in [Nodes -> NodeRows] /\ gone' \in [Nodes -> Ages]
      BY <1>0, <2>1 DEF RelayTyped, NodeRows, Ages
    <2>3. \A m \in Nodes : /\ node'[m].life = node[m].life /\ node'[m].age = node[m].age
                           /\ m # n => node'[m].state = node[m].state
                           /\ gone'[m].active = gone[m].active
                           /\ m = n => gone'[m].known = 0
                           /\ m # n => gone'[m].known = gone[m].known
      BY <1>0, <2>1 DEF RelayTyped, NodeRows, Ages
    <2>4. ASSUME NEW m \in Nodes
          PROVE  gone'[m].known <= gone[m].known /\ gone'[m].active <= gone[m].active
      <3>0. gone[m].known \in Nat /\ gone[m].active \in Nat
        BY <1>0
      <3>3. gone'[m].active = gone[m].active
        BY <2>3
      <3>4. gone'[m].known = 0 \/ gone'[m].known = gone[m].known
        BY <2>3
      <3> QED
        BY <3>0, <3>3, <3>4
    <2>5. RowsLately'
      <3> SUFFICES ASSUME NEW m \in Nodes
                   PROVE  /\ node'[m].state = "known" => gone'[m].known = 0
                          /\ relay'[m] = "active" => gone'[m].active = 0
                          /\ node'[m].life = "active" /\ node'[m].age < FreshnessWindow
                               => gone'[m].active <= ProbeInterval + node'[m].age
        BY DEF RowsLately
      <3> QED
        BY <1>0, <2>1, <2>3 DEF RowsLately
    <2> QED
      BY <1>0, <1>1, <2>1, <2>2, <2>4, <2>5, StillLately DEF RelayNodesInv, RelayTyped
  <1>4. ASSUME NEW n \in Nodes, Retire(n) PROVE RelayNodesInv'
    <2>1. /\ node' = [node EXCEPT ![n].state = "retired"]
          /\ advertised' = Nothing /\ UNCHANGED <<relay, probe, reader, cache, gone>>
      BY <1>4 DEF Retire
    <2>2. node' \in [Nodes -> NodeRows] /\ gone' \in [Nodes -> Ages]
      BY <1>0, <2>1 DEF RelayTyped, NodeRows
    <2>3. \A m \in Nodes : /\ node'[m].life = node[m].life /\ node'[m].age = node[m].age
                           /\ node'[m].state = "known" => node[m].state = "known"
      BY <1>0, <2>1 DEF RelayTyped, NodeRows
    <2>4. \A m \in Nodes : gone'[m].known <= gone[m].known /\ gone'[m].active <= gone[m].active
      BY <1>0, <2>1
    <2>5. RowsLately'
      BY <1>0, <2>1, <2>3 DEF RowsLately
    <2> QED
      BY <1>0, <1>1, <2>1, <2>2, <2>4, <2>5, StillLately DEF RelayNodesInv, RelayTyped
  <1>5. ASSUME NEW n \in Nodes, NEW to \in {"active", "draining", "down"}, Turns(n, to) PROVE RelayNodesInv'
    <2>1. /\ relay' = [relay EXCEPT ![n] = to]
          /\ gone' = (IF to = "active" THEN [gone EXCEPT ![n].active = 0] ELSE gone)
          /\ advertised' = Nothing /\ UNCHANGED <<node, probe, reader, cache>>
      BY <1>5 DEF Turns
    <2>2. relay' \in [Nodes -> {"active", "draining", "down"}] /\ gone' \in [Nodes -> Ages]
      BY <1>0, <2>1 DEF RelayTyped, Ages
    <2>3. \A m \in Nodes : /\ gone'[m].known = gone[m].known
                           /\ gone'[m].active = gone[m].active \/ gone'[m].active = 0
                           /\ relay'[m] = "active" => relay[m] = "active" \/ gone'[m].active = 0
      BY <1>0, <2>1 DEF RelayTyped, Ages
    <2>4. ASSUME NEW m \in Nodes
          PROVE  gone'[m].known <= gone[m].known /\ gone'[m].active <= gone[m].active
      <3>1. CASE gone'[m].active = 0
        BY <1>0, <2>3, <3>1
      <3>2. CASE gone'[m].active = gone[m].active
        BY <1>0, <2>3, <3>2
      <3> QED
        BY <2>3, <3>1, <3>2
    <2>5. RowsLately'
      BY <1>0, <2>1, <2>3 DEF RowsLately
    <2> QED
      BY <1>0, <1>1, <2>1, <2>2, <2>4, <2>5, StillLately DEF RelayNodesInv, RelayTyped
  <1>6. ASSUME UNCHANGED <<relay, node, gone, reader, cache>>, advertised' = Nothing, NEW p \in Probers,
               NEW q \in {Resting} \union ProbesAsked \union ProbesAnswered, probe' = [probe EXCEPT ![p] = q],
               q # Resting => /\ q.age <= ProbeInterval
                              /\ q.at = "answered" /\ q.life = "active" => gone[q.node].active <= q.age
        PROVE  RelayNodesInv'
    <2>1. RelayTyped'
      BY <1>0, <1>6 DEF RelayTyped
    <2>2. ProbesLately'
      BY <1>0, <1>6 DEF ProbesLately, RelayTyped
    <2> QED
      BY <1>0, <1>1, <1>6, <2>1, <2>2 DEF RelayNodesInv, RowsLately, ReadsLately, CacheLately, Lately
  <1>7. ASSUME NEW p \in Probers, NEW n \in Nodes, ProbeAsks(p, n) PROVE RelayNodesInv'
    <2>1. PICK q : q = [at |-> "asked", node |-> n, age |-> 0]
      OBVIOUS
    <2>2. q \in ProbesAsked /\ q.age = 0 /\ q.at = "asked"
      BY <2>1 DEF ProbesAsked
    <2> QED
      <3>1. q.age <= ProbeInterval /\ q.at # "answered"
        BY <1>0, <2>2
      <3> QED
        BY <1>6, <1>7, <2>1, <2>2, <3>1 DEF ProbeAsks
  <1>8. ASSUME NEW p \in Probers, ProbeReads(p) PROVE RelayNodesInv'
    <2>1. probe[p] \in ProbesAsked /\ probe[p] # Resting
      BY <1>0, <1>8 DEF ProbeReads, RelayTyped, Resting, ProbesAnswered, ProbesAsked
    <2>2. /\ probe[p].node \in Nodes /\ probe[p].age \in Nat /\ probe[p].age <= ProbeInterval
          /\ relay[probe[p].node] \in {"active", "draining", "down"}
      BY <1>0, <2>1 DEF ProbesAsked, ProbesLately, RelayTyped
    <2>3. PICK life \in {relay[probe[p].node], "down"} :
            probe' = [probe EXCEPT ![p] = [at |-> "answered", node |-> probe[p].node, age |-> probe[p].age,
                                           life |-> life]]
      BY <1>8 DEF ProbeReads
    <2>4. PICK q : q = [at |-> "answered", node |-> probe[p].node, age |-> probe[p].age, life |-> life]
      OBVIOUS
    <2>5. /\ q \in ProbesAnswered /\ q.age <= ProbeInterval
          /\ q.life = "active" => relay[q.node] = "active"
          /\ q.node \in Nodes /\ q.age \in Nat
      BY <2>2, <2>3, <2>4 DEF ProbesAnswered
    <2>6. q.life = "active" => gone[q.node].active <= q.age
      BY <1>0, <2>5 DEF RowsLately
    <2> QED
      BY <1>6, <1>8, <2>3, <2>4, <2>5, <2>6 DEF ProbeReads
  <1>9. ASSUME NEW p \in Probers, ProbeFails(p) PROVE RelayNodesInv'
    BY <1>6, <1>9 DEF ProbeFails
  <1>10. ASSUME NEW p \in Probers, RecordProbe(p) PROVE RelayNodesInv'
    <2>1. probe[p] \in ProbesAnswered /\ probe[p] # Resting
      BY <1>0, <1>10 DEF RecordProbe, RelayTyped, Resting, ProbesAnswered, ProbesAsked
    <2>2. PICK n, q : n = probe[p].node /\ q = [state |-> "known", life |-> probe[p].life, age |-> 0]
      OBVIOUS
    <2>3. /\ n \in Nodes /\ q \in NodeRows /\ q.state = "known" /\ q.life = probe[p].life /\ q.age = 0
          /\ q.life = "active" => gone[n].active <= ProbeInterval
      <3>1. n \in Nodes /\ q \in NodeRows /\ q.state = "known" /\ q.life = probe[p].life /\ q.age = 0
            /\ probe[p].at = "answered" /\ probe[p].age \in Nat
        BY <2>1, <2>2 DEF ProbesAnswered, NodeRows
      <3> QED
        BY <1>0, <2>1, <2>2, <3>1 DEF ProbesLately
    <2>4. /\ node' = IF node[n].state # "known" THEN node ELSE [node EXCEPT ![n] = q]
          /\ probe' = [probe EXCEPT ![p] = Resting]
          /\ advertised' = Nothing /\ UNCHANGED <<relay, reader, cache, gone>>
      BY <1>10, <2>2 DEF RecordProbe
    <2>5. RelayTyped'
      BY <1>0, <2>3, <2>4 DEF RelayTyped
    <2>6. RowsLately'
      <3> SUFFICES ASSUME NEW m \in Nodes
                   PROVE  /\ node'[m].state = "known" => gone[m].known = 0
                          /\ relay[m] = "active" => gone[m].active = 0
                          /\ node'[m].life = "active" /\ node'[m].age < FreshnessWindow
                               => gone[m].active <= ProbeInterval + node'[m].age
        BY <2>4 DEF RowsLately
      <3>1. CASE node'[m] = node[m]
        BY <1>0, <3>1 DEF RowsLately
      <3>2. CASE node'[m] # node[m]
        <4>1. m = n /\ node'[m] = q /\ node[n].state = "known"
          BY <1>0, <2>3, <2>4, <3>2 DEF RelayTyped
        <4>2. gone[m].known = 0 /\ (relay[m] = "active" => gone[m].active = 0)
          BY <1>0, <4>1 DEF RowsLately
        <4> QED
          BY <1>0, <2>3, <4>1, <4>2
      <3> QED
        BY <3>1, <3>2
    <2>7. ProbesLately'
      BY <1>0, <2>4 DEF ProbesLately, RelayTyped
    <2> QED
      BY <1>0, <1>1, <2>4, <2>5, <2>6, <2>7 DEF RelayNodesInv, ReadsLately, CacheLately, Lately
  <1>11. ASSUME NEW nodes \in SUBSET Nodes, NEW region, NEW age \in Nat, \A n \in nodes : Lately(n, age),
                NEW asked \in Nat, age \in 0..(asked + CacheTTL), UNCHANGED gone,
                advertised' = [nodes |-> Candidates(nodes, region), asked |-> asked]
         PROVE  AdvertisedAreFresh'
    <2> SUFFICES ASSUME NEW n \in Candidates(nodes, region) \ {Embedded}
                 PROVE  /\ gone[n].known <= asked + CacheTTL
                        /\ gone[n].active <= asked + ProbeInterval + FreshnessWindow + CacheTTL
      BY <1>11 DEF AdvertisedAreFresh
    <2>1. n \in nodes
      BY DEF Candidates
    <2>2. Lately(n, age) /\ n \in Nodes
      BY <1>11, <2>1
    <2> QED
      BY <1>0, <1>11, <2>2 DEF Lately
  <1>12. ASSUME NEW region, SelectCached(region) PROVE RelayNodesInv'
    <2>1. cache.nodes \in SUBSET Nodes /\ cache.age \in Nat /\ cache.age < CacheTTL
      BY <1>0, <1>12 DEF RelayTyped, SelectCached, CacheFresh
    <2>2. /\ \A n \in cache.nodes : Lately(n, cache.age)
          /\ cache.age \in 0..(0 + CacheTTL)
      BY <1>0, <2>1 DEF CacheLately
    <2>3. /\ UNCHANGED <<relay, node, probe, reader, cache, gone>>
          /\ advertised' = [nodes |-> Candidates(cache.nodes, region), asked |-> 0]
      BY <1>12 DEF SelectCached
    <2>4. AdvertisedAreFresh'
      BY <1>11, <2>1, <2>2, <2>3
    <2> QED
      BY <1>0, <2>3, <2>4
         DEF RelayNodesInv, RelayTyped, RowsLately, ProbesLately, ReadsLately, CacheLately, Lately
  <1>13. ASSUME UNCHANGED <<relay, node, gone, probe, cache>>, NEW r \in Readers,
                NEW q \in {Resting} \union ReadsBegun \union ReadsDone, reader' = [reader EXCEPT ![r] = q],
                q.at = "read" => \A n \in q.nodes : Lately(n, q.age), AdvertisedAreFresh'
         PROVE  RelayNodesInv'
    <2>1. RelayTyped'
      BY <1>0, <1>13 DEF RelayTyped
    <2>2. ReadsLately'
      BY <1>0, <1>13 DEF ReadsLately, RelayTyped, Lately
    <2> QED
      BY <1>0, <1>13, <2>1, <2>2 DEF RelayNodesInv, RowsLately, ProbesLately, CacheLately, Lately
  <1>14. ASSUME NEW r \in Readers, ReadStarts(r) PROVE RelayNodesInv'
    <2>1. PICK q : q = [at |-> "reading", age |-> 0]
      OBVIOUS
    <2>2. q \in ReadsBegun /\ q.at = "reading"
      BY <2>1 DEF ReadsBegun
    <2> QED
      BY <1>1, <1>13, <1>14, <2>1, <2>2 DEF ReadStarts
  <1>15. ASSUME NEW r \in Readers, ReadEligible(r) PROVE RelayNodesInv'
    <2>1. PICK q : q = [at |-> "read", age |-> reader[r].age, nodes |-> EligibleNodes]
      OBVIOUS
    <2>2. reader[r] \in ReadsBegun
      BY <1>0, <1>15 DEF ReadEligible, RelayTyped, Resting, ReadsBegun, ReadsDone
    <2>3. q \in ReadsDone /\ q.age \in Nat /\ q.nodes = EligibleNodes
      BY <2>1, <2>2 DEF ReadsDone, ReadsBegun, EligibleNodes
    <2>4. ASSUME NEW n \in EligibleNodes PROVE Lately(n, q.age)
      <3>1. n \in Nodes /\ gone[n].known = 0 /\ gone[n].active <= ProbeInterval + node[n].age
            /\ node[n].age < FreshnessWindow
        BY <1>0 DEF EligibleNodes, RowsLately
      <3> QED
        BY <1>0, <2>3, <3>1 DEF Lately
    <2> QED
      BY <1>1, <1>13, <1>15, <2>1, <2>3, <2>4 DEF ReadEligible
  <1>16. ASSUME NEW r \in Readers, ReadFails(r) PROVE RelayNodesInv'
    <2>1. AdvertisedAreFresh'
      BY <1>16 DEF ReadFails, AdvertisedAreFresh
    <2>2. Resting.at # "read"
      BY DEF Resting
    <2> QED
      BY <1>13, <1>16, <2>1, <2>2 DEF ReadFails
  <1>17. ASSUME NEW r \in Readers, NEW region, SelectRead(r, region) PROVE RelayNodesInv'
    <2>1. /\ reader[r] \in ReadsDone /\ reader[r].nodes \in SUBSET Nodes /\ reader[r].age \in Nat
          /\ reader[r].at = "read"
      BY <1>0, <1>17 DEF SelectRead, RelayTyped, Resting, ReadsBegun, ReadsDone
    <2>2. /\ \A n \in reader[r].nodes : Lately(n, reader[r].age)
          /\ reader[r].age \in 0..(reader[r].age + CacheTTL)
      BY <1>0, <2>1 DEF ReadsLately
    <2>3. /\ UNCHANGED <<relay, node, probe, gone>> /\ reader' = [reader EXCEPT ![r] = Resting]
          /\ cache' = [nodes |-> reader[r].nodes, age |-> Stamp(r)]
          /\ advertised' = [nodes |-> Candidates(reader[r].nodes, region), asked |-> reader[r].age]
      BY <1>17 DEF SelectRead
    <2>4. AdvertisedAreFresh'
      BY <1>11, <2>1, <2>2, <2>3
    <2>5. Stamp(r) \in Nat /\ (Stamp(r) < CacheTTL => Stamp(r) = reader[r].age)
      BY <1>0, <2>1 DEF Stamp
    <2>6. cache' \in [nodes : SUBSET Nodes, age : Nat] /\ cache'.age = Stamp(r) /\ cache'.nodes = reader[r].nodes
      <3>1. PICK s : s = Stamp(r)
        OBVIOUS
      <3>2. cache' = [nodes |-> reader[r].nodes, age |-> s] /\ s \in Nat
        BY <2>3, <2>5, <3>1
      <3> QED
        BY <2>1, <3>1, <3>2
    <2>7. CacheLately'
      BY <1>0, <2>1, <2>2, <2>3, <2>5, <2>6 DEF CacheLately, Lately
    <2>8. RelayTyped'
      BY <1>0, <2>3, <2>6 DEF RelayTyped
    <2>9. ReadsLately'
      <3>1. Resting.at # "read"
        BY DEF Resting
      <3> QED
        BY <1>0, <2>3, <3>1 DEF ReadsLately, RelayTyped, Lately
    <2> QED
      BY <1>0, <2>3, <2>4, <2>7, <2>8, <2>9 DEF RelayNodesInv, RowsLately, ProbesLately
  <1>18. CASE UNCHANGED rnVars
    BY <1>18 DEF rnVars, RelayNodesInv, RelayTyped, RowsLately, ProbesLately, ReadsLately, CacheLately, Lately,
                 AdvertisedAreFresh
  <1> QED
    BY <1>2, <1>3, <1>4, <1>5, <1>7, <1>8, <1>9, <1>10, <1>12, <1>14, <1>15, <1>16, <1>17, <1>18
       DEF RelayNodesNext

\* Selector.Select: for any intervals and any overlap of probes, retirements and slow
\* reads, a node that credentials advertise was registered within CacheTTL, and
\* active within a probe, the freshness window and CacheTTL.
THEOREM AdvertisedHold == RelayNodesSpec => []AdvertisedAreFresh
PROOF
  <1>1. RelayNodesInv => AdvertisedAreFresh
    BY DEF RelayNodesInv
  <1> QED
    BY RelayNodesInitial, RelayNodesStep, <1>1, PTL DEF RelayNodesSpec

-----------------------------------------------------------------------------
(* The monthly meter of relay sessions *)

IssuesAsked == [at : {"asked"}, month : Months, allowance : Allowances]
IssuesWarning == [at : {"warns"}, month : Months, claims : SUBSET Warnings]
UsageRows == [sessions : Nat, warned : SUBSET Warnings]
Dealt == [issued : Nat, refused : BOOLEAN, by : SUBSET Allowances]

MeterTyped ==
  /\ month \in Months /\ allowance \in Allowances
  /\ usage \in [Months -> UsageRows]
  /\ issuer \in [Issuers -> {Asleep} \union IssuesAsked \union IssuesWarning]
  /\ mails \in [Months \X Warnings -> Nat]
  /\ dealt \in [Months -> Dealt]

\* Request i has claimed the warning w of month m and not dealt with it yet.
Claims(i, m, w) == issuer[i].at = "warns" /\ issuer[i].month = m /\ w \in issuer[i].claims

\* A warning is claimed once, and mailed by the request that claimed it.
ClaimedOnce ==
  \A m \in Months, w \in Warnings :
    /\ mails[<<m, w>>] \in {0, 1}
    /\ mails[<<m, w>>] = 1 => w \in usage[m].warned /\ \A i \in Issuers : ~Claims(i, m, w)
    /\ \A i \in Issuers : Claims(i, m, w) => w \in usage[m].warned
    /\ \A i, j \in Issuers : Claims(i, m, w) /\ Claims(j, m, w) => i = j

\* The row counts what was issued, and has claimed every warning that the one
\* allowance of the month, if there was one, makes due.
RowCounts ==
  \A m \in Months :
    /\ dealt[m].issued = usage[m].sessions
    /\ dealt[m].issued = 0 \/ \E cap \in dealt[m].by : dealt[m].issued <= cap
    /\ dealt[m].refused => dealt[m].by # {}
    /\ \A cap \in Allowances \ {0} : dealt[m].by \subseteq {cap}
         => \A w \in Warnings : usage[m].sessions * 100 >= cap * w => w \in usage[m].warned
    /\ \A cap \in Allowances \ {0} :
         dealt[m].refused /\ dealt[m].by = {cap} => usage[m].warned = Warnings

MeterInv == MeterTyped /\ ClaimedOnce /\ RowCounts

\* At the start nothing is counted, claimed or mailed in any month.
LEMMA MeterInitial == MeterInit => MeterInv
PROOF
  <1> SUFFICES ASSUME MeterInit PROVE MeterInv
    OBVIOUS
  <1>1. \A cap \in Allowances : cap \in Nat
    BY MeterAssumption
  <1>2. MeterTyped
    <2>1. 0 \in Months
      BY MeterAssumption DEF Months
    <2>2. usage \in [Months -> UsageRows] /\ mails \in [Months \X Warnings -> Nat]
      BY DEF MeterInit, UsageRows
    <2>3. [issued |-> 0, refused |-> FALSE, by |-> {}] \in Dealt
      <3>1. FALSE \in BOOLEAN
        BY Zenon
      <3> QED
        BY <3>1 DEF Dealt
    <2>4. dealt \in [Months -> Dealt]
      BY <2>3 DEF MeterInit
    <2> QED
      BY <2>1, <2>2, <2>4 DEF MeterInit, MeterTyped
  <1>3. ClaimedOnce
    <2>1. \A i \in Issuers : issuer[i].at = "none"
      BY DEF MeterInit, Asleep
    <2>2. ASSUME NEW m \in Months, NEW w \in Warnings PROVE mails[<<m, w>>] = 0
      <3>1. <<m, w>> \in Months \X Warnings
        OBVIOUS
      <3> QED
        BY <3>1 DEF MeterInit
    <2>3. ASSUME NEW i \in Issuers, NEW m \in Months, NEW w \in Warnings PROVE ~Claims(i, m, w)
      BY <2>1 DEF Claims
    <2>4. ASSUME NEW m \in Months, NEW w \in Warnings PROVE mails[<<m, w>>] \in {0, 1} /\ mails[<<m, w>>] # 1
      BY <2>2
    <2> QED
      BY <2>3, <2>4 DEF ClaimedOnce
  <1>4. RowCounts
    <2> SUFFICES ASSUME NEW m \in Months
                 PROVE  /\ dealt[m].issued = usage[m].sessions
                        /\ dealt[m].issued = 0
                        /\ \A cap \in Allowances \ {0}, w \in Warnings : ~(usage[m].sessions * 100 >= cap * w)
                        /\ dealt[m].by = {} /\ ~dealt[m].refused
      BY DEF RowCounts
    <2>1. dealt[m].issued = 0 /\ usage[m].sessions = 0 /\ dealt[m].by = {} /\ ~dealt[m].refused
      BY DEF MeterInit
    <2>2. ASSUME NEW cap \in Allowances \ {0}, NEW w \in Warnings PROVE ~(usage[m].sessions * 100 >= cap * w)
      <3>1. cap \in Nat /\ cap > 0 /\ (w = 80 \/ w = 100)
        BY <1>1 DEF Warnings
      <3>2. CASE w = 80
        BY <2>1, <3>1, <3>2
      <3>3. CASE w = 100
        BY <2>1, <3>1, <3>3
      <3> QED
        BY <3>1, <3>2, <3>3
    <2> QED
      BY <2>1, <2>2
  <1> QED
    BY <1>2, <1>3, <1>4 DEF MeterInv

\* What MeterInv says of a request that asks.
LEMMA MeterAsked ==
  ASSUME MeterInv, NEW i \in Issuers, issuer[i].at = "asked"
  PROVE  issuer[i].month \in Months /\ issuer[i].allowance \in Allowances
PROOF
  <1>1. issuer[i] \in IssuesAsked
    BY DEF MeterInv, MeterTyped, IssuesAsked, IssuesWarning, Asleep
  <1> QED
    BY <1>1 DEF IssuesAsked

\* Meter.Allow where it refuses.
LEMMA MeterRefuses ==
  ASSUME MeterInv, NEW i \in Issuers, issuer[i].at = "asked",
         NEW m \in Months, NEW cap \in Allowances, Refuse(i, m, cap),
         UNCHANGED <<month, allowance, mails>>
  PROVE  MeterInv'
PROOF
  <1> USE DEF MeterInv
  <1>1. cap \in Nat /\ \A c \in Allowances : c \in Nat
    BY MeterAssumption
  <1>2. /\ usage[m] \in UsageRows /\ dealt[m] \in Dealt
        /\ usage[m].sessions \in Nat /\ dealt[m].issued \in Nat /\ dealt[m].by \subseteq Allowances
    BY DEF MeterTyped, UsageRows, Dealt
  <1>3. [issued |-> dealt[m].issued, refused |-> TRUE, by |-> dealt[m].by \union {cap}] \in Dealt
    <2>1. TRUE \in BOOLEAN
      BY Zenon
    <2> QED
      BY <1>2, <2>1 DEF Dealt
  <1>4. MeterTyped'
    <2>1. dealt' \in [Months -> Dealt]
      BY <1>3 DEF MeterTyped, Refuse
    <2>2. issuer' \in [Issuers -> {Asleep} \union IssuesAsked \union IssuesWarning]
      BY DEF MeterTyped, Refuse
    <2> QED
      BY <2>1, <2>2 DEF MeterTyped, Refuse
  <1>5. ClaimedOnce'
    <2>1. ASSUME NEW j \in Issuers, NEW n \in Months, NEW w \in Warnings, Claims(j, n, w)' PROVE Claims(j, n, w)
      BY <2>1 DEF Claims, Refuse, MeterTyped, Asleep
    <2> QED
      BY <2>1 DEF ClaimedOnce, Refuse
  <1>6. RowCounts'
    <2> SUFFICES ASSUME NEW n \in Months
                 PROVE  /\ dealt'[n].issued = usage[n].sessions
                        /\ dealt'[n].issued = 0 \/ \E c \in dealt'[n].by : dealt'[n].issued <= c
                        /\ dealt'[n].refused => dealt'[n].by # {}
                        /\ \A c \in Allowances \ {0} : dealt'[n].by \subseteq {c}
                             => \A w \in Warnings : usage[n].sessions * 100 >= c * w => w \in usage[n].warned
                        /\ \A c \in Allowances \ {0} :
                             dealt'[n].refused /\ dealt'[n].by = {c} => usage[n].warned = Warnings
      BY DEF RowCounts, Refuse
    <2>1. CASE n # m
      <3>1. dealt'[n] = dealt[n]
        BY <2>1 DEF Refuse, MeterTyped
      <3> QED
        BY <3>1 DEF RowCounts
    <2>2. CASE n = m
      <3>1. dealt'[m].issued = dealt[m].issued /\ dealt'[m].by = dealt[m].by \union {cap}
        BY DEF Refuse, MeterTyped
      <3>2. ASSUME NEW c \in Allowances \ {0}, dealt'[m].by \subseteq {c} PROVE dealt[m].by \subseteq {c} /\ c = cap
        BY <3>1, <3>2
      <3>3. ASSUME NEW c \in Allowances \ {0}, dealt'[m].by = {c} PROVE usage[m].warned = Warnings
        <4>1. dealt[m].by \subseteq {c} /\ c = cap /\ cap # 0
          BY <3>2, <3>3
        <4>2. usage[m].sessions >= cap
          BY <4>1, <1>1, <1>2 DEF Refuse, MayIssue
        <4>3. usage[m].sessions * 100 >= cap * 80 /\ usage[m].sessions * 100 >= cap * 100
          BY <4>2, <1>1, <1>2
        <4>4. 80 \in usage[m].warned /\ 100 \in usage[m].warned
          BY <4>1, <4>3 DEF RowCounts, Warnings
        <4> QED
          BY <4>4, <1>2 DEF UsageRows, Warnings
      <3> QED
        BY <2>2, <3>1, <3>2, <3>3 DEF RowCounts
    <2> QED
      BY <2>1, <2>2
  <1> QED
    BY <1>4, <1>5, <1>6

\* Meter.Allow where it issues: the upsert, the claims and the commit.
LEMMA MeterIssues ==
  ASSUME MeterInv, NEW i \in Issuers, issuer[i].at = "asked",
         NEW m \in Months, NEW cap \in Allowances, Issue(i, m, cap),
         UNCHANGED <<month, allowance, mails>>
  PROVE  MeterInv'
PROOF
  <1> USE DEF MeterInv
  <1>1. cap \in Nat /\ \A c \in Allowances : c \in Nat
    BY MeterAssumption
  <1>2. /\ usage[m] \in UsageRows /\ dealt[m] \in Dealt
        /\ usage[m].sessions \in Nat /\ dealt[m].issued \in Nat /\ dealt[m].by \subseteq Allowances
        /\ usage[m].warned \subseteq Warnings /\ dealt[m].refused \in BOOLEAN
    BY DEF MeterTyped, UsageRows, Dealt
  <1>3. PICK count : count = usage[m].sessions + 1
    OBVIOUS
  <1>4. PICK claims : claims = WarningsDue(count, cap) \ usage[m].warned
    OBVIOUS
  <1>5. claims \subseteq Warnings /\ count \in Nat
    BY <1>2, <1>3, <1>4 DEF WarningsDue
  <1>6. /\ usage' = [usage EXCEPT ![m] = [sessions |-> count, warned |-> usage[m].warned \union claims]]
        /\ issuer' = [issuer EXCEPT ![i] = IF claims = {} THEN Asleep
                                           ELSE [at |-> "warns", month |-> m, claims |-> claims]]
        /\ dealt' = [dealt EXCEPT ![m] = [issued |-> dealt[m].issued + 1, refused |-> dealt[m].refused,
                                          by |-> dealt[m].by \union {cap}]]
        /\ MayIssue(m, cap)
    BY <1>3, <1>4 DEF Issue
  <1>7. MeterTyped'
    <2>1. [sessions |-> count, warned |-> usage[m].warned \union claims] \in UsageRows
      BY <1>2, <1>5 DEF UsageRows
    <2>2. usage' \in [Months -> UsageRows]
      BY <1>6, <2>1 DEF MeterTyped
    <2>3. [issued |-> dealt[m].issued + 1, refused |-> dealt[m].refused, by |-> dealt[m].by \union {cap}] \in Dealt
      BY <1>2 DEF Dealt
    <2>4. dealt' \in [Months -> Dealt]
      BY <1>6, <2>3 DEF MeterTyped
    <2>5. [at |-> "warns", month |-> m, claims |-> claims] \in IssuesWarning
      BY <1>5 DEF IssuesWarning
    <2>6. issuer' \in [Issuers -> {Asleep} \union IssuesAsked \union IssuesWarning]
      BY <1>6, <2>5 DEF MeterTyped
    <2> QED
      BY <2>2, <2>4, <2>6 DEF MeterTyped
  <1>8. ClaimedOnce'
    <2>1. ASSUME NEW j \in Issuers, NEW n \in Months, NEW w \in Warnings, Claims(j, n, w)'
          PROVE  \/ j # i /\ Claims(j, n, w)
                 \/ j = i /\ n = m /\ w \in claims
      BY <2>1, <1>6 DEF Claims, MeterTyped, Asleep
    <2>2. ASSUME NEW n \in Months PROVE usage[n].warned \subseteq usage'[n].warned
      BY <1>6 DEF MeterTyped
    <2>3. claims \subseteq usage'[m].warned /\ \A w \in claims : w \notin usage[m].warned
      BY <1>4, <1>6 DEF MeterTyped
    <2> SUFFICES ASSUME NEW n \in Months, NEW w \in Warnings
                 PROVE  /\ mails[<<n, w>>] \in {0, 1}
                        /\ mails[<<n, w>>] = 1 => w \in usage'[n].warned /\ \A j \in Issuers : ~Claims(j, n, w)'
                        /\ \A j \in Issuers : Claims(j, n, w)' => w \in usage'[n].warned
                        /\ \A j, k \in Issuers : Claims(j, n, w)' /\ Claims(k, n, w)' => j = k
      BY DEF ClaimedOnce
    <2>4. mails[<<n, w>>] \in {0, 1}
      BY DEF ClaimedOnce
    <2>5. mails[<<n, w>>] = 1 => w \in usage'[n].warned /\ \A j \in Issuers : ~Claims(j, n, w)'
      BY <2>1, <2>2, <2>3 DEF ClaimedOnce
    <2>6. \A j \in Issuers : Claims(j, n, w)' => w \in usage'[n].warned
      BY <2>1, <2>2, <2>3 DEF ClaimedOnce
    <2>7. \A j, k \in Issuers : Claims(j, n, w)' /\ Claims(k, n, w)' => j = k
      BY <2>1, <2>3, ZenonT(60) DEF ClaimedOnce
    <2> QED
      BY <2>4, <2>5, <2>6, <2>7
  <1>9. RowCounts'
    <2> SUFFICES ASSUME NEW n \in Months
                 PROVE  /\ dealt'[n].issued = usage'[n].sessions
                        /\ dealt'[n].issued = 0 \/ \E c \in dealt'[n].by : dealt'[n].issued <= c
                        /\ dealt'[n].refused => dealt'[n].by # {}
                        /\ \A c \in Allowances \ {0} : dealt'[n].by \subseteq {c}
                             => \A w \in Warnings : usage'[n].sessions * 100 >= c * w => w \in usage'[n].warned
                        /\ \A c \in Allowances \ {0} :
                             dealt'[n].refused /\ dealt'[n].by = {c} => usage'[n].warned = Warnings
      BY DEF RowCounts
    <2>1. CASE n # m
      <3>1. dealt'[n] = dealt[n] /\ usage'[n] = usage[n]
        BY <2>1, <1>6 DEF MeterTyped
      <3> QED
        BY <3>1 DEF RowCounts
    <2>2. CASE n = m
      <3>1. /\ dealt'[m].issued = dealt[m].issued + 1 /\ dealt'[m].by = dealt[m].by \union {cap}
            /\ dealt'[m].refused = dealt[m].refused
            /\ usage'[m].sessions = count /\ usage'[m].warned = usage[m].warned \union claims
        BY <1>6 DEF MeterTyped
      <3>2. dealt[m].issued = usage[m].sessions
        BY DEF RowCounts
      <3>3. dealt'[m].issued <= cap
        BY <1>1, <1>2, <1>6, <3>1, <3>2 DEF MayIssue
      <3>4. ASSUME NEW c \in Allowances \ {0}, dealt'[m].by \subseteq {c} PROVE dealt[m].by \subseteq {c} /\ c = cap
        BY <3>1, <3>4
      <3>5. ASSUME NEW c \in Allowances \ {0}, dealt'[m].by \subseteq {c},
                   NEW w \in Warnings, usage'[m].sessions * 100 >= c * w
            PROVE  w \in usage'[m].warned
        BY <3>1, <3>4, <3>5, <1>4 DEF WarningsDue
      <3>6. ASSUME NEW c \in Allowances \ {0}, dealt'[m].by = {c}, dealt'[m].refused
            PROVE  usage'[m].warned = Warnings
        <4>1. dealt[m].by = {c}
          <5>1. dealt[m].by # {}
            BY <3>1, <3>6 DEF RowCounts
          <5>2. dealt[m].by \subseteq {c}
            BY <3>4, <3>6
          <5> QED
            BY <5>1, <5>2
        <4>2. usage[m].warned = Warnings
          BY <4>1, <3>1, <3>6 DEF RowCounts
        <4> QED
          BY <4>2, <3>1, <1>5
      <3> QED
        BY <2>2, <3>1, <3>2, <1>3, <3>3, <3>5, <3>6
    <2> QED
      BY <2>1, <2>2
  <1> QED
    BY <1>7, <1>8, <1>9

\* sendWarning, for a warning that was claimed.
LEMMA MeterWarns ==
  ASSUME MeterInv, NEW i \in Issuers, NEW w \in Warnings, SendWarning(i, w)
  PROVE  MeterInv'
PROOF
  <1> USE DEF MeterInv
  <1>1. issuer[i] \in IssuesWarning
    BY DEF SendWarning, MeterTyped, IssuesAsked, IssuesWarning, Asleep
  <1>2. PICK m \in Months : m = issuer[i].month
    BY <1>1 DEF IssuesWarning
  <1>3. PICK left : left = issuer[i].claims \ {w}
    OBVIOUS
  <1>4. left \subseteq Warnings /\ w \in issuer[i].claims /\ issuer[i].at = "warns"
    BY <1>1, <1>3 DEF IssuesWarning, SendWarning
  <1>5. /\ issuer' = [issuer EXCEPT ![i] = IF left = {} THEN Asleep
                                           ELSE [at |-> "warns", month |-> m, claims |-> left]]
        /\ mails' = [mails EXCEPT ![<<m, w>>] = mails[<<m, w>>] + 1] \/ mails' = mails
        /\ UNCHANGED <<month, allowance, usage, dealt>>
    BY <1>2, <1>3 DEF SendWarning
  <1>6. <<m, w>> \in Months \X Warnings /\ mails[<<m, w>>] \in Nat
    BY DEF MeterTyped
  <1>7. MeterTyped'
    <2>1. [at |-> "warns", month |-> m, claims |-> left] \in IssuesWarning
      BY <1>4 DEF IssuesWarning
    <2>2. issuer' \in [Issuers -> {Asleep} \union IssuesAsked \union IssuesWarning]
      BY <1>5, <2>1 DEF MeterTyped
    <2>3. mails' \in [Months \X Warnings -> Nat]
      BY <1>5, <1>6 DEF MeterTyped
    <2> QED
      BY <1>5, <2>2, <2>3 DEF MeterTyped
  <1>8. ClaimedOnce'
    <2>1. ASSUME NEW j \in Issuers, NEW n \in Months, NEW v \in Warnings, Claims(j, n, v)'
          PROVE  Claims(j, n, v) /\ ~(j = i /\ n = m /\ v = w)
      <3>1. CASE j # i
        BY <2>1, <3>1, <1>5 DEF Claims, MeterTyped
      <3>2. CASE j = i
        <4>1. issuer'[i] = IF left = {} THEN Asleep ELSE [at |-> "warns", month |-> m, claims |-> left]
          BY <1>5 DEF MeterTyped
        <4>2. issuer'[i] # Asleep
          BY <2>1, <3>2 DEF Claims, Asleep
        <4>3. issuer'[i] = [at |-> "warns", month |-> m, claims |-> left]
          BY <4>1, <4>2
        <4>4. n = m /\ v \in left
          BY <2>1, <3>2, <4>3 DEF Claims
        <4> QED
          BY <3>2, <4>4, <1>2, <1>3, <1>4 DEF Claims
      <3> QED
        BY <3>1, <3>2
    <2>2. Claims(i, m, w)
      BY <1>2, <1>4 DEF Claims
    <2> SUFFICES ASSUME NEW n \in Months, NEW v \in Warnings
                 PROVE  /\ mails'[<<n, v>>] \in {0, 1}
                        /\ mails'[<<n, v>>] = 1 => v \in usage[n].warned /\ \A j \in Issuers : ~Claims(j, n, v)'
                        /\ \A j \in Issuers : Claims(j, n, v)' => v \in usage[n].warned
                        /\ \A j, k \in Issuers : Claims(j, n, v)' /\ Claims(k, n, v)' => j = k
      BY <1>5 DEF ClaimedOnce
    <2>3. /\ \A j \in Issuers : Claims(j, n, v)' => v \in usage[n].warned
          /\ \A j, k \in Issuers : Claims(j, n, v)' /\ Claims(k, n, v)' => j = k
      BY <2>1 DEF ClaimedOnce
    <2>4. <<n, v>> \in Months \X Warnings
      OBVIOUS
    <2>5. CASE n = m /\ v = w
      <3>1. mails[<<m, w>>] = 0
        BY <2>2 DEF ClaimedOnce
      <3>2. mails'[<<m, w>>] \in {0, 1}
        BY <3>1, <1>5, <1>6 DEF MeterTyped
      <3>3. w \in usage[m].warned
        BY <2>2 DEF ClaimedOnce
      <3>4. \A j \in Issuers : ~Claims(j, m, w)'
        BY <2>1, <2>2 DEF ClaimedOnce
      <3> QED
        BY <2>3, <2>5, <3>2, <3>3, <3>4
    <2>6. CASE ~(n = m /\ v = w)
      <3>1. <<n, v>> # <<m, w>>
        BY <2>6
      <3>2. mails'[<<n, v>>] = mails[<<n, v>>]
        BY <3>1, <2>4, <1>5 DEF MeterTyped
      <3> QED
        BY <2>1, <2>3, <3>2 DEF ClaimedOnce
    <2> QED
      BY <2>5, <2>6
  <1>9. RowCounts'
    BY <1>5 DEF RowCounts
  <1> QED
    BY <1>7, <1>8, <1>9

\* Every statement of relaymeter.Allow, and every change of the month or of the
\* allowance under it, preserves MeterInv.
LEMMA MeterStep == MeterInv /\ [MeterNext]_rmVars => MeterInv'
PROOF
  <1> SUFFICES ASSUME MeterInv, [MeterNext]_rmVars PROVE MeterInv'
    OBVIOUS
  <1>1. CASE MonthTurns
    <2>1. month' \in Months
      BY <1>1, MeterAssumption DEF MonthTurns, Months, MeterInv, MeterTyped
    <2> QED
      BY <1>1, <2>1 DEF MonthTurns, MeterInv, MeterTyped, ClaimedOnce, RowCounts, Claims
  <1>2. ASSUME NEW to \in Allowances, AllowanceSet(to) PROVE MeterInv'
    BY <1>2 DEF AllowanceSet, MeterInv, MeterTyped, ClaimedOnce, RowCounts, Claims
  <1>3. ASSUME NEW i \in Issuers, AllowReads(i) PROVE MeterInv'
    <2>1. [at |-> "asked", month |-> month, allowance |-> allowance] \in IssuesAsked
      BY DEF MeterInv, MeterTyped, IssuesAsked
    <2>2. MeterTyped'
      BY <1>3, <2>1 DEF AllowReads, MeterInv, MeterTyped
    <2>3. ASSUME NEW j \in Issuers, NEW n \in Months, NEW v \in Warnings, Claims(j, n, v)' PROVE Claims(j, n, v)
      BY <1>3, <2>3 DEF AllowReads, Claims, MeterInv, MeterTyped
    <2> QED
      BY <1>3, <2>2, <2>3 DEF AllowReads, MeterInv, ClaimedOnce, RowCounts
  <1>4. ASSUME NEW i \in Issuers, AllowCounts(i) PROVE MeterInv'
    <2>1. PICK m \in Months, cap \in Allowances : m = issuer[i].month /\ cap = issuer[i].allowance
      BY <1>4, MeterAsked DEF AllowCounts
    <2>2. issuer[i].at = "asked" /\ UNCHANGED <<month, allowance, mails>> /\ (Refuse(i, m, cap) \/ Issue(i, m, cap))
      BY <1>4, <2>1 DEF AllowCounts
    <2>3. CASE Refuse(i, m, cap)
      BY <2>2, <2>3, MeterRefuses
    <2>4. CASE Issue(i, m, cap)
      BY <2>2, <2>4, MeterIssues
    <2> QED
      BY <2>2, <2>3, <2>4
  <1>5. ASSUME NEW i \in Issuers, AllowAborts(i) PROVE MeterInv'
    <2>1. MeterTyped'
      BY <1>5 DEF AllowAborts, MeterInv, MeterTyped
    <2>2. ASSUME NEW j \in Issuers, NEW n \in Months, NEW v \in Warnings, Claims(j, n, v)' PROVE Claims(j, n, v)
      BY <1>5, <2>2 DEF AllowAborts, Claims, MeterInv, MeterTyped, Asleep
    <2> QED
      BY <1>5, <2>1, <2>2 DEF AllowAborts, MeterInv, ClaimedOnce, RowCounts
  <1>6. CASE UNCHANGED rmVars
    BY <1>6 DEF rmVars, MeterInv, MeterTyped, ClaimedOnce, RowCounts, Claims
  <1> QED
    BY <1>1, <1>2, <1>3, <1>4, <1>5, <1>6, MeterWarns DEF MeterNext

\* MeterInv says what MeterSound promises of relaymeter.
LEMMA MeterInvSound == MeterInv => MeterSound
PROOF
  <1> SUFFICES ASSUME MeterInv, NEW m \in Months, NEW w \in Warnings PROVE mails[<<m, w>>] <= 1
    BY DEF MeterInv, RowCounts, MeterSound
  <1> QED
    BY DEF MeterInv, ClaimedOnce

\* relaymeter.Allow, for any number of requests, allowances and months: a month
\* never exceeds the largest allowance that a request of it went by, a warning is
\* mailed at most once, and nobody is refused before both warnings are claimed.
THEOREM MeterHolds == MeterSpec => []MeterSound
PROOF
  BY MeterInitial, MeterStep, MeterInvSound, PTL DEF MeterSpec

-----------------------------------------------------------------------------
(* The allocations of a relay node *)

Stages == {"new", "entered", "timed", "allowed", "over", "binding", "leaving", "bound", "done"}

AllocationsTyped ==
  /\ demand \in [Allocations -> [at : Stages, now : Nat]]
  /\ closing \in [Allocations -> [Closers -> 0..3]]
  /\ work \in Int /\ live \in Int
  /\ bucket \in [tokens : Nat, last : Nat]
  /\ time \in Nat /\ granted \in Nat

\* What the gate and the limiter count: the requests and sockets that have not given
\* back what they took, and among them those that the limiter let through.
HoldsWork(a) == demand[a].at \notin {"new", "done"} /\ FirstClose(a, 1)
HoldsLive(a) == demand[a].at \in {"over", "binding", "bound"} /\ FirstClose(a, 2)
LetThrough(a) == demand[a].at \in {"binding", "bound"} /\ FirstClose(a, 2)

WorkHolders == {a \in Allocations : HoldsWork(a)}
LiveHolders == {a \in Allocations : HoldsLive(a)}
Admitted == {a \in Allocations : LetThrough(a)}

WorkCounted == IsFiniteSet(WorkHolders) /\ work = Cardinality(WorkHolders)
LiveCounted == IsFiniteSet(LiveHolders) /\ live = Cardinality(LiveHolders)
Capped == Cardinality(Admitted) <= MaxAllocations
BoundFirst == \A a \in Allocations, c \in Closers : closing[a][c] > 0 => demand[a].at = "bound"

\* The cell has no more tokens than the burst and the ticks up to its refill leave.
BudgetKept ==
  /\ granted + bucket.tokens <= Burst + Rate * bucket.last
  /\ bucket.last <= time
  /\ \A a \in Allocations : demand[a].now <= time

AllocationsInv ==
  AllocationsTyped /\ WorkCounted /\ LiveCounted /\ Capped /\ BoundFirst /\ BudgetKept

\* One more of what is counted.
LEMMA CountOneMore ==
  ASSUME NEW S, IsFiniteSet(S), NEW a, a \notin S, NEW T, T = S \union {a}
  PROVE  IsFiniteSet(T) /\ Cardinality(T) = Cardinality(S) + 1 /\ Cardinality(S) \in Nat
PROOF
  BY FS_AddElement, FS_CardinalityType

\* One less of what is counted.
LEMMA CountOneLess ==
  ASSUME NEW S, IsFiniteSet(S), NEW a \in S, NEW T, T = S \ {a}
  PROVE  IsFiniteSet(T) /\ Cardinality(T) = Cardinality(S) - 1 /\ Cardinality(S) \in Nat
PROOF
  BY FS_RemoveElement, FS_CardinalityType

\* A part of a finite set is no larger.
LEMMA AdmittedFewer ==
  ASSUME NEW S, IsFiniteSet(S), NEW T, T \subseteq S, NEW n \in Nat, Cardinality(S) <= n
  PROVE  Cardinality(T) <= n
PROOF
  BY FS_Subset, FS_CardinalityType

\* A relay node starts with no request, all counters at zero and a full budget.
LEMMA AllocationsInitial == AllocationsInit => AllocationsInv
PROOF
  <1> SUFFICES ASSUME AllocationsInit PROVE AllocationsInv
    OBVIOUS
  <1>1. /\ MaxAllocations \in Nat /\ Burst \in Nat /\ Rate \in Nat /\ LastTick \in Nat
    BY AllocationsAssumption
  <1>2. AllocationsTyped
    <2>1. demand \in [Allocations -> [at : Stages, now : Nat]]
      BY DEF AllocationsInit, Stages
    <2>2. closing \in [Allocations -> [Closers -> 0..3]]
      BY DEF AllocationsInit
    <2> QED
      BY <1>1, <2>1, <2>2 DEF AllocationsInit, AllocationsTyped
  <1>3. \A a \in Allocations : demand[a].at = "new" /\ demand[a].now = 0
    BY DEF AllocationsInit
  <1>4. WorkHolders = {} /\ LiveHolders = {} /\ Admitted = {}
    BY <1>3 DEF WorkHolders, LiveHolders, Admitted, HoldsWork, HoldsLive, LetThrough
  <1>5. WorkCounted /\ LiveCounted /\ Capped
    BY <1>1, <1>4, FS_EmptySet DEF WorkCounted, LiveCounted, Capped, AllocationsInit
  <1>6. BoundFirst
    BY DEF AllocationsInit, BoundFirst
  <1>7. BudgetKept
    BY <1>1, <1>3 DEF AllocationsInit, BudgetKept
  <1> QED
    BY <1>2, <1>5, <1>6, <1>7 DEF AllocationsInv

\* Request a goes on to another stage and nothing else moves but, perhaps, the time
\* that it knows.
GoesOn(a, at) ==
  /\ demand' \in [Allocations -> [at : Stages, now : Nat]]
  /\ demand'[a].at = at /\ \A b \in Allocations \ {a} : demand'[b] = demand[b]
  /\ closing' = closing

\* A stage that no Close has reached: the socket is not bound yet.
LEMMA NotClosed ==
  ASSUME AllocationsInv, NEW a \in Allocations, demand[a].at # "bound"
  PROVE  FirstClose(a, 1) /\ FirstClose(a, 2)
PROOF
  <1>1. ASSUME NEW c \in Closers PROVE closing[a][c] < 1 /\ closing[a][c] < 2
    <2>1. closing[a][c] \in 0..3
      BY DEF AllocationsInv, AllocationsTyped
    <2>2. ~(closing[a][c] > 0)
      BY DEF AllocationsInv, BoundFirst
    <2> QED
      BY <2>1, <2>2
  <1> QED
    BY <1>1 DEF FirstClose

\* What the sets of holders are once a has gone on.
LEMMA HoldersGoOn ==
  ASSUME AllocationsInv, NEW a \in Allocations, NEW at \in Stages, demand[a].at # "bound", GoesOn(a, at)
  PROVE  /\ demand[a].at \in {"new", "done"} /\ at \notin {"new", "done"} => WorkHolders' = WorkHolders \union {a}
         /\ demand[a].at \notin {"new", "done"} /\ at \in {"new", "done"} => WorkHolders' = WorkHolders \ {a}
         /\ demand[a].at \notin {"new", "done"} /\ at \notin {"new", "done"} => WorkHolders' = WorkHolders
         /\ demand[a].at \notin {"over", "binding"} /\ at \in {"over", "binding", "bound"} => LiveHolders' = LiveHolders \union {a}
         /\ demand[a].at \in {"over", "binding"} /\ at \notin {"over", "binding", "bound"} => LiveHolders' = LiveHolders \ {a}
         /\ demand[a].at \in {"over", "binding"} /\ at \in {"over", "binding", "bound"} => LiveHolders' = LiveHolders
         /\ demand[a].at \notin {"over", "binding"} /\ at \notin {"over", "binding", "bound"} => LiveHolders' = LiveHolders
         /\ demand[a].at = "binding" \/ at \notin {"binding", "bound"} => Admitted' \subseteq Admitted
         /\ BoundFirst'
PROOF
  <1>1. /\ \A b \in Allocations \ {a} : demand'[b] = demand[b]
        /\ demand'[a].at = at /\ closing' = closing
    BY DEF GoesOn
  <1>2. \A b \in Allocations : /\ FirstClose(b, 1)' = FirstClose(b, 1)
                               /\ FirstClose(b, 2)' = FirstClose(b, 2)
    BY <1>1 DEF FirstClose
  <1>3. FirstClose(a, 1) /\ FirstClose(a, 2)
    BY NotClosed
  <1>4. \A b \in Allocations \ {a} : /\ HoldsWork(b)' <=> HoldsWork(b)
                                     /\ HoldsLive(b)' <=> HoldsLive(b)
                                     /\ LetThrough(b)' <=> LetThrough(b)
    BY <1>1, <1>2 DEF HoldsWork, HoldsLive, LetThrough
  <1>5. /\ HoldsWork(a) <=> demand[a].at \notin {"new", "done"}
        /\ HoldsWork(a)' <=> at \notin {"new", "done"}
    BY <1>1, <1>2, <1>3 DEF HoldsWork
  <1>6. /\ HoldsLive(a) <=> demand[a].at \in {"over", "binding"}
        /\ HoldsLive(a)' <=> at \in {"over", "binding", "bound"}
    BY <1>1, <1>2, <1>3 DEF HoldsLive
  <1>7. /\ LetThrough(a) <=> demand[a].at = "binding"
        /\ LetThrough(a)' <=> at \in {"binding", "bound"}
    BY <1>1, <1>2, <1>3 DEF LetThrough
  <1>8. BoundFirst'
    <2> SUFFICES ASSUME NEW b \in Allocations, NEW c \in Closers, closing[b][c] > 0 PROVE demand'[b].at = "bound"
      BY <1>1 DEF BoundFirst
    <2>1. demand[b].at = "bound"
      BY DEF AllocationsInv, BoundFirst
    <2> QED
      BY <2>1, <1>1
  <1>9. /\ demand[a].at \in {"new", "done"} /\ at \notin {"new", "done"} => WorkHolders' = WorkHolders \union {a}
        /\ demand[a].at \notin {"new", "done"} /\ at \in {"new", "done"} => WorkHolders' = WorkHolders \ {a}
        /\ demand[a].at \notin {"new", "done"} /\ at \notin {"new", "done"} => WorkHolders' = WorkHolders
    BY <1>4, <1>5 DEF WorkHolders
  <1>10. /\ demand[a].at \notin {"over", "binding"} /\ at \in {"over", "binding", "bound"} => LiveHolders' = LiveHolders \union {a}
         /\ demand[a].at \in {"over", "binding"} /\ at \notin {"over", "binding", "bound"} => LiveHolders' = LiveHolders \ {a}
         /\ demand[a].at \in {"over", "binding"} /\ at \in {"over", "binding", "bound"} => LiveHolders' = LiveHolders
         /\ demand[a].at \notin {"over", "binding"} /\ at \notin {"over", "binding", "bound"} => LiveHolders' = LiveHolders
    BY <1>4, <1>6 DEF LiveHolders
  <1>11. demand[a].at = "binding" \/ at \notin {"binding", "bound"} => Admitted' \subseteq Admitted
    BY <1>4, <1>7 DEF Admitted
  <1> QED
    BY <1>8, <1>9, <1>10, <1>11

\* The sockets that allocationLimiter let through are among those it counts.
LEMMA AdmittedFinite == AllocationsInv => Admitted \subseteq LiveHolders /\ IsFiniteSet(Admitted) /\ MaxAllocations \in Nat
PROOF
  <1> SUFFICES ASSUME AllocationsInv PROVE Admitted \subseteq LiveHolders /\ IsFiniteSet(Admitted) /\ MaxAllocations \in Nat
    OBVIOUS
  <1>1. Admitted \subseteq LiveHolders
    BY DEF Admitted, LiveHolders, HoldsLive, LetThrough
  <1>2. IsFiniteSet(LiveHolders)
    BY DEF AllocationsInv, LiveCounted
  <1> QED
    BY <1>1, <1>2, FS_Subset, AllocationsAssumption

\* Where no more sockets are let through, the cap of the node stays kept.
LEMMA CappedStays == ASSUME AllocationsInv, Admitted' \subseteq Admitted PROVE Capped'
PROOF
  <1>1. IsFiniteSet(Admitted) /\ Cardinality(Admitted) <= MaxAllocations /\ MaxAllocations \in Nat
    BY AdmittedFinite DEF AllocationsInv, Capped
  <1>2. PICK T : T = Admitted'
    OBVIOUS
  <1>3. Cardinality(T) <= MaxAllocations
    BY <1>1, <1>2, AdmittedFewer
  <1> QED
    BY <1>2, <1>3 DEF Capped

\* Requests that do not touch the budget: the clock, the gate, the limiter and
\* the sockets.
BudgetAlone ==
  /\ granted' = granted /\ bucket' = bucket /\ time' = time
  /\ \A b \in Allocations : demand'[b].now = demand[b].now

\* A step that leaves the cell and the clock alone keeps the budget.
LEMMA BudgetStays == ASSUME AllocationsInv, BudgetAlone PROVE BudgetKept'
PROOF
  BY DEF AllocationsInv, BudgetKept, BudgetAlone

\* Gate.Enter
LEMMA EntersStep == ASSUME AllocationsInv, NEW a \in Allocations, AllocateEnters(a) PROVE AllocationsInv'
PROOF
  <1>1. GoesOn(a, "entered") /\ "entered" \in Stages /\ demand[a].at = "new"
    BY DEF AllocateEnters, GoesOn, Stages, AllocationsInv, AllocationsTyped
  <1>2. WorkHolders' = WorkHolders \union {a} /\ LiveHolders' = LiveHolders /\ Admitted' \subseteq Admitted /\ BoundFirst'
    BY <1>1, HoldersGoOn
  <1>3. a \notin WorkHolders
    BY <1>1 DEF WorkHolders, HoldsWork
  <1>4. WorkCounted'
    <2>1. PICK S : S = WorkHolders
      OBVIOUS
    <2>2. PICK T : T = WorkHolders'
      OBVIOUS
    <2>3. IsFiniteSet(T) /\ Cardinality(T) = Cardinality(S) + 1
      BY <1>2, <1>3, <2>1, <2>2, CountOneMore DEF AllocationsInv, WorkCounted
    <2> QED
      BY <2>1, <2>2, <2>3 DEF AllocateEnters, AllocationsInv, WorkCounted
  <1>5. LiveCounted' /\ Capped'
    BY <1>2, CappedStays DEF AllocateEnters, AllocationsInv, LiveCounted
  <1>6. AllocationsTyped'
    BY <1>1 DEF GoesOn, AllocateEnters, AllocationsInv, AllocationsTyped
  <1>7. BudgetKept'
    BY BudgetStays DEF BudgetAlone, AllocateEnters, AllocationsInv, AllocationsTyped
  <1> QED
    BY <1>2, <1>4, <1>5, <1>6, <1>7 DEF AllocationsInv

\* playerAllocLimiter.allow before its lock
LEMMA ClockStep == ASSUME AllocationsInv, NEW a \in Allocations, BudgetReadsClock(a) PROVE AllocationsInv'
PROOF
  <1>1. GoesOn(a, "timed") /\ "timed" \in Stages /\ demand[a].at = "entered"
    BY DEF BudgetReadsClock, GoesOn, Stages, AllocationsInv, AllocationsTyped
  <1>2. WorkHolders' = WorkHolders /\ LiveHolders' = LiveHolders /\ Admitted' \subseteq Admitted /\ BoundFirst'
    BY <1>1, HoldersGoOn
  <1>3. WorkCounted' /\ LiveCounted' /\ Capped'
    BY <1>2, CappedStays DEF BudgetReadsClock, AllocationsInv, WorkCounted, LiveCounted
  <1>4. AllocationsTyped'
    BY <1>1 DEF GoesOn, BudgetReadsClock, AllocationsInv, AllocationsTyped
  <1>5. BudgetKept'
    BY DEF BudgetReadsClock, AllocationsInv, AllocationsTyped, BudgetKept
  <1> QED
    BY <1>2, <1>3, <1>4, <1>5 DEF AllocationsInv

\* playerAllocLimiter.allow under its lock: what the refill adds is what the ticks
\* since the last one earn, and a time read before that adds nothing.
LEMMA DecidesStep == ASSUME AllocationsInv, NEW a \in Allocations, BudgetDecides(a) PROVE AllocationsInv'
PROOF
  <1>1. PICK cell : cell = Refilled(demand[a].now)
    OBVIOUS
  <1>2. PICK now \in Nat : now = demand[a].now /\ now <= time
    BY DEF AllocationsInv, AllocationsTyped, BudgetKept
  <1>3. PICK tokens \in Nat, last \in Nat : tokens = bucket.tokens /\ last = bucket.last
    BY DEF AllocationsInv, AllocationsTyped
  <1>4. Burst \in Nat /\ Rate \in Nat
    BY AllocationsAssumption
  <1>5. granted \in Nat /\ granted + tokens <= Burst + Rate * last /\ last <= time /\ time \in Nat
    BY <1>3 DEF AllocationsInv, AllocationsTyped, BudgetKept
  <1>6. cell \in [tokens : Nat, last : Nat] /\ granted + cell.tokens <= Burst + Rate * cell.last /\ cell.last <= time
    <2>1. CASE now <= last
      BY <2>1, <1>1, <1>2, <1>3, <1>5 DEF Refilled, AllocationsInv, AllocationsTyped
    <2>2. CASE now > last
      <3>1. PICK earned : earned = tokens + (now - last) * Rate
        OBVIOUS
      <3>2. (now - last) * Rate = Rate * now - Rate * last /\ (now - last) * Rate \in Nat
        BY <2>2, <1>4
      <3>3. earned \in Nat /\ granted + earned <= Burst + Rate * now
        BY <3>1, <3>2, <1>4, <1>5
      <3>4. cell = [tokens |-> IF earned < Burst THEN earned ELSE Burst, last |-> now]
        BY <2>2, <3>1, <1>1, <1>2, <1>3 DEF Refilled
      <3>5. cell.tokens \in Nat /\ cell.tokens <= earned /\ cell.last = now /\ cell \in [tokens : Nat, last : Nat]
        BY <3>3, <3>4, <1>4
      <3> QED
        BY <3>3, <3>5, <1>2, <1>4, <1>5
    <2> QED
      BY <2>1, <2>2
  <1>7. PICK at : at = IF cell.tokens >= 1 THEN "allowed" ELSE "leaving"
    OBVIOUS
  <1>8. GoesOn(a, at) /\ at \in Stages /\ at \in {"allowed", "leaving"} /\ demand[a].at = "timed"
    BY <1>1, <1>7 DEF BudgetDecides, GoesOn, Stages, AllocationsInv, AllocationsTyped
  <1>9. WorkHolders' = WorkHolders /\ LiveHolders' = LiveHolders /\ Admitted' \subseteq Admitted /\ BoundFirst'
    BY <1>8, HoldersGoOn
  <1>10. WorkCounted' /\ LiveCounted' /\ Capped'
    BY <1>9, CappedStays DEF BudgetDecides, AllocationsInv, WorkCounted, LiveCounted
  <1>11. /\ bucket' \in [tokens : Nat, last : Nat] /\ granted' \in Nat
         /\ granted' + bucket'.tokens <= Burst + Rate * bucket'.last /\ bucket'.last <= time
    <2>1. CASE cell.tokens >= 1
      <3>1. bucket' = [tokens |-> cell.tokens - 1, last |-> cell.last] /\ granted' = granted + 1
        BY <2>1, <1>1 DEF BudgetDecides
      <3> QED
        BY <2>1, <3>1, <1>4, <1>5, <1>6
    <2>2. CASE ~(cell.tokens >= 1)
      <3>1. bucket' = cell /\ granted' = granted
        BY <2>2, <1>1 DEF BudgetDecides
      <3> QED
        BY <3>1, <1>5, <1>6
    <2> QED
      BY <2>1, <2>2
  <1>12. AllocationsTyped'
    BY <1>8, <1>11 DEF GoesOn, BudgetDecides, AllocationsInv, AllocationsTyped
  <1>13. BudgetKept'
    <2>1. \A b \in Allocations : demand'[b].now = demand[b].now
      BY DEF BudgetDecides, AllocationsInv, AllocationsTyped
    <2> QED
      BY <1>11, <2>1 DEF BudgetDecides, AllocationsInv, BudgetKept
  <1> QED
    BY <1>9, <1>10, <1>12, <1>13 DEF AllocationsInv

\* allocationLimiter.acquire: the counter is above what is let through, so it lets
\* one more through only where there is room.
LEMMA CountsStep == ASSUME AllocationsInv, NEW a \in Allocations, AcquireCounts(a) PROVE AllocationsInv'
PROOF
  <1>1. PICK at : at = IF live + 1 > MaxAllocations THEN "over" ELSE "binding"
    OBVIOUS
  <1>2. GoesOn(a, at) /\ at \in Stages /\ at \in {"over", "binding"} /\ demand[a].at = "allowed"
    BY <1>1 DEF AcquireCounts, OverLimit, GoesOn, Stages, AllocationsInv, AllocationsTyped
  <1>3. /\ WorkHolders' = WorkHolders /\ LiveHolders' = LiveHolders \union {a} /\ BoundFirst'
        /\ at = "over" => Admitted' \subseteq Admitted
    BY <1>2, HoldersGoOn
  <1>4. a \notin LiveHolders
    BY <1>2 DEF LiveHolders, HoldsLive
  <1>5. LiveCounted'
    <2>1. PICK S : S = LiveHolders
      OBVIOUS
    <2>2. PICK T : T = LiveHolders'
      OBVIOUS
    <2>3. IsFiniteSet(T) /\ Cardinality(T) = Cardinality(S) + 1
      BY <1>3, <1>4, <2>1, <2>2, CountOneMore DEF AllocationsInv, LiveCounted
    <2> QED
      BY <2>1, <2>2, <2>3 DEF AcquireCounts, AllocationsInv, LiveCounted
  <1>6. Capped'
    <2>1. CASE at = "over"
      BY <2>1, <1>3, CappedStays
    <2>2. CASE at = "binding"
      <3>1. live' <= MaxAllocations /\ MaxAllocations \in Nat
        BY <2>2, <1>1, AllocationsAssumption DEF AcquireCounts, AllocationsInv, AllocationsTyped
      <3>2. PICK S : S = LiveHolders'
        OBVIOUS
      <3>3. PICK T : T = Admitted'
        OBVIOUS
      <3>4. T \subseteq S
        BY <3>2, <3>3 DEF Admitted, LiveHolders, HoldsLive, LetThrough
      <3>5. IsFiniteSet(S) /\ Cardinality(S) <= MaxAllocations
        BY <3>1, <3>2, <1>5 DEF LiveCounted
      <3>6. Cardinality(T) <= MaxAllocations
        BY <3>1, <3>4, <3>5, AdmittedFewer
      <3> QED
        BY <3>3, <3>6 DEF Capped
    <2> QED
      BY <1>2, <2>1, <2>2
  <1>7. WorkCounted'
    BY <1>3 DEF AcquireCounts, AllocationsInv, WorkCounted
  <1>8. AllocationsTyped'
    BY <1>2 DEF GoesOn, AcquireCounts, AllocationsInv, AllocationsTyped
  <1>9. BudgetKept'
    BY BudgetStays DEF BudgetAlone, AcquireCounts, AllocationsInv, AllocationsTyped
  <1> QED
    BY <1>3, <1>5, <1>6, <1>7, <1>8, <1>9 DEF AllocationsInv

\* The slot is given back.
LEMMA FailsStep == ASSUME AllocationsInv, NEW a \in Allocations, AcquireFails(a) PROVE AllocationsInv'
PROOF
  <1>1. GoesOn(a, "leaving") /\ "leaving" \in Stages /\ demand[a].at \in {"over", "binding"}
    BY DEF AcquireFails, GoesOn, Stages, AllocationsInv, AllocationsTyped
  <1>2. WorkHolders' = WorkHolders /\ LiveHolders' = LiveHolders \ {a} /\ Admitted' \subseteq Admitted /\ BoundFirst'
    BY <1>1, HoldersGoOn
  <1>3. a \in LiveHolders
    BY <1>1, NotClosed DEF LiveHolders, HoldsLive
  <1>4. LiveCounted'
    <2>1. PICK S : S = LiveHolders
      OBVIOUS
    <2>2. PICK T : T = LiveHolders'
      OBVIOUS
    <2>3. IsFiniteSet(T) /\ Cardinality(T) = Cardinality(S) - 1
      BY <1>2, <1>3, <2>1, <2>2, CountOneLess DEF AllocationsInv, LiveCounted
    <2> QED
      BY <2>1, <2>2, <2>3 DEF AcquireFails, AllocationsInv, LiveCounted
  <1>5. WorkCounted' /\ Capped'
    BY <1>2, CappedStays DEF AcquireFails, AllocationsInv, WorkCounted
  <1>6. AllocationsTyped'
    BY <1>1 DEF GoesOn, AcquireFails, AllocationsInv, AllocationsTyped
  <1>7. BudgetKept'
    BY BudgetStays DEF BudgetAlone, AcquireFails, AllocationsInv, AllocationsTyped
  <1> QED
    BY <1>2, <1>4, <1>5, <1>6, <1>7 DEF AllocationsInv

\* The port of the allocation is bound.
LEMMA BoundStep == ASSUME AllocationsInv, NEW a \in Allocations, PortBound(a) PROVE AllocationsInv'
PROOF
  <1>1. GoesOn(a, "bound") /\ "bound" \in Stages /\ demand[a].at = "binding"
    BY DEF PortBound, GoesOn, Stages, AllocationsInv, AllocationsTyped
  <1>2. WorkHolders' = WorkHolders /\ LiveHolders' = LiveHolders /\ Admitted' \subseteq Admitted /\ BoundFirst'
    BY <1>1, HoldersGoOn
  <1>3. WorkCounted' /\ LiveCounted' /\ Capped'
    BY <1>2, CappedStays DEF PortBound, AllocationsInv, WorkCounted, LiveCounted
  <1>4. AllocationsTyped'
    BY <1>1 DEF GoesOn, PortBound, AllocationsInv, AllocationsTyped
  <1>5. BudgetKept'
    BY BudgetStays DEF BudgetAlone, PortBound, AllocationsInv, AllocationsTyped
  <1> QED
    BY <1>2, <1>3, <1>4, <1>5 DEF AllocationsInv

\* Gate.Leave of a request that failed
LEMMA LeavesStep == ASSUME AllocationsInv, NEW a \in Allocations, AllocateLeaves(a) PROVE AllocationsInv'
PROOF
  <1>1. GoesOn(a, "done") /\ "done" \in Stages /\ demand[a].at = "leaving"
    BY DEF AllocateLeaves, GoesOn, Stages, AllocationsInv, AllocationsTyped
  <1>2. WorkHolders' = WorkHolders \ {a} /\ LiveHolders' = LiveHolders /\ Admitted' \subseteq Admitted /\ BoundFirst'
    BY <1>1, HoldersGoOn
  <1>3. a \in WorkHolders
    BY <1>1, NotClosed DEF WorkHolders, HoldsWork
  <1>4. WorkCounted'
    <2>1. PICK S : S = WorkHolders
      OBVIOUS
    <2>2. PICK T : T = WorkHolders'
      OBVIOUS
    <2>3. IsFiniteSet(T) /\ Cardinality(T) = Cardinality(S) - 1
      BY <1>2, <1>3, <2>1, <2>2, CountOneLess DEF AllocationsInv, WorkCounted
    <2> QED
      BY <2>1, <2>2, <2>3 DEF AllocateLeaves, AllocationsInv, WorkCounted
  <1>5. LiveCounted' /\ Capped'
    BY <1>2, CappedStays DEF AllocateLeaves, AllocationsInv, LiveCounted
  <1>6. AllocationsTyped'
    BY <1>1 DEF GoesOn, AllocateLeaves, AllocationsInv, AllocationsTyped
  <1>7. BudgetKept'
    BY BudgetStays DEF BudgetAlone, AllocateLeaves, AllocationsInv, AllocationsTyped
  <1> QED
    BY <1>2, <1>4, <1>5, <1>6, <1>7 DEF AllocationsInv

-----------------------------------------------------------------------------

\* One Close of the socket of a goes on to stage n, which the one before it precedes.
ClosesOn(a, c, n) ==
  /\ closing' \in [Allocations -> [Closers -> 0..3]] /\ demand' = demand
  /\ demand[a].at = "bound"
  /\ closing[a][c] = n - 1 /\ closing'[a][c] = n
  /\ \A b \in Allocations, d \in Closers : ~(b = a /\ d = c) => closing'[b][d] = closing[b][d]

\* What the sets of holders are once a Close has gone on.
LEMMA HoldersClose ==
  ASSUME AllocationsInv, NEW a \in Allocations, NEW c \in Closers, NEW n \in 1..3, ClosesOn(a, c, n)
  PROVE  /\ n = 1 /\ FirstClose(a, 1) => a \in WorkHolders /\ WorkHolders' = WorkHolders \ {a}
         /\ n # 1 \/ ~FirstClose(a, 1) => WorkHolders' = WorkHolders
         /\ n = 2 /\ FirstClose(a, 2) => a \in LiveHolders /\ LiveHolders' = LiveHolders \ {a}
         /\ n # 2 \/ ~FirstClose(a, 2) => LiveHolders' = LiveHolders
         /\ Admitted' \subseteq Admitted /\ BoundFirst'
PROOF
  <1>1. \A b \in Allocations, d \in Closers : closing[b][d] \in 0..3 /\ closing'[b][d] \in 0..3
    BY DEF AllocationsInv, AllocationsTyped, ClosesOn
  <1>2. \A b \in Allocations \ {a} : /\ FirstClose(b, 1)' <=> FirstClose(b, 1)
                                     /\ FirstClose(b, 2)' <=> FirstClose(b, 2)
    BY DEF FirstClose, ClosesOn
  <1>3. /\ n = 1 => ~FirstClose(a, 1)' /\ (FirstClose(a, 2)' <=> FirstClose(a, 2))
        /\ n = 2 => ~FirstClose(a, 2)' /\ ~FirstClose(a, 1) /\ ~FirstClose(a, 1)'
        /\ n = 3 => ~FirstClose(a, 2)' /\ ~FirstClose(a, 1) /\ ~FirstClose(a, 1)' /\ ~FirstClose(a, 2)
    BY <1>1 DEF FirstClose, ClosesOn
  <1>4. \A b \in Allocations \ {a} : /\ HoldsWork(b)' <=> HoldsWork(b)
                                     /\ HoldsLive(b)' <=> HoldsLive(b)
                                     /\ LetThrough(b)' <=> LetThrough(b)
    BY <1>2 DEF HoldsWork, HoldsLive, LetThrough, ClosesOn
  <1>5. /\ HoldsWork(a) <=> FirstClose(a, 1)
        /\ HoldsWork(a)' <=> FirstClose(a, 1)'
        /\ HoldsLive(a) <=> FirstClose(a, 2)
        /\ HoldsLive(a)' <=> FirstClose(a, 2)'
        /\ LetThrough(a) <=> FirstClose(a, 2)
        /\ LetThrough(a)' <=> FirstClose(a, 2)'
    BY DEF HoldsWork, HoldsLive, LetThrough, ClosesOn
  <1>6. n = 1 \/ n = 2 \/ n = 3
    OBVIOUS
  <1>7. /\ n = 1 /\ FirstClose(a, 1) => a \in WorkHolders /\ WorkHolders' = WorkHolders \ {a}
        /\ n # 1 \/ ~FirstClose(a, 1) => WorkHolders' = WorkHolders
    <2>1. ~FirstClose(a, 1)'
      BY <1>3, <1>6
    <2>2. n # 1 => ~FirstClose(a, 1)
      BY <1>3, <1>6
    <2> QED
      BY <1>4, <1>5, <2>1, <2>2 DEF WorkHolders
  <1>8. /\ n = 2 /\ FirstClose(a, 2) => a \in LiveHolders /\ LiveHolders' = LiveHolders \ {a}
        /\ n # 2 \/ ~FirstClose(a, 2) => LiveHolders' = LiveHolders
    <2>1. n = 2 => ~FirstClose(a, 2)'
      BY <1>3
    <2>2. n # 2 => (FirstClose(a, 2)' <=> FirstClose(a, 2))
      BY <1>3, <1>6
    <2> QED
      BY <1>4, <1>5, <2>1, <2>2 DEF LiveHolders
  <1>9. Admitted' \subseteq Admitted
    BY <1>3, <1>4, <1>5, <1>6 DEF Admitted
  <1>10. BoundFirst'
    <2> SUFFICES ASSUME NEW b \in Allocations, NEW d \in Closers, closing'[b][d] > 0 PROVE demand[b].at = "bound"
      BY DEF BoundFirst, ClosesOn
    <2>1. CASE b = a
      BY <2>1 DEF ClosesOn
    <2>2. CASE b # a
      BY <2>2 DEF ClosesOn, AllocationsInv, BoundFirst
    <2> QED
      BY <2>1, <2>2
  <1> QED
    BY <1>7, <1>8, <1>9, <1>10

\* countedPacketConn.Close of the outer wrapper
LEMMA CloseLeavesStep ==
  ASSUME AllocationsInv, NEW a \in Allocations, NEW c \in Closers, CloseLeaves(a, c) PROVE AllocationsInv'
PROOF
  <1>1. ClosesOn(a, c, 1)
    BY DEF CloseLeaves, ClosesOn, AllocationsInv, AllocationsTyped
  <1>2. /\ FirstClose(a, 1) => a \in WorkHolders /\ WorkHolders' = WorkHolders \ {a}
        /\ ~FirstClose(a, 1) => WorkHolders' = WorkHolders
        /\ LiveHolders' = LiveHolders /\ Admitted' \subseteq Admitted /\ BoundFirst'
    BY <1>1, HoldersClose, 1 \in 1..3
  <1>3. WorkCounted'
    <2>1. CASE FirstClose(a, 1)
      <3>1. PICK S : S = WorkHolders
        OBVIOUS
      <3>2. PICK T : T = WorkHolders'
        OBVIOUS
      <3>3. IsFiniteSet(T) /\ Cardinality(T) = Cardinality(S) - 1
        BY <2>1, <1>2, <3>1, <3>2, CountOneLess DEF AllocationsInv, WorkCounted
      <3>4. work' = work - 1
        BY <2>1 DEF CloseLeaves
      <3> QED
        BY <3>1, <3>2, <3>3, <3>4 DEF AllocationsInv, WorkCounted
    <2>2. CASE ~FirstClose(a, 1)
      BY <2>2, <1>2 DEF CloseLeaves, AllocationsInv, WorkCounted
    <2> QED
      BY <2>1, <2>2
  <1>4. LiveCounted' /\ Capped'
    BY <1>2, CappedStays DEF CloseLeaves, AllocationsInv, LiveCounted
  <1>5. AllocationsTyped'
    BY <1>1 DEF ClosesOn, CloseLeaves, AllocationsInv, AllocationsTyped
  <1>6. BudgetKept'
    BY BudgetStays DEF BudgetAlone, CloseLeaves
  <1> QED
    BY <1>2, <1>3, <1>4, <1>5, <1>6 DEF AllocationsInv

\* countedPacketConn.Close of the inner wrapper
LEMMA CloseReleasesStep ==
  ASSUME AllocationsInv, NEW a \in Allocations, NEW c \in Closers, CloseReleases(a, c) PROVE AllocationsInv'
PROOF
  <1>1. ClosesOn(a, c, 2)
    BY DEF CloseReleases, ClosesOn, AllocationsInv, AllocationsTyped, BoundFirst
  <1>2. /\ FirstClose(a, 2) => a \in LiveHolders /\ LiveHolders' = LiveHolders \ {a}
        /\ ~FirstClose(a, 2) => LiveHolders' = LiveHolders
        /\ WorkHolders' = WorkHolders /\ Admitted' \subseteq Admitted /\ BoundFirst'
    BY <1>1, HoldersClose, 2 \in 1..3
  <1>3. LiveCounted'
    <2>1. CASE FirstClose(a, 2)
      <3>1. PICK S : S = LiveHolders
        OBVIOUS
      <3>2. PICK T : T = LiveHolders'
        OBVIOUS
      <3>3. IsFiniteSet(T) /\ Cardinality(T) = Cardinality(S) - 1
        BY <2>1, <1>2, <3>1, <3>2, CountOneLess DEF AllocationsInv, LiveCounted
      <3>4. live' = live - 1
        BY <2>1 DEF CloseReleases
      <3> QED
        BY <3>1, <3>2, <3>3, <3>4 DEF AllocationsInv, LiveCounted
    <2>2. CASE ~FirstClose(a, 2)
      BY <2>2, <1>2 DEF CloseReleases, AllocationsInv, LiveCounted
    <2> QED
      BY <2>1, <2>2
  <1>4. WorkCounted' /\ Capped'
    BY <1>2, CappedStays DEF CloseReleases, AllocationsInv, WorkCounted
  <1>5. AllocationsTyped'
    BY <1>1 DEF ClosesOn, CloseReleases, AllocationsInv, AllocationsTyped
  <1>6. BudgetKept'
    BY BudgetStays DEF BudgetAlone, CloseReleases
  <1> QED
    BY <1>2, <1>3, <1>4, <1>5, <1>6 DEF AllocationsInv

\* The socket itself is closed.
LEMMA SocketClosesStep ==
  ASSUME AllocationsInv, NEW a \in Allocations, NEW c \in Closers, SocketCloses(a, c) PROVE AllocationsInv'
PROOF
  <1>1. ClosesOn(a, c, 3)
    BY DEF SocketCloses, ClosesOn, AllocationsInv, AllocationsTyped, BoundFirst
  <1>2. WorkHolders' = WorkHolders /\ LiveHolders' = LiveHolders /\ Admitted' \subseteq Admitted /\ BoundFirst'
    BY <1>1, HoldersClose, 3 \in 1..3
  <1>3. WorkCounted' /\ LiveCounted' /\ Capped'
    BY <1>2, CappedStays DEF SocketCloses, AllocationsInv, WorkCounted, LiveCounted
  <1>4. AllocationsTyped'
    BY <1>1 DEF ClosesOn, SocketCloses, AllocationsInv, AllocationsTyped
  <1>5. BudgetKept'
    BY BudgetStays DEF BudgetAlone, SocketCloses
  <1> QED
    BY <1>2, <1>3, <1>4, <1>5 DEF AllocationsInv

\* Every step of an Allocate request, of a Close and of the node preserves
\* AllocationsInv.
LEMMA AllocationsStep == AllocationsInv /\ [AllocationsNext]_alVars => AllocationsInv'
PROOF
  <1> SUFFICES ASSUME AllocationsInv, [AllocationsNext]_alVars PROVE AllocationsInv'
    OBVIOUS
  <1>1. ASSUME demand' = demand, closing' = closing, work' = work, live' = live, bucket' = bucket,
               granted' = granted, time' \in Nat, time' >= time
        PROVE  AllocationsInv'
    <2>1. AllocationsTyped'
      BY <1>1 DEF AllocationsInv, AllocationsTyped
    <2>2. WorkHolders' = WorkHolders /\ LiveHolders' = LiveHolders /\ Admitted' = Admitted
      BY <1>1 DEF WorkHolders, LiveHolders, Admitted, HoldsWork, HoldsLive, LetThrough, FirstClose
    <2>3. WorkCounted' /\ LiveCounted' /\ Capped' /\ BoundFirst'
      BY <1>1, <2>2 DEF AllocationsInv, WorkCounted, LiveCounted, Capped, BoundFirst
    <2>4. BudgetKept'
      BY <1>1 DEF AllocationsInv, AllocationsTyped, BudgetKept
    <2> QED
      BY <2>1, <2>3, <2>4 DEF AllocationsInv
  <1>2. CASE AllocationTick
    BY <1>1, <1>2 DEF AllocationTick, AllocationsInv, AllocationsTyped
  <1>3. CASE ShutGate
    BY <1>1, <1>3 DEF ShutGate, AllocationsInv, AllocationsTyped
  <1>4. CASE UNCHANGED alVars
    BY <1>1, <1>4 DEF alVars, AllocationsInv, AllocationsTyped
  <1> QED
    BY <1>2, <1>3, <1>4, EntersStep, ClockStep, DecidesStep, CountsStep, FailsStep, BoundStep, LeavesStep,
       CloseLeavesStep, CloseReleasesStep, SocketClosesStep DEF AllocationsNext

\* AllocationsInv says what AllocationsSound promises of a relay node.
LEMMA AllocationsInvSound == AllocationsInv => AllocationsSound
PROOF
  <1> SUFFICES ASSUME AllocationsInv PROVE AllocationsSound
    OBVIOUS
  <1>1. InUse \subseteq Admitted
    <2> SUFFICES ASSUME NEW a \in Allocations, demand[a].at = "bound", FirstClose(a, 1) PROVE FirstClose(a, 2)
      BY DEF InUse, Admitted, LetThrough
    <2> QED
      BY DEF FirstClose, AllocationsInv, AllocationsTyped
  <1>2. Cardinality(InUse) <= MaxAllocations
    BY <1>1, AdmittedFinite, AdmittedFewer DEF AllocationsInv, Capped
  <1>3. /\ work \in Nat /\ live \in Nat
        /\ work = 0 <=> WorkHolders = {}
        /\ live = 0 <=> LiveHolders = {}
    BY FS_CardinalityType, FS_EmptySet DEF AllocationsInv, WorkCounted, LiveCounted
  <1>4. InUse \union UnderWay \subseteq WorkHolders
    <2>1. InUse \subseteq WorkHolders
      BY DEF InUse, WorkHolders, HoldsWork
    <2>2. ASSUME NEW a \in UnderWay PROVE a \in WorkHolders
      <3>1. a \in Allocations /\ demand[a].at \notin {"new", "bound", "done"}
        BY DEF UnderWay
      <3> QED
        BY <3>1, NotClosed DEF WorkHolders, HoldsWork
    <2> QED
      BY <2>1, <2>2
  <1>5. ASSUME \A a \in Allocations : \/ demand[a].at \in {"new", "done"}
                                      \/ demand[a].at = "bound" /\ \E c \in Closers : closing[a][c] = 3
        PROVE  WorkHolders = {} /\ LiveHolders = {}
    <2> SUFFICES ASSUME NEW a \in Allocations PROVE ~HoldsWork(a) /\ ~HoldsLive(a)
      BY DEF WorkHolders, LiveHolders
    <2>1. CASE demand[a].at \in {"new", "done"}
      BY <2>1 DEF HoldsWork, HoldsLive
    <2>2. CASE \E c \in Closers : closing[a][c] = 3
      BY <2>2 DEF HoldsWork, HoldsLive, FirstClose
    <2> QED
      BY <1>5, <2>1, <2>2
  <1>6. granted <= Burst + Rate * time
    <2>1. Burst \in Nat /\ Rate \in Nat
      BY AllocationsAssumption
    <2>2. PICK last \in Nat, tokens \in Nat : last = bucket.last /\ tokens = bucket.tokens
      BY DEF AllocationsInv, AllocationsTyped
    <2>3. granted + tokens <= Burst + Rate * last /\ last <= time /\ time \in Nat /\ granted \in Nat
      BY <2>2 DEF AllocationsInv, AllocationsTyped, BudgetKept
    <2>4. PICK more \in Nat : time = last + more
      <3>1. time - last \in Nat /\ time = last + (time - last)
        BY <2>3
      <3> QED
        BY <3>1
    <2>5. Rate * time = Rate * last + Rate * more /\ Rate * more \in Nat
      BY <2>1, <2>4
    <2>6. Rate * last \in Nat /\ Rate * time \in Nat
      BY <2>1, <2>3
    <2> QED
      BY <2>1, <2>3, <2>5, <2>6
  <1> QED
    BY <1>2, <1>3, <1>4, <1>5, <1>6 DEF AllocationsSound

\* allocation_request.go and playercap.go, for any number of requests and Closes,
\* any cap and any budget: AllocationsSound holds of every state of the node.
THEOREM AllocationsHold == AllocationsSpec => []AllocationsSound
PROOF
  BY AllocationsInitial, AllocationsStep, AllocationsInvSound, PTL DEF AllocationsSpec

\* RelayAccountsSound for every number of requests, sockets, Closes, months and
\* allowances: what the relay node and relaymeter count is what they carry.
THEOREM RelayAccountsHold == AccountsSpec => []RelayAccountsSound
PROOF
  BY AllocationsHold, MeterHolds, PTL DEF AccountsSpec, RelayAccountsSound
=============================================================================
