---------------------------- MODULE RealtimeRelay ----------------------------
(***************************************************************************)
(* Delivery of relayed messages to one player's socket on one host:        *)
(* realtime/hub.go and relay.go with the registration of server.go.  The   *)
(* other hosts appear by the NOTIFYs they send, and a frame is its number  *)
(* in the order of the NOTIFYs.                                            *)
(*                                                                         *)
(* The hub's mutex makes each of its critical sections one step.  A socket *)
(* is closed by a newer one or by its client; its handler unregisters it   *)
(* in a later step.  The drainer writes without the mutex: what it looked  *)
(* up may be gone when it writes.                                          *)
(***************************************************************************)
EXTENDS Naturals, Sequences, FiniteSets

CONSTANTS
  Sockets,      \* connections the player makes
  QueueSize,    \* relayQueueSize
  MaxFrames     \* bound: frames 1..MaxFrames

ASSUME RelayAssumption == QueueSize \in Nat \ {0} /\ MaxFrames \in Nat

VARIABLES
  socket,     \* each connection: not made, open, closed, or its handler returned
  writer,     \* Hub.writers
  newest,     \* history: the last socket to register
  listening,  \* ListenChannel is up
  inbox,      \* NOTIFYs the listener has not read
  incoming,   \* the frame deliverRelayed holds between its two critical sections
  queue,      \* the channel of Hub.queues
  mapped,     \* Hub.queues has it
  drainer,    \* the goroutine drainRelayed
  stopping,   \* the context is done
  sent,       \* frames so far
  written     \* history: relayed frames written to open sockets

rlVars == <<socket, writer, newest, listening, inbox, incoming, queue, mapped, drainer,
            stopping, sent, written>>

hubVars == <<socket, writer, newest>>
queueVars == <<queue, mapped, drainer>>
listenVars == <<listening, inbox, incoming, sent>>

NoSocket == "no socket"
NoFrame == 0
Waiting == [at |-> "select"]
Expired == [at |-> "idle"]
Gone == [at |-> "gone"]
Writing(f, s) == [at |-> "write", frame |-> f, socket |-> s]

RelayTypeOK ==
  /\ socket \in [Sockets -> {"new", "open", "closed", "done"}]
  /\ {writer, newest} \subseteq Sockets \union {NoSocket}
  /\ inbox \in Seq(1..MaxFrames) /\ incoming \in 0..MaxFrames
  /\ queue \in Seq(1..MaxFrames) /\ Len(queue) <= QueueSize
  /\ drainer \in {Waiting, Expired, Gone} \union {Writing(f, s) : f \in 1..MaxFrames, s \in Sockets}
  /\ {listening, mapped, stopping} \subseteq BOOLEAN
  /\ sent \in 0..MaxFrames

RelayInit ==
  /\ socket = [s \in Sockets |-> "new"]
  /\ writer = NoSocket /\ newest = NoSocket
  /\ listening = TRUE /\ inbox = << >> /\ incoming = NoFrame
  /\ queue = << >> /\ mapped = FALSE /\ drainer = Gone
  /\ stopping = FALSE
  /\ sent = 0 /\ written = << >>

-----------------------------------------------------------------------------
(* Sockets *)

\* Register: newer wins.
Register(s) ==
  /\ socket[s] = "new"
  /\ socket' = [t \in Sockets |-> IF t = s THEN "open"
                                 ELSE IF t = writer /\ socket[t] = "open" THEN "closed"
                                 ELSE socket[t]]
  /\ writer' = s /\ newest' = s
  /\ UNCHANGED <<listenVars, queueVars, stopping, written>>

Disconnect(s) ==
  /\ socket[s] = "open"
  /\ socket' = [socket EXCEPT ![s] = "closed"]
  /\ UNCHANGED <<writer, newest, listenVars, queueVars, stopping, written>>

\* A slot cleared whoever holds it.
Vacated(s) == NoSocket

\* The func Register returns removes this registration only.
Removed(s) == IF writer = s THEN NoSocket ELSE writer

Unregister(s) ==
  /\ socket[s] = "closed"
  /\ socket' = [socket EXCEPT ![s] = "done"]
  /\ writer' = Removed(s)
  /\ UNCHANGED <<newest, listenVars, queueVars, stopping, written>>

-----------------------------------------------------------------------------
(* The listener *)

\* relayTo on any host, this one included when it has no socket.
Notify ==
  /\ sent < MaxFrames
  /\ sent' = sent + 1
  /\ inbox' = IF listening THEN Append(inbox, sent + 1) ELSE inbox
  /\ UNCHANGED <<hubVars, listening, incoming, queueVars, stopping, written>>

\* deliverRelayed: the player has a socket here, or the frame is dropped.
DeliverRelayed ==
  /\ inbox # << >> /\ incoming = NoFrame
  /\ inbox' = Tail(inbox)
  /\ incoming' = IF writer = NoSocket THEN NoFrame ELSE Head(inbox)
  /\ UNCHANGED <<hubVars, listening, sent, queueVars, stopping, written>>

\* enqueueRelayed, for a new queue: its goroutine starts.
EnqueueNew ==
  /\ incoming # NoFrame /\ ~mapped
  /\ queue' = <<incoming>> /\ mapped' = TRUE /\ drainer' = Waiting
  /\ incoming' = NoFrame
  /\ UNCHANGED <<hubVars, listening, inbox, sent, stopping, written>>

\* For one that exists: dropped when it is full.
EnqueueMore ==
  /\ incoming # NoFrame /\ mapped
  /\ queue' = IF Len(queue) < QueueSize THEN Append(queue, incoming) ELSE queue
  /\ incoming' = NoFrame
  /\ UNCHANGED <<hubVars, listening, inbox, sent, mapped, drainer, stopping, written>>

\* RunRelay: what is sent while the listener reconnects is lost.
ListenerLost ==
  /\ listening /\ incoming = NoFrame
  /\ listening' = FALSE /\ inbox' = << >>
  /\ UNCHANGED <<hubVars, incoming, sent, queueVars, stopping, written>>

ListenerBack ==
  /\ ~listening /\ ~stopping
  /\ listening' = TRUE
  /\ UNCHANGED <<hubVars, inbox, incoming, sent, queueVars, stopping, written>>

-----------------------------------------------------------------------------
(* drainRelayed *)

\* A frame is there: look the writer up, or go on without one.
DrainTake ==
  /\ drainer = Waiting /\ queue # << >>
  /\ queue' = Tail(queue)
  /\ drainer' = IF writer = NoSocket THEN Waiting ELSE Writing(Head(queue), writer)
  /\ UNCHANGED <<hubVars, listenVars, mapped, stopping, written>>

\* A failed write is tried again, after the rest.
DrainWriteRetried ==
  /\ drainer.at = "write"
  /\ drainer' = Waiting
  /\ \/ socket[drainer.socket] = "open" /\ written' = Append(written, drainer.frame) /\ UNCHANGED queue
     \/ Len(queue) < QueueSize /\ queue' = Append(queue, drainer.frame) /\ UNCHANGED written
  /\ UNCHANGED <<hubVars, listenVars, mapped, stopping>>

\* The write, of a socket that may have been closed.
DrainWrite ==
  /\ drainer.at = "write"
  /\ drainer' = Waiting
  /\ \/ socket[drainer.socket] = "open" /\ written' = Append(written, drainer.frame)
     \/ UNCHANGED written
  /\ UNCHANGED <<hubVars, listenVars, queue, mapped, stopping>>

\* Nothing came for relayQueueIdle; a frame may come before the mutex is held.
DrainIdle ==
  /\ drainer = Waiting
  /\ drainer' = Expired
  /\ UNCHANGED <<hubVars, listenVars, queue, mapped, stopping, written>>

\* Leaving without a look at the queue.
MayLeaveAlways == TRUE

\* len(q), under the mutex.
MayLeave == queue = << >>

DrainExit ==
  /\ drainer = Expired
  /\ IF MayLeave THEN mapped' = FALSE /\ drainer' = Gone
                 ELSE drainer' = Waiting /\ UNCHANGED mapped
  /\ UNCHANGED <<hubVars, listenVars, queue, stopping, written>>

-----------------------------------------------------------------------------
(* Shutdown *)

Stop ==
  /\ ~stopping
  /\ stopping' = TRUE
  /\ UNCHANGED <<hubVars, listenVars, queueVars, written>>

\* The goroutine returns and leaves its queue.
DrainStops ==
  /\ stopping /\ drainer = Waiting
  /\ drainer' = Gone
  /\ UNCHANGED <<hubVars, listenVars, queue, mapped, stopping, written>>

RelayNext ==
  \/ \E s \in Sockets : Register(s) \/ Disconnect(s) \/ Unregister(s)
  \/ Notify \/ DeliverRelayed \/ EnqueueNew \/ EnqueueMore
  \/ ListenerLost \/ ListenerBack
  \/ DrainTake \/ DrainWrite \/ DrainIdle \/ DrainExit
  \/ Stop \/ DrainStops

RelaySpec == RelayInit /\ [][RelayNext]_rlVars

-----------------------------------------------------------------------------
(* What the relay promises. *)

\* QueueHasDrainer: no frame is left in a queue without a goroutine, whatever
\* frame arrives while the goroutine gives up, until the process stops.
QueueHasDrainer == ~stopping /\ queue # << >> => mapped /\ drainer # Gone

\* RelayedInOrder: relayed frames reach the player's sockets in the order they
\* were relayed and none twice, across new sockets, goroutines and listeners.
RelayedInOrder ==
  \A i, j \in 1..Len(written) : i < j => written[i] < written[j]

\* NewestStays: messages go to the newest socket until that one is
\* unregistered: the late end of an older one does not evict it.
NewestStays ==
  newest # NoSocket /\ socket[newest] # "done" => writer = newest

\* RelaySound: whoever leaves late, a frame that waits has somebody to write it,
\* the newest socket is the one written to, and frames keep their order.
RelaySound == QueueHasDrainer /\ NewestStays /\ RelayedInOrder
=============================================================================
