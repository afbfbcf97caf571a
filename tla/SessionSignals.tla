---------------------------- MODULE SessionSignals ----------------------------
(***************************************************************************)
(* The negotiation signals that members of a game session leave for one of *)
(* them: httpapi/game_session_signal.go.  A send is one transaction at     *)
(* READ COMMITTED: now() is when it began, the id comes from the sequence  *)
(* when the row is inserted, and others see the row once it is committed.  *)
(* The recipient polls with the highest id it was given.                   *)
(*                                                                         *)
(* All senders and the recipient are active members of a live session; a   *)
(* request of anybody else is refused and changes nothing.                 *)
(***************************************************************************)
EXTENDS Integers, FiniteSets, FiniteSetsExt

CONSTANTS
  Senders,
  Sends,          \* requests to send
  MaxPerMinute,   \* maxSignalsPerMinute
  Minute,         \* in ticks
  Expiry,         \* how long a signal is kept, in ticks
  RequestTime,    \* HTTPRequestTimeout, in ticks
  Page,           \* LIMIT of a poll
  LastSecond      \* bound on the clock

ASSUME SignalsAssumption ==
  /\ {MaxPerMinute, Minute, Expiry, RequestTime, Page, LastSecond} \subseteq Nat \ {0}
  /\ Minute + RequestTime <= Expiry

VARIABLES
  second,   \* the clock
  lastId,   \* the sequence
  send,     \* each request: its sender, when it began, where it is, the id it took
  signals,  \* the rows that were committed
  dropped,  \* the ids of those that were deleted again
  cursor,   \* the recipient's after_id
  given     \* the ids the recipient was given

sgVars == <<second, lastId, send, signals, dropped, cursor, given>>

NoSend == [at |-> "idle", from |-> CHOOSE p \in Senders : TRUE, began |-> 0, id |-> 0]

SignalsTypeOK ==
  /\ second \in 0..LastSecond /\ lastId \in 0..Cardinality(Sends)
  /\ send \in [Sends -> [at : {"idle", "waits", "inserted", "done"}, from : Senders,
                         began : 0..LastSecond, id : 0..lastId]]
  /\ signals \subseteq [id : 1..lastId, from : Senders, created : 0..LastSecond]
  /\ dropped \subseteq {x.id : x \in signals} /\ given \subseteq {x.id : x \in signals}
  /\ cursor \in 0..lastId

SignalsInit ==
  /\ second = 0 /\ lastId = 0 /\ cursor = 0
  /\ send = [r \in Sends |-> NoSend]
  /\ signals = {} /\ dropped = {} /\ given = {}

Expired(x) == x.created + Expiry <= second

-----------------------------------------------------------------------------
(* gameSessionSignalSend *)

BeginSend(r, p) ==
  /\ send[r].at = "idle"
  /\ send' = [send EXCEPT ![r] = [at |-> "waits", from |-> p, began |-> second, id |-> 0]]
  /\ UNCHANGED <<second, lastId, signals, dropped, cursor, given>>

\* A request that is over.
Over == [at |-> "done", from |-> NoSend.from, began |-> 0, id |-> 0]

\* LockSignalRate is not called.
RateUnlocked(r) == TRUE

\* LockSignalRate: a sender's sends, one after another, until their commit.
RateLockFree(r) == \A q \in Sends : send[q].at = "inserted" => send[q].from # send[r].from

\* CountRecentGameSessionSignals: by now(), which is when this send began.
Recent(r) == {x \in signals : /\ x.id \notin dropped /\ x.from = send[r].from
                              /\ x.created > send[r].began - Minute}

InsertSignal(r) ==
  /\ send[r].at = "waits" /\ RateLockFree(r)
  /\ IF Cardinality(Recent(r)) >= MaxPerMinute
     THEN /\ send' = [send EXCEPT ![r] = Over]
          /\ UNCHANGED lastId
     ELSE /\ lastId' = lastId + 1
          /\ send' = [send EXCEPT ![r] = [at |-> "inserted", from |-> send[r].from, began |-> send[r].began,
                                          id |-> lastId + 1]]
  /\ UNCHANGED <<second, signals, dropped, cursor, given>>

\* The commit; or an error, or the deadline of the request.
EndSend(r, commits) ==
  /\ send[r].at = "inserted" \/ (send[r].at = "waits" /\ ~commits)
  /\ signals' = IF ~commits THEN signals
                ELSE signals \cup {[id |-> send[r].id, from |-> send[r].from,
                                    created |-> send[r].began]}
  /\ send' = [send EXCEPT ![r] = Over]
  /\ UNCHANGED <<second, lastId, dropped, cursor, given>>

-----------------------------------------------------------------------------
(* gameSessionSignalPoll, and the sweep of expired signals *)

Unseen == {x.id : x \in {y \in signals : y.id \notin dropped /\ y.id > cursor /\ ~Expired(y)}}

\* The lowest ids of those above the cursor, at most a page of them.
Poll ==
  LET page == {i \in Unseen : Cardinality({j \in Unseen : j < i}) < Page} IN
  /\ page # {}
  /\ given' = given \cup page
  /\ cursor' = Max(page)
  /\ UNCHANGED <<second, lastId, send, signals, dropped>>

DropExpired ==
  /\ \E x \in signals : x.id \notin dropped /\ Expired(x)
  /\ dropped' = dropped \cup {x.id : x \in {y \in signals : Expired(y)}}
  /\ UNCHANGED <<second, lastId, send, signals, cursor, given>>

SecondPasses ==
  /\ second < LastSecond
  /\ \A r \in Sends : send[r].at \in {"waits", "inserted"} => second - send[r].began < RequestTime
  /\ second' = second + 1
  /\ UNCHANGED <<lastId, send, signals, dropped, cursor, given>>

SignalsNext ==
  \/ \E r \in Sends : \/ \E p \in Senders : BeginSend(r, p)
                      \/ \E b \in BOOLEAN : EndSend(r, b)
                      \/ InsertSignal(r)
  \/ Poll \/ DropExpired \/ SecondPasses

SignalsSpec == SignalsInit /\ [][SignalsNext]_sgVars

-----------------------------------------------------------------------------

\* However its requests overlap, a sender has at most MaxPerMinute signals of
\* any one minute.
RateHeld ==
  \A p \in Senders, t \in 0..LastSecond :
    Cardinality({x \in signals : x.from = p /\ x.created \in (t - Minute + 1)..t}) <= MaxPerMinute

\* The signals of one sender become visible in the order of their ids.
OwnInOrder ==
  \A r \in Sends, x \in signals :
    send[r].at = "inserted" /\ x.from = send[r].from => x.id < send[r].id

\* So what the cursor passed over without its recipient being given it had
\* expired, or was overtaken by another sender's signal.
SkippedForCause ==
  \A x \in signals :
    x.id <= cursor /\ x.id \notin given
      => \/ Expired(x)
         \/ \E y \in signals : y.id \in given /\ y.id > x.id /\ y.from # x.from

\* SignalsSound: the rate of game_session_signal.go holds under concurrent
\* sends, and a poll never loses a signal to a later one of the same sender.
SignalsSound == RateHeld /\ OwnInOrder /\ SkippedForCause
=============================================================================
