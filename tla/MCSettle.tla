------------------------------- MODULE MCSettle -------------------------------
(***************************************************************************)
(* What the matchmaker leaves behind is cleared away in the end: entries   *)
(* of the queue, and the servers and rows of dedicated-server matches.     *)
(* Each is explored by itself: the first state chooses one, and only that  *)
(* one moves.                                                              *)
(*                                                                         *)
(* Queue: a party of two, and a player who queues alone twice.  Matches:   *)
(* one pass is followed; passes share nothing but the cap and the          *)
(* retention job, which takes them one by one, so of the other pass there  *)
(* is what the first may meet, a match it committed before its process     *)
(* died.                                                                   *)
(***************************************************************************)
EXTENDS MCFleetMatch

CONSTANTS
  Tickets, Entries, EntryOf, PlayerOf, Workers, Batch, MaxAttempts, MaxClaims, MaxMatches,
  ta, tb, tc, td, party, solo1, solo2

VARIABLES
  status, claim, attempts, matchOf, entry, ranOut, lapsed, minted, roster, worker, focus

MCTickets == {ta, tb, tc, td}
MCEntries == {party, solo1, solo2}
MCEntryOf == ta :> party @@ tb :> party @@ tc :> solo1 @@ td :> solo2
MCPlayerOf == ta :> "a" @@ tb :> "b" @@ tc :> "c" @@ td :> "c"

Queue == INSTANCE MatchQueue WITH Parties <- {party}, expired <- ranOut, claims <- minted

queueVars == <<status, claim, attempts, matchOf, entry, ranOut, lapsed, minted, roster, worker>>

MCInit ==
  /\ \/ focus = "match" /\ OtherCommitted
     \/ focus = "queue" /\ Init
  /\ Queue!Init

MCNext ==
  /\ UNCHANGED focus
  /\ focus # "match" => UNCHANGED vars
  /\ focus # "queue" => UNCHANGED queueVars
  /\ \/ focus = "match" /\ Next
     \/ focus = "queue" /\ Queue!Next

MCVars == <<vars, queueVars, focus>>

\* FleetMatch's Fairness where the matches are what moves.
Chosen(A) == focus = "match" /\ A

MatchFairness ==
  /\ \A m \in Matches : /\ WF_vars(Chosen(Worker(m))) /\ WF_vars(Chosen(LateCall(m)))
                        /\ WF_vars(Chosen(Expire(m))) /\ WF_vars(Chosen(Age(m)))
  /\ WF_vars(Chosen(GC))
  /\ <>[][~JobFails]_vars

MCFairSpec ==
  /\ MCInit /\ [][MCNext]_MCVars
  /\ MatchFairness /\ Queue!QueueFairness

\* QueueSettles: what MatchQueue promises of the entries.
QueueSettles == Queue!QueueSettles
=============================================================================
