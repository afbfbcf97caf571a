---- MODULE MCFleetMatch ----
(***************************************************************************)
(* Instances of FleetMatch.  In the safety instance two passes share a     *)
(* player whose cap is one, so the commit of one pass decides whether the  *)
(* other may commit.  MCSettle follows one pass to its end: passes share   *)
(* nothing but the cap and the retention job, which takes them one by one, *)
(* so of the other pass it has what the first may meet: a match that it    *)
(* committed before its process died.                                      *)
(***************************************************************************)
EXTENDS FleetMatch, TLC

CONSTANTS m1, m2, p1

BothOfOnePlayer == [m \in Matches |-> {p1}]

Passes == Permutations(Matches)

\* m2 was committed, with the server of the first attempt, and nobody has
\* collected it yet; m1 is to begin.
OtherCommitted ==
  /\ pc = (m1 :> "idle" @@ m2 :> "dead")
  /\ tickets = (m1 :> "claimed" @@ m2 :> "matched")
  /\ attempt = [m \in Matches |-> 1]
  /\ late = [m \in Matches |-> FALSE]
  /\ running = (m1 :> {} @@ m2 :> {1})
  /\ alloc = (m1 :> "none" @@ m2 :> "ready")
  /\ ref = (m1 :> NoRef @@ m2 :> 1)
  /\ resolution = (m1 :> "none" @@ m2 :> "gone")
  /\ row = (m1 :> "none" @@ m2 :> "unclaimed")
  /\ handed = {} /\ served = {}
  /\ expired = [m \in Matches |-> FALSE]
  /\ aged = [m \in Matches |-> FALSE]
  /\ dealloc = [c \in Callers |-> [m \in Matches |-> "no"]]
  /\ gc = "idle" /\ doomed = {} /\ stale = {}
=============================
