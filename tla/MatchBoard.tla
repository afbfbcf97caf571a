----------------------------- MODULE MatchBoard -----------------------------
(***************************************************************************)
(* What a player may rely on: the matchmaker as a board of entries, each   *)
(* of which joins once, waits, and leaves the board once and as a whole:   *)
(* in a match with others, cancelled or failed.  There are no tickets,     *)
(* claims, leases, attempts or workers here.                               *)
(***************************************************************************)
CONSTANT Entries

VARIABLES
  outcome,   \* of each entry
  teams      \* the sets of entries matched together

vars == <<outcome, teams>>

Outcome == {"none", "queued", "matched", "cancelled", "failed"}

Waiting == {e \in Entries : outcome[e] = "queued"}

Init ==
  /\ outcome = [e \in Entries |-> "none"]
  /\ teams = {}

Become(E, o) == [e \in Entries |-> IF e \in E THEN o ELSE outcome[e]]

\* An entry joins; a waiting entry of its player that had run out fails with it.
Join(e) ==
  /\ outcome[e] = "none"
  /\ \E Stale \in SUBSET Waiting :
        outcome' = [Become(Stale, "failed") EXCEPT ![e] = "queued"]
  /\ UNCHANGED teams

Match(G) ==
  /\ teams' = teams \union {G}
  /\ outcome' = Become(G, "matched")

Drop(E, o) ==
  /\ outcome' = Become(E, o)
  /\ UNCHANGED teams

Next ==
  \/ \E o \in {"cancelled", "failed"}, E \in SUBSET Waiting : Drop(E, o)
  \/ \E e \in Entries : Join(e)
  \/ \E G \in (SUBSET Waiting) \ {{}} : Match(G)

Spec == Init /\ [][Next]_vars
=============================================================================
