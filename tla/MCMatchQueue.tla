----------------------------- MODULE MCMatchQueue -----------------------------
(* A party of two and a player who queues alone.  Two workers make up to     *)
(* three claims, so that a claim is swept while its worker still holds it    *)
(* and the same tickets are claimed again by the other one.                  *)
EXTENDS MatchQueue, TLC

CONSTANTS ta, tb, tc, party, solo1, w1, w2

MCTickets == {ta, tb, tc}
MCEntries == {party, solo1}
MCParties == {party}
MCEntryOf == (ta :> party) @@ (tb :> party) @@ (tc :> solo1)
MCPlayerOf == (ta :> "a") @@ (tb :> "b") @@ (tc :> "c")
MCWorkers == {w1, w2}

Symmetry == Permutations({ta, tb}) \union Permutations({w1, w2})
=============================================================================
