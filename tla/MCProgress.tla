------------------------------ MODULE MCProgress ------------------------------
(***************************************************************************)
(* What must happen in the end in one process and in its parties: a        *)
(* SIGTERM ends, a formable group is claimed, lost members leave.  The     *)
(* gate and the sockets of the shutdown and the wakeups of the pool are    *)
(* checked with them.  Each is explored by itself: the first state chooses *)
(* one, and only that one moves.  In the state in which the others stand   *)
(* still nothing that their fairness speaks of can happen, so the fairness *)
(* of all three may be assumed together.                                   *)
(***************************************************************************)
EXTENDS Lifecycle, ConsumerPool, Party, TLC

CONSTANTS ann, bea, duel

VARIABLE focus

\* Two friends, who may also queue alone, and one party of theirs.
Two == {ann, bea}
AllFriends == {f \in Two \X Two : f[1] # f[2]}
DuelSize == duel :> 2

MCInit ==
  /\ focus \in {"shutdown", "pool", "party"}
  /\ LifecycleInit /\ PoolInit /\ Init

MCNext ==
  /\ UNCHANGED focus
  /\ focus # "shutdown" => UNCHANGED lcVars
  /\ focus # "pool" => UNCHANGED poolVars
  /\ focus # "party" => UNCHANGED vars
  /\ \/ focus = "shutdown" /\ LifecycleNext
     \/ focus = "pool" /\ PoolNext
     \/ focus = "party" /\ Next

MCVars == <<lcVars, poolVars, vars, focus>>

MCSpec == MCInit /\ [][MCNext]_MCVars

MCFairSpec ==
  MCSpec /\ MainFairness /\ HandlerFairness /\ PoolFairness /\ PartyFairness
=============================================================================
