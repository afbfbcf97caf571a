------------------------------ MODULE MCServices ------------------------------
(***************************************************************************)
(* The services that keep rows, or a process, of their own, each explored  *)
(* by itself: the first state chooses one, and only that one moves.  No    *)
(* statement of one reads the state of another, the purge of a player      *)
(* aside, which PlayerStorage and PlayerRegistry each model, so what holds *)
(* of each holds of them together.                                         *)
(***************************************************************************)
EXTENDS GameSession, Leaderboard, PlayerStorage, PlayerRegistry, PlayerSlots, SocketSweep,
        ManualServers, SessionSignals, Entitlements, PartyCodes, TLC

VARIABLE focus

MCLengths == "daily" :> 2 @@ "weekly" :> 4
MCOwnerOf == "save" :> "ann" @@ "world" :> "bob"
MCCallerOf == "s1" :> "ann" @@ "s2" :> "bob"
MCHomeOf == "ann" :> "acme" @@ "bob" :> "bolt"

MCInit ==
  /\ focus \in {"session", "board", "storage", "registry", "slots", "sweep", "manual", "signals",
               "billing", "grants", "attempts"}
  /\ SessionInit /\ BoardInit /\ StorageInit /\ RegistryInit /\ SlotsInit /\ SweepInit
  /\ ManualInit /\ SignalsInit /\ EntitlementsInit /\ AttemptsInit
  /\ focus # "board" => board.order = "asc" /\ board.schedule = NoSchedule

MCNext ==
  /\ UNCHANGED focus
  /\ focus # "session" => UNCHANGED gsVars
  /\ focus # "board" => UNCHANGED lbVars
  /\ focus # "storage" => UNCHANGED psVars
  /\ focus # "registry" => UNCHANGED prVars
  /\ focus # "slots" => UNCHANGED pcVars
  /\ focus # "sweep" => UNCHANGED swVars
  /\ focus # "manual" => UNCHANGED msVars
  /\ focus # "signals" => UNCHANGED sgVars
  /\ focus \notin {"billing", "grants"} => UNCHANGED enVars
  /\ focus # "attempts" => UNCHANGED caVars
  /\ \/ focus = "session" /\ SessionNext
     \/ focus = "board" /\ BoardNext
     \/ focus = "storage" /\ StorageNext
     \/ focus = "registry" /\ RegistryNext
     \/ focus = "slots" /\ SlotsNext
     \/ focus = "sweep" /\ SweepNext
     \/ focus = "manual" /\ ManualNext
     \/ focus = "signals" /\ SignalsNext
     \/ focus = "billing" /\ (BillingNext \/ PanelNext)
     \/ focus = "grants" /\ (PanelNext \/ ChecksNext)
     \/ focus = "attempts" /\ AttemptsNext

MCVars == <<gsVars, lbVars, psVars, prVars, pcVars, swVars, msVars, sgVars, enVars, caVars, focus>>

MCSpec == MCInit /\ [][MCNext]_MCVars
=============================================================================
