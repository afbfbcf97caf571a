------------------------------- MODULE MCFleets -------------------------------
(***************************************************************************)
(* Servers and the room for connections: the fleet path of a match, the    *)
(* process of a fleet plugin, relay nodes with their allocations and their *)
(* meter, and the leased connection cap.  Each is explored by itself: the  *)
(* first state chooses one, and only that one moves.  No statement of one  *)
(* reads a row of another.                                                 *)
(***************************************************************************)
EXTENDS MCFleetMatch, ConnectionCap, PluginSupervisor, RelayNodes, RelayMeter

VARIABLE focus

MCCaps == {[sustained |-> 2, ceiling |-> 3]}
MCRegionOf == "n1" :> "here"

MCInit ==
  /\ focus \in {"match", "cap", "plugin", "nodes", "allocations", "meter"}
  /\ Init /\ CapInit /\ SupervisorInit /\ RelayNodesInit /\ AllocationsInit /\ MeterInit
  /\ focus # "meter" => allowance = 0

MCNext ==
  /\ UNCHANGED focus
  /\ focus # "match" => UNCHANGED vars
  /\ focus # "cap" => UNCHANGED capVars
  /\ focus # "plugin" => UNCHANGED svVars
  /\ focus # "nodes" => UNCHANGED rnVars
  /\ focus # "allocations" => UNCHANGED alVars
  /\ focus # "meter" => UNCHANGED rmVars
  /\ \/ focus = "match" /\ Next
     \/ focus = "cap" /\ CapNext
     \/ focus = "plugin" /\ SupervisorNext
     \/ focus = "nodes" /\ RelayNodesNext
     \/ focus = "allocations" /\ AllocationsNext
     \/ focus = "meter" /\ MeterNext

MCVars == <<vars, capVars, svVars, rnVars, alVars, rmVars, focus>>

MCSpec == MCInit /\ [][MCNext]_MCVars

=============================================================================
