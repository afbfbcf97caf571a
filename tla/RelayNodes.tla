------------------------------ MODULE RelayNodes ------------------------------
(***************************************************************************)
(* The registry of TURN relay nodes and what credentials advertise of it:  *)
(* internal/relaynode and the probe job of jobs/relay_node_probe.go.  Any  *)
(* API server may run the probe, so results may be recorded out of order;  *)
(* requests read the eligible nodes concurrently and share a cache.        *)
(*                                                                         *)
(* Time is counted in ticks, and what is stamped in the code has its age   *)
(* here.  A probe, from the listing of its node to the record of its       *)
(* result, ends within ProbeInterval: that is the worker's Timeout.        *)
(***************************************************************************)
EXTENDS Naturals

CONSTANTS
  Nodes,             \* registrations
  RegionOf,          \* the region of each
  Embedded,          \* the relay of the API server itself, advertised last
  Probers,           \* probes that may be under way
  Readers,           \* credential requests that may be under way
  ProbeInterval,
  FreshnessWindow,
  CacheTTL,
  LongestRead        \* bound: ticks a read of the registry takes

ASSUME RelayNodesAssumption ==
  /\ Embedded \notin Nodes
  /\ {ProbeInterval, FreshnessWindow, CacheTTL, LongestRead} \subseteq Nat \ {0}

VARIABLES
  relay,     \* what each node really is: active, draining or down
  node,      \* its row of relay_nodes, with the age of its last probe
  probe,     \* probes under way
  reader,    \* reads of the eligible nodes under way
  cache,     \* Selector.cached, with its age
  advertised,  \* what the last step advertised, and how long ago it was asked for
  gone       \* history: ticks since each node was last known, and last active

rnVars == <<relay, node, probe, reader, cache, advertised, gone>>

Nothing == [nodes |-> {}, asked |-> 0]
Resting == [at |-> "none"]

\* Past this age nothing is told apart.
Longest == ProbeInterval + FreshnessWindow + CacheTTL + LongestRead + 1
Older(age, cap) == IF age < cap THEN age + 1 ELSE cap

RelayNodesTypeOK ==
  /\ relay \in [Nodes -> {"active", "draining", "down"}]
  /\ node \in [Nodes -> [state : {"none", "known", "retired"}, life : {"none", "active", "draining", "down"},
                         age : 0..FreshnessWindow]]
  /\ \A p \in Probers : probe[p].at \in {"none", "asked", "answered"}
  /\ \A r \in Readers : reader[r].at \in {"none", "reading", "read"}
  /\ cache.nodes \subseteq Nodes /\ cache.age \in 0..CacheTTL
  /\ advertised.nodes \subseteq Nodes \union {Embedded} /\ advertised.asked \in 0..LongestRead
  /\ gone \in [Nodes -> [known : 0..Longest, active : 0..Longest]]

\* An empty cache is one that is too old.
RelayNodesInit ==
  /\ relay = [n \in Nodes |-> "active"]
  /\ node = [n \in Nodes |-> [state |-> "none", life |-> "none", age |-> FreshnessWindow]]
  /\ probe = [p \in Probers |-> Resting]
  /\ reader = [r \in Readers |-> Resting]
  /\ cache = [nodes |-> {}, age |-> CacheTTL]
  /\ advertised = Nothing
  /\ gone = [n \in Nodes |-> [known |-> 0, active |-> 0]]

-----------------------------------------------------------------------------
(* Registration and the nodes themselves *)

\* Store.Create
Register(n) ==
  /\ node[n].state = "none"
  /\ node' = [node EXCEPT ![n].state = "known"]
  /\ gone' = [gone EXCEPT ![n].known = 0]
  /\ advertised' = Nothing
  /\ UNCHANGED <<relay, probe, reader, cache>>

\* Store.Retire
Retire(n) ==
  /\ node[n].state = "known"
  /\ node' = [node EXCEPT ![n].state = "retired"]
  /\ advertised' = Nothing
  /\ UNCHANGED <<relay, probe, reader, cache, gone>>

Turns(n, to) ==
  /\ relay[n] # to
  /\ relay' = [relay EXCEPT ![n] = to]
  /\ gone' = IF to = "active" THEN [gone EXCEPT ![n].active = 0] ELSE gone
  /\ advertised' = Nothing
  /\ UNCHANGED <<node, probe, reader, cache>>

\* The job's timeout ends a probe that would last longer.
RelayTick ==
  /\ \A p \in Probers : probe[p].at # "none" => probe[p].age < ProbeInterval
  /\ \A r \in Readers : reader[r].at # "none" => reader[r].age < LongestRead
  /\ node' = [n \in Nodes |-> [node[n] EXCEPT !.age = Older(node[n].age, FreshnessWindow)]]
  /\ probe' = [p \in Probers |-> IF probe[p] = Resting THEN Resting ELSE [probe[p] EXCEPT !.age = probe[p].age + 1]]
  /\ reader' = [r \in Readers |-> IF reader[r] = Resting THEN Resting
                                  ELSE [reader[r] EXCEPT !.age = reader[r].age + 1]]
  /\ cache' = [cache EXCEPT !.age = Older(cache.age, CacheTTL)]
  /\ gone' = [n \in Nodes |->
                [known |-> IF node[n].state = "known" THEN 0 ELSE Older(gone[n].known, Longest),
                 active |-> IF relay[n] = "active" THEN 0 ELSE Older(gone[n].active, Longest)]]
  /\ advertised' = Nothing
  /\ UNCHANGED relay

-----------------------------------------------------------------------------
(* Monitor.ProbeAll *)

\* ListKnownRelayNodes, and the request.
ProbeAsks(p, n) ==
  /\ probe[p] = Resting /\ node[n].state = "known"
  /\ probe' = [probe EXCEPT ![p] = [at |-> "asked", node |-> n, age |-> 0]]
  /\ advertised' = Nothing
  /\ UNCHANGED <<relay, node, reader, cache, gone>>

\* Prober.Probe: the node's answer, or any failure, which is a node down.
ProbeReads(p) ==
  /\ probe[p].at = "asked"
  /\ \E life \in {relay[probe[p].node], "down"} :
       probe' = [probe EXCEPT ![p] = [at |-> "answered", node |-> probe[p].node, age |-> probe[p].age,
                                      life |-> life]]
  /\ advertised' = Nothing
  /\ UNCHANGED <<relay, node, reader, cache, gone>>

\* Store.RecordProbe: stamped when it is recorded, and not for a retired node.
RecordProbe(p) ==
  LET n == probe[p].node IN
  /\ probe[p].at = "answered"
  /\ node' = IF node[n].state # "known" THEN node
             ELSE [node EXCEPT ![n] = [state |-> "known", life |-> probe[p].life, age |-> 0]]
  /\ probe' = [probe EXCEPT ![p] = Resting]
  /\ advertised' = Nothing
  /\ UNCHANGED <<relay, reader, cache, gone>>

\* The probe or its write fails.
ProbeFails(p) ==
  /\ probe[p] # Resting
  /\ probe' = [probe EXCEPT ![p] = Resting]
  /\ advertised' = Nothing
  /\ UNCHANGED <<relay, node, reader, cache, gone>>

-----------------------------------------------------------------------------
(* Selector.Select *)

\* Nodes last probed long ago count too.
EligibleAnyAge ==
  {n \in Nodes : node[n].state = "known" /\ node[n].life = "active"}

\* ListEligibleRelayNodes
EligibleNodes ==
  {n \in Nodes : node[n].state = "known" /\ node[n].life = "active" /\ node[n].age < FreshnessWindow}

\* The nodes of the region, or all of them and the embedded relay.
Candidates(nodes, region) ==
  LET near == {n \in nodes : RegionOf[n] = region} IN
  IF near # {} THEN near ELSE nodes \union {Embedded}

CacheFresh == cache.age < CacheTTL

SelectCached(region) ==
  /\ CacheFresh
  /\ advertised' = [nodes |-> Candidates(cache.nodes, region), asked |-> 0]
  /\ UNCHANGED <<relay, node, probe, reader, cache, gone>>

\* The clock is read before the registry is.
ReadStarts(r) ==
  /\ reader[r] = Resting /\ ~CacheFresh
  /\ reader' = [reader EXCEPT ![r] = [at |-> "reading", age |-> 0]]
  /\ advertised' = Nothing
  /\ UNCHANGED <<relay, node, probe, cache, gone>>

ReadEligible(r) ==
  /\ reader[r].at = "reading"
  /\ reader' = [reader EXCEPT ![r] = [at |-> "read", age |-> reader[r].age, nodes |-> EligibleNodes]]
  /\ advertised' = Nothing
  /\ UNCHANGED <<relay, node, probe, cache, gone>>

\* The cache is stamped with the time it is filled.
StampFilled(r) == 0

\* The cache is stamped with the time its read began.
Stamp(r) == IF reader[r].age < CacheTTL THEN reader[r].age ELSE CacheTTL

SelectRead(r, region) ==
  /\ reader[r].at = "read"
  /\ cache' = [nodes |-> reader[r].nodes, age |-> Stamp(r)]
  /\ advertised' = [nodes |-> Candidates(reader[r].nodes, region), asked |-> reader[r].age]
  /\ reader' = [reader EXCEPT ![r] = Resting]
  /\ UNCHANGED <<relay, node, probe, gone>>

\* The registry cannot be read: the embedded relay alone.
ReadFails(r) ==
  /\ reader[r].at = "reading"
  /\ reader' = [reader EXCEPT ![r] = Resting]
  /\ advertised' = [nodes |-> {Embedded}, asked |-> reader[r].age]
  /\ UNCHANGED <<relay, node, probe, cache, gone>>

Regions == {RegionOf[n] : n \in Nodes} \union {"elsewhere"}

RelayNodesNext ==
  \/ RelayTick
  \/ \E n \in Nodes : \/ Register(n) \/ Retire(n)
                      \/ \E to \in {"active", "draining", "down"} : Turns(n, to)
  \/ \E p \in Probers : \/ \E n \in Nodes : ProbeAsks(p, n)
                        \/ ProbeReads(p) \/ RecordProbe(p) \/ ProbeFails(p)
  \/ \E region \in Regions : SelectCached(region)
  \/ \E r \in Readers : \/ ReadStarts(r) \/ ReadEligible(r) \/ ReadFails(r)
                        \/ \E region \in Regions : SelectRead(r, region)

RelayNodesSpec == RelayNodesInit /\ [][RelayNodesNext]_rnVars

-----------------------------------------------------------------------------
(* What credentials advertise. *)

\* AdvertisedAreFresh: a node that credentials advertise was in service until
\* lately, however probes, retirements and slow reads overlap: at the time of
\* the request it was known within CacheTTL, and active within a probe, the
\* freshness window and CacheTTL.
AdvertisedAreFresh ==
  \A n \in advertised.nodes \ {Embedded} :
    /\ gone[n].known <= advertised.asked + CacheTTL
    /\ gone[n].active <= advertised.asked + ProbeInterval + FreshnessWindow + CacheTTL
=============================================================================
