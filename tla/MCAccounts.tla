------------------------------ MODULE MCAccounts ------------------------------
(***************************************************************************)
(* The parts in which people meet or are let in (groups of a matchmaking   *)
(* pass, friend edges, live messages, sign-in, two-factor codes, accounts  *)
(* of the portal, the operators of the control panel, what they are asked  *)
(* for), each explored by itself as in MCServices: no statement of one     *)
(* reads a row of another.  A pass is given claims of four tickets:        *)
(* SizeInputs vary what the entries ask of the size, who rejects whom and  *)
(* who has waited; RegionInputs vary regions, opting in to crossing them   *)
(* and who has waited for that.                                            *)
(***************************************************************************)
EXTENDS GroupFormation, Friends, RealtimeRelay, PlayerSessions, TwoFactor, Operators,
        TenantRequests, AccountVerification, AccountAccess

VARIABLE focus

\* Four solos; a party of two first, or in the middle; a party of three last;
\* two parties enqueued at the same instant.
Layouts == {<<1, 2, 3, 4>>, <<1, 1, 2, 3>>, <<1, 2, 2, 3>>, <<1, 2, 2, 2>>, <<1, 2, 1, 2>>}

Entries(layout) == {layout[i] : i \in 1..4}

Size(lo, hi, m) == [min |-> lo, max |-> hi, mult |-> m]
Sizes == {Size(2, 2, 1), Size(2, 4, 2), Size(3, 4, 1), Size(1, 3, 1)}

\* Cuts of the pool that keep entries whole.
Cuts(layout) ==
  {k \in 0..4 : \A i \in 1..k, j \in k + 1 .. 4 : layout[i] # layout[j]}

\* Criteria beyond the last entry are those of the last one.
Spread(layout, f) == [e \in 1..4 |-> IF e \in Entries(layout) THEN f[e] ELSE f[layout[4]]]

SizeInputs ==
  UNION {[entry : {layout},
          crit : {Spread(layout, [e \in Entries(layout) |->
                    [region |-> NoRegion, cross |-> FALSE,
                     min |-> s[e].min, max |-> s[e].max, mult |-> s[e].mult]])
                  : s \in [Entries(layout) -> Sizes]},
          rejects : {{}, {<<1, 2>>}, {<<3, 2>>}, {<<1, 4>>}},
          relaxed : Cuts(layout) \ {3},
          widen : {0}] : layout \in Layouts}

\* Opting in says nothing of a ticket that has no region.
Regions == {[region |-> NoRegion, cross |-> FALSE]}
            \union [region : {"eu", "us"}, cross : BOOLEAN]

RegionInputs ==
  UNION {[entry : {layout},
          crit : {Spread(layout, [e \in Entries(layout) |->
                    [region |-> r[e].region, cross |-> r[e].cross,
                     min |-> 2, max |-> 3, mult |-> 1]])
                  : r \in [Entries(layout) -> Regions]},
          rejects : {{}},
          relaxed : {4},
          widen : Cuts(layout) \ {3}] : layout \in Layouts}

AllInputs == SizeInputs \union RegionInputs

MCInit ==
  /\ focus \in {"groups", "friends", "relay", "signin", "codes", "operators", "signups", "tiers",
               "verification", "access"}
  /\ claim \in IF focus = "groups" THEN AllInputs ELSE {CHOOSE in \in SizeInputs : TRUE}
  /\ seed = 1 /\ used = {} /\ groups = <<>> /\ pass = "seed" /\ cursor = 1 /\ group = <<>>
  /\ FriendsInit /\ RelayInit /\ SessionsInit /\ TwoFactorInit /\ OperatorsInit /\ RequestsInit
  /\ VerificationInit /\ AccessInit
  /\ focus # "access" => account.password

MCNext ==
  /\ UNCHANGED focus
  /\ focus # "groups" => UNCHANGED vars
  /\ focus # "friends" => UNCHANGED frVars
  /\ focus # "relay" => UNCHANGED rlVars
  /\ focus # "signin" => UNCHANGED pxVars
  /\ focus # "codes" => UNCHANGED tfVars
  /\ focus # "operators" => UNCHANGED opVars
  /\ focus \notin {"signups", "tiers"} => UNCHANGED trVars
  /\ focus # "verification" => UNCHANGED avVars
  /\ focus # "access" => UNCHANGED aaVars
  /\ \/ focus = "groups" /\ Next
     \/ focus = "friends" /\ FriendsNext
     \/ focus = "relay" /\ RelayNext
     \/ focus = "signin" /\ SessionsNext
     \/ focus = "codes" /\ TwoFactorNext
     \/ focus = "operators" /\ OperatorsNext
     \/ focus = "signups" /\ SignupNext
     \/ focus = "tiers" /\ TierNext
     \/ focus = "verification" /\ VerificationNext
     \/ focus = "access" /\ AccessNext

MCVars == <<vars, frVars, rlVars, pxVars, tfVars, opVars, trVars, avVars, aaVars, focus>>

MCSpec == MCInit /\ [][MCNext]_MCVars
=============================================================================
