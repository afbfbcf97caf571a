------------------------------ MODULE PartyProofs ------------------------------
(***************************************************************************)
(* Proofs about parties: what the queue holds of them and what their       *)
(* members know, for any players, parties, settings and sizes.             *)
(*                                                                         *)
(* Neither promise is inductive by itself.  That a party is queued whole   *)
(* needs a leader in every open party (a queued party has an entry to      *)
(* cancel) and that whoever is about to join one is in no other; that      *)
(* readiness is informed needs that versions tell, which needs that a      *)
(* client's copy is never ahead of the row.                                *)
(*                                                                         *)
(* That nobody tries twice their budget of invite codes needs what a row   *)
(* knows of the wrong codes of its subject: which of them its window       *)
(* counts, and that a full window closed after all of them.                *)
(***************************************************************************)
EXTENDS Party, PartyCodes, FiniteSetTheorems, WellFoundedInduction, TLAPS

Opens == [player : Players, kind : {"solo", "join"}, party : Parties \union {NoParty}]

\* The types the argument needs.
PartyTyped ==
  /\ party \in [Parties -> Row]
  /\ partyOf \in [Players -> Parties \union {NoParty}]
  /\ joined \in [Players -> Nat]
  /\ ready \in [Players -> Nat]
  /\ roster \in [Parties -> SUBSET Players]
  /\ solo \in SUBSET Players
  /\ open \in SUBSET Opens
  /\ seen \in [Players -> Copy]
  /\ agreed \in [Players -> Copy]

\* LocksHeld: a player's advisory lock is held by one transaction; the player is
\* in no party until that ends, and a party to be joined stays idle meanwhile.
LocksHeld ==
  /\ \A o1, o2 \in open : o1.player = o2.player => o1 = o2
  /\ \A o \in open : /\ partyOf[o.player] = NoParty
                     /\ o.kind = "join" => /\ o.party \in Parties /\ party[o.party].state = "idle"
                                           /\ o.player \notin solo

\* Unready: nobody is ready for a party it is not in.
Unready == \A pl \in Players : partyOf[pl] = NoParty => ready[pl] = 0

\* CopiesBehind: a client's copy is of a row that exists, and not ahead of it.
CopiesBehind ==
  \A pl \in Players, p \in Parties : 
    seen[pl].party = p => party[p].state # "none" /\ seen[pl].row.version <= party[p].version

\* Counted: the roster of an existing party has a version other than 0, which
\* means not ready.
Counted == \A p \in Parties : party[p].state # "none" => party[p].rosterVersion > 0

\* SoloApart: who queues alone is in no party.
SoloApart == \A pl \in solo : partyOf[pl] = NoParty

PartyInv ==
  /\ PartyTyped /\ LocksHeld /\ Unready /\ Counted /\ CopiesBehind /\ SoloApart
  /\ QueuedAsOne /\ InformedReadiness /\ VersionsTell /\ LeaderInParty

\* A non-empty set of players has one that joined first.
LEMMA FirstJoined ==
  ASSUME NEW S \in SUBSET Players, S # {}, joined \in [Players -> Nat]
  PROVE  \E pl \in S : \A other \in S : joined[pl] <= joined[other]
PROOF
  <1> DEFINE R == OpToRel(<, Nat)
             T == {joined[pl] : pl \in S}
  <1>1. T \subseteq Nat /\ T # {}
    OBVIOUS
  <1>2. PICK x \in T : \A y \in T : ~(<<y, x>> \in R)
    <2> HIDE DEF R, T
    <2> QED
      BY <1>1, NatLessThanWellFounded, WFMin DEF R
  <1>3. \A y \in T : ~(y < x)
    BY <1>1, <1>2 DEF OpToRel
  <1>4. PICK pl \in S : joined[pl] = x
    OBVIOUS
  <1>5. ASSUME NEW other \in S PROVE joined[pl] <= joined[other]
    <2>1. ~(joined[other] < x)
      BY <1>3
    <2> QED
      BY <1>4, <2>1
  <1> QED
    BY <1>5

\* There is no party at first.
LEMMA PartyInitial == Init => PartyInv
PROOF
  <1> SUFFICES ASSUME Init PROVE PartyInv
    OBVIOUS
  <1>1. NoRow \in Row /\ NoView \in Copy
    BY PartyConstants DEF NoRow, Row, NoView, Copy
  <1>2. PartyTyped
    BY <1>1 DEF PartyTyped, Init
  <1>3. \A p \in Parties : Members(p) = {} /\ party[p].state = "none" /\ p # NoParty
    BY PartyConstants DEF Init, Members, NoRow
  <1>4. \A pl \in Players : seen[pl].party = NoParty
    BY DEF Init, NoView
  <1> QED
    BY <1>2, <1>3, <1>4
    DEF PartyInv, Init, LocksHeld, Unready, Counted, CopiesBehind, SoloApart, QueuedAsOne, InformedReadiness,
        VersionsTell, LeaderInParty, Current

\* A new version of a row.
LEMMA RowBumped ==
  ASSUME NEW r \in Row
  PROVE  /\ Bumped(r) \in Row /\ Bumped(r).version = r.version + 1
         /\ Bumped(r).rosterVersion = r.rosterVersion /\ Bumped(r).settings = r.settings
         /\ Bumped(r).leader = r.leader /\ Bumped(r).state = r.state
PROOF
  BY DEF Bumped, Row

\* rosterChanged: a new version with a new roster.
LEMMA RowChanged ==
  ASSUME NEW r \in Row
  PROVE  /\ RosterChanged(r) \in Row /\ RosterChanged(r).version = r.version + 1
         /\ RosterChanged(r).rosterVersion = r.rosterVersion + 1
         /\ RosterChanged(r).settings = r.settings
         /\ RosterChanged(r).leader = r.leader /\ RosterChanged(r).state = r.state
PROOF
  <1>1. /\ r.state \in {"none", "idle", "queued", "matched", "closed"} /\ r.leader \in Players \union {NoPlayer}
        /\ r.version \in Nat /\ r.rosterVersion \in Nat /\ r.settings \in Settings /\ r.last \in Nat
    BY DEF Row
  <1>2. RosterChanged(r) = [state |-> r.state, leader |-> r.leader, version |-> r.version + 1,
                            rosterVersion |-> r.rosterVersion + 1, settings |-> r.settings, last |-> r.last]
    <2>1. PICK a, b, v, w, c, d : r = [state |-> a, leader |-> b, version |-> v, rosterVersion |-> w,
                                       settings |-> c, last |-> d]
      BY DEF Row
    <2>2. v \in Nat /\ w \in Nat
      BY <1>1, <2>1
    <2>3. PICK q : q = RosterChanged(r)
      OBVIOUS
    <2>4. q = [state |-> a, leader |-> b, version |-> v + 1, rosterVersion |-> w + 1,
               settings |-> c, last |-> d]
      BY <2>1, <2>2, <2>3 DEF RosterChanged
    <2> QED
      BY <2>1, <2>3, <2>4
  <1>3. RosterChanged(r) \in Row
    BY <1>1, <1>2 DEF Row
  <1> QED
    BY <1>2, <1>3

\* Clients whose copy is of an older version.
LEMMA StaleCopies ==
  ASSUME PartyInv, NEW p \in Parties, UNCHANGED seen, party' \in [Parties -> Row],
         party'[p].version > party[p].version \/ party[p].state = "none",
         party[p].state # "none" => party'[p].state # "none",
         \A q \in Parties \ {p} : party'[q] = party[q] /\ Members(q)' = Members(q)
  PROVE  CopiesBehind' /\ VersionsTell'
PROOF
  <1>1. \A pl \in Players, q \in Parties :
          /\ seen[pl].row.version \in Nat /\ party[q].version \in Nat /\ party'[q].version \in Nat
    BY DEF PartyInv, PartyTyped, Copy, Row
  <1>2. CopiesBehind'
    BY <1>1 DEF PartyInv, CopiesBehind
  <1>3. ASSUME NEW pl \in Players, NEW q \in Parties, Current(pl, q)'
        PROVE  seen'[pl] = View(q)'
    <2>1. q # p
      BY <1>1, <1>3 DEF PartyInv, CopiesBehind, Current
    <2>2. Current(pl, q)
      BY <1>3, <2>1 DEF Current
    <2> QED
      BY <2>1, <2>2 DEF PartyInv, VersionsTell, View
  <1> QED
    BY <1>2, <1>3 DEF VersionsTell

\* A step that leaves the parties and their members as they are.
LEMMA SameParties ==
  ASSUME PartyInv, UNCHANGED rows, UNCHANGED <<roster, clients>>, solo' \subseteq solo,
         open' \subseteq open
  PROVE  PartyInv'
PROOF
  <1>1. \A p \in Parties : Members(p)' = Members(p) /\ View(p)' = View(p)
    BY DEF Members, View, rows
  <1>2. PartyTyped'
    BY DEF PartyInv, PartyTyped, rows, clients
  <1>3. LocksHeld'
    BY DEF PartyInv, PartyTyped, LocksHeld, rows
  <1> QED
    BY <1>1, <1>2, <1>3
    DEF PartyInv, rows, clients, Unready, Counted, CopiesBehind, SoloApart, QueuedAsOne, InformedReadiness,
        VersionsTell, LeaderInParty, Current

\* A write to a row that keeps its members, its settings and its roster.
LEMMA RowWritten ==
  ASSUME PartyInv, NEW p \in Parties, NEW r \in Row, party' = [party EXCEPT ![p] = r],
         ~RowLocked(p), r.version > party[p].version,
         r.rosterVersion = party[p].rosterVersion, r.settings = party[p].settings,
         r.leader = party[p].leader, r.state = party[p].state,
         UNCHANGED <<partyOf, joined, roster, solo, seen, open>>,
         UNCHANGED <<ready, agreed>>
  PROVE  PartyInv'
PROOF
  <1>1. \A q \in Parties : Members(q)' = Members(q)
    BY DEF Members
  <1>2. /\ party' \in [Parties -> Row] /\ party'[p] = r
        /\ \A q \in Parties \ {p} : party'[q] = party[q]
    BY DEF PartyInv, PartyTyped
  <1>3. CopiesBehind' /\ VersionsTell'
    BY <1>1, <1>2, StaleCopies
  <1>4. PartyTyped'
    BY <1>2 DEF PartyInv, PartyTyped
  <1>5. LocksHeld'
    BY <1>2 DEF PartyInv, PartyTyped, LocksHeld
  <1>6. Unready' /\ SoloApart' /\ Counted'
    BY <1>2 DEF PartyInv, Unready, SoloApart, Counted
  <1>7. QueuedAsOne' /\ InformedReadiness' /\ LeaderInParty'
    BY <1>1, <1>2 DEF PartyInv, QueuedAsOne, InformedReadiness, LeaderInParty
  <1> QED
    BY <1>3, <1>4, <1>5, <1>6, <1>7 DEF PartyInv

\* The same for the write that only takes a new version.
LEMMA RowBumpWritten ==
  ASSUME PartyInv, NEW p \in Parties, party' = [party EXCEPT ![p] = Bumped(party[p])],
         ~RowLocked(p), UNCHANGED <<partyOf, joined, ready, roster, solo, open, clients>>
  PROVE  PartyInv'
PROOF
  <1>1. party[p] \in Row /\ party[p].version \in Nat
    BY DEF PartyInv, PartyTyped, Row
  <1>2. PICK r : r = Bumped(party[p])
    OBVIOUS
  <1>3. /\ r \in Row /\ r.version > party[p].version /\ r.rosterVersion = party[p].rosterVersion
        /\ r.settings = party[p].settings /\ r.leader = party[p].leader /\ r.state = party[p].state
    BY <1>1, <1>2, RowBumped
  <1> QED
    BY <1>2, <1>3, RowWritten DEF clients

\* A party that is out of the queue now, whoever of its members is gone: none of
\* those left is ready.
LEMMA RosterWritten ==
  ASSUME PartyInv, NEW p \in Parties, NEW r \in Row, NEW gone \in SUBSET Members(p),
         party' = [party EXCEPT ![p] = r], ~RowLocked(p),
         r.version > party[p].version, r.rosterVersion > 0,
         r.state \notin {"none", "queued"},
         IF r.state = "closed" THEN gone = Members(p) ELSE r.leader \in Members(p) \ gone,
         partyOf' = [pl \in Players |-> IF pl \in gone THEN NoParty ELSE partyOf[pl]],
         joined' \in [Players -> Nat], ready' = NoneReady(Members(p)),
         roster' = [roster EXCEPT ![p] = {}], UNCHANGED <<solo, open, clients>>
  PROVE  PartyInv'
PROOF
  <1>0. /\ party \in [Parties -> Row] /\ partyOf \in [Players -> Parties \union {NoParty}]
        /\ ready \in [Players -> Nat] /\ NoParty \notin Parties
        /\ roster \in [Parties -> SUBSET Players]
    BY PartyConstants DEF PartyInv, PartyTyped
  <1>1. /\ Members(p)' = Members(p) \ gone
        /\ \A q \in Parties \ {p} : Members(q)' = Members(q)
    BY <1>0 DEF Members
  <1>2. /\ party' \in [Parties -> Row] /\ party'[p] = r
        /\ \A q \in Parties \ {p} : party'[q] = party[q]
    BY <1>0
  <1>3. CopiesBehind' /\ VersionsTell'
    BY <1>1, <1>2, StaleCopies DEF clients
  <1>4. /\ ready' \in [Players -> Nat] /\ \A m \in Members(p) : ready'[m] = 0
        /\ \A m \in Players \ Members(p) : ready'[m] = ready[m]
    BY <1>0 DEF NoneReady, Members
  <1>5. PartyTyped'
    BY <1>0, <1>2, <1>4 DEF PartyInv, PartyTyped, clients, Members
  <1>6. \A pl \in Players : partyOf'[pl] \in {NoParty, partyOf[pl]}
    BY <1>0
  <1>7. LocksHeld'
    <2>1. ASSUME NEW o \in open PROVE o.party # p /\ partyOf[o.player] = NoParty /\ o.player \in Players
      BY DEF PartyInv, PartyTyped, LocksHeld, RowLocked, Opens
    <2> QED
      BY <1>2, <1>6, <2>1 DEF PartyInv, LocksHeld
  <1>8. Unready' /\ SoloApart' /\ Counted'
    BY <1>0, <1>2, <1>4, <1>6 DEF PartyInv, PartyTyped, Unready, SoloApart, Counted, Members
  <1>9. QueuedAsOne' /\ LeaderInParty'
    BY <1>0, <1>1, <1>2 DEF PartyInv, QueuedAsOne, LeaderInParty
  <1>10. InformedReadiness'
    <2> SUFFICES ASSUME NEW q \in Parties, NEW m \in Members(q)', ready'[m] = party'[q].rosterVersion
                 PROVE  agreed'[m].members = Members(q)' /\ agreed'[m].row.settings = party'[q].settings
      BY DEF InformedReadiness
    <2>1. q # p
      BY <1>1, <1>2, <1>4
    <2>2. m \in Members(q) /\ m \notin Members(p) /\ m \in Players
      BY <1>1, <2>1 DEF Members
    <2> QED
      BY <1>1, <1>2, <1>4, <2>1, <2>2 DEF PartyInv, InformedReadiness, clients
  <1> QED
    BY <1>3, <1>5, <1>7, <1>8, <1>9, <1>10 DEF PartyInv

\* What is left of a party that cancels and loses members is led by one of them.
LEMMA LossWritten ==
  ASSUME PartyInv, NEW p \in Parties, NEW out \in SUBSET Members(p), Members(p) # {},
         ~RowLocked(p), LoseMembers(p, out), UNCHANGED <<solo, open, clients>>
  PROVE  PartyInv'
PROOF
  <1> DEFINE left == Members(p) \ out
             row == AfterLoss(Cancelled(p), left)
             gone == IF row.state = "closed" THEN Members(p) ELSE out
  <1>0. /\ party[p] \in Row /\ Members(p) \subseteq Players /\ joined \in [Players -> Nat]
        /\ party[p].state \notin {"none", "closed"}
        /\ party[p].state = "queued" => roster[p] = Members(p)
    BY DEF PartyInv, PartyTyped, LeaderInParty, QueuedAsOne, Members
  <1>1. PICK state \in {"idle"} :
          Cancelled(p) = [state |-> state, leader |-> party[p].leader,
                          version |-> party[p].version, rosterVersion |-> party[p].rosterVersion,
                          settings |-> party[p].settings, last |-> party[p].last]
    BY <1>0 DEF Cancelled, Row
  <1>2. /\ row \in Row /\ row.state \in {"idle", "closed"} /\ row.version = party[p].version
        /\ row.rosterVersion = party[p].rosterVersion
        /\ row.state = "closed" \/ row.leader \in left
    <2>1. CASE left = {}
      BY <1>0, <1>1, <2>1 DEF AfterLoss, Row
    <2>2. CASE left # {} /\ Cancelled(p).leader \in left
      BY <1>0, <1>1, <2>2 DEF AfterLoss, Row
    <2>3. CASE left # {} /\ Cancelled(p).leader \notin left
      <3> DEFINE inTime == left \ appGone
                 first == CHOOSE pl \in inTime : \A other \in inTime : joined[pl] <= joined[other]
      <3>1. row = IF inTime = {} THEN [Cancelled(p) EXCEPT !.state = "closed"]
                  ELSE [Cancelled(p) EXCEPT !.leader = first]
        BY <2>3 DEF AfterLoss, Promoted
      <3>2. inTime # {} => first \in inTime
        BY <1>0, FirstJoined
      <3> HIDE DEF first
      <3> QED
        BY <1>0, <1>1, <3>1, <3>2 DEF Row
    <2> QED
      BY <2>1, <2>2, <2>3
  <1> HIDE DEF row
  <1>3. /\ RosterChanged(row) \in Row /\ RosterChanged(row).state = row.state
        /\ RosterChanged(row).leader = row.leader
        /\ RosterChanged(row).version > party[p].version /\ RosterChanged(row).rosterVersion > 0
    <2>1. party[p].version \in Nat /\ party[p].rosterVersion \in Nat
      BY <1>0 DEF Row
    <2> QED
      BY <1>2, <2>1, RowChanged
  <1>4. gone \in SUBSET Members(p)
    OBVIOUS
  <1>5. joined' \in [Players -> Nat]
    BY <1>0 DEF LoseMembers, row
  <1>6. /\ party' = [party EXCEPT ![p] = RosterChanged(row)]
        /\ partyOf' = [pl \in Players |-> IF pl \in gone THEN NoParty ELSE partyOf[pl]]
        /\ ready' = NoneReady(Members(p)) /\ roster' = [roster EXCEPT ![p] = {}]
    BY DEF LoseMembers, row
  <1>7. IF row.state = "closed" THEN gone = Members(p) ELSE row.leader \in Members(p) \ gone
    BY <1>2
  <1> HIDE DEF gone
  <1> QED
    BY <1>2, <1>3, <1>4, <1>5, <1>6, <1>7, RosterWritten

\* A transaction that takes a free player's lock.
LEMMA LockTaken ==
  ASSUME PartyInv, NEW o \in Opens, open' = open \union {o}, Unlocked(o.player),
         partyOf[o.player] = NoParty,
         o.kind = "join" => o.party \in Parties /\ party[o.party].state = "idle" /\ o.player \notin solo,
         UNCHANGED <<rows, roster, solo, clients>>
  PROVE  PartyInv'
PROOF
  <1>1. \A p \in Parties : Members(p)' = Members(p) /\ View(p)' = View(p)
    BY DEF Members, View, rows
  <1>2. PartyTyped'
    BY DEF PartyInv, PartyTyped, rows, clients
  <1>3. LocksHeld'
    BY DEF PartyInv, LocksHeld, rows, Unlocked
  <1> QED
    BY <1>1, <1>2, <1>3
    DEF PartyInv, rows, clients, Unready, Counted, CopiesBehind, SoloApart, QueuedAsOne, InformedReadiness,
        VersionsTell, LeaderInParty, Current

\* A player who is in no party and not in the queue becomes a member of an idle
\* party, where then nobody is ready.
LEMMA MemberAdded ==
  ASSUME PartyInv, NEW p \in Parties, NEW pl \in Players, NEW r \in Row,
         party' = [party EXCEPT ![p] = r], partyOf' = [partyOf EXCEPT ![pl] = p],
         partyOf[pl] = NoParty, pl \notin solo, \A o \in open' : o.player # pl, open' \subseteq open,
         party[p].state \in {"none", "idle"},
         r.version > party[p].version \/ party[p].state = "none", r.rosterVersion > 0, r.state = "idle",
         IF party[p].state = "none" THEN r.leader = pl ELSE r.leader = party[p].leader,
         joined' \in [Players -> Nat], ready' = NoneReady(Members(p) \union {pl}),
         UNCHANGED <<roster, solo, clients>>
  PROVE  PartyInv'
PROOF
  <1>0. /\ party \in [Parties -> Row] /\ partyOf \in [Players -> Parties \union {NoParty}]
        /\ ready \in [Players -> Nat] /\ NoParty \notin Parties
        /\ roster \in [Parties -> SUBSET Players] /\ roster[p] = {}
    BY PartyConstants DEF PartyInv, PartyTyped, QueuedAsOne
  <1>1. /\ Members(p)' = Members(p) \union {pl}
        /\ \A q \in Parties \ {p} : Members(q)' = Members(q)
    BY <1>0 DEF Members
  <1>2. /\ party' \in [Parties -> Row] /\ party'[p] = r
        /\ \A q \in Parties \ {p} : party'[q] = party[q]
    BY <1>0
  <1>3. CopiesBehind' /\ VersionsTell'
    BY <1>1, <1>2, StaleCopies DEF clients
  <1>4. /\ ready' \in [Players -> Nat] /\ \A m \in Members(p) \union {pl} : ready'[m] = 0
        /\ \A m \in Players \ (Members(p) \union {pl}) : ready'[m] = ready[m]
    BY <1>0 DEF NoneReady, Members
  <1>5. PartyTyped'
    BY <1>0, <1>2, <1>4 DEF PartyInv, PartyTyped, clients
  <1>6. LocksHeld'
    <2>1. ASSUME NEW o \in open' PROVE o \in open /\ o.player # pl /\ o.player \in Players
      BY DEF PartyInv, PartyTyped, Opens
    <2> QED
      BY <1>0, <1>2, <2>1 DEF PartyInv, LocksHeld
  <1>7. Unready' /\ SoloApart' /\ Counted'
    BY <1>0, <1>1, <1>2, <1>4 DEF PartyInv, PartyTyped, Unready, SoloApart, Counted, Members
  <1>8. QueuedAsOne' /\ LeaderInParty'
    BY <1>0, <1>1, <1>2 DEF PartyInv, QueuedAsOne, LeaderInParty
  <1>9. InformedReadiness'
    <2> SUFFICES ASSUME NEW q \in Parties, NEW m \in Members(q)', ready'[m] = party'[q].rosterVersion
                 PROVE  agreed'[m].members = Members(q)' /\ agreed'[m].row.settings = party'[q].settings
      BY DEF InformedReadiness
    <2>1. q # p
      <3>1. r.rosterVersion # 0
        BY DEF Row
      <3>2. q = p => ready'[m] = 0 /\ party'[q] = r
        BY <1>1, <1>2, <1>4
      <3> QED
        BY <3>1, <3>2
    <2>2. m \in Members(q) /\ m \notin Members(p) \union {pl} /\ m \in Players
      BY <1>0, <1>1, <2>1 DEF Members
    <2> QED
      BY <1>1, <1>2, <1>4, <2>1, <2>2, ZenonT(60) DEF PartyInv, InformedReadiness, clients
  <1> QED
    BY <1>3, <1>5, <1>6, <1>7, <1>8, <1>9 DEF PartyInv

\* Every request, transaction, match and sweep keeps the invariant.
LEMMA PartyStep == PartyInv /\ [Next]_vars => PartyInv'
PROOF
  <1> SUFFICES ASSUME PartyInv, [Next]_vars PROVE PartyInv'
    OBVIOUS
  <1>0. \A p \in Parties : /\ party[p] \in Row /\ party[p].version \in Nat
                           /\ party[p].rosterVersion \in Nat /\ p # NoParty
    BY PartyConstants DEF PartyInv, PartyTyped, Row
  <1>1. ASSUME NEW pl \in Players, NEW p \in Parties, Learn(pl, p) PROVE PartyInv'
    <2>1. View(p) \in Copy
      BY <1>0 DEF View, Copy, Members
    <2>2. /\ seen' \in [Players -> Copy] /\ seen'[pl] = View(p)
          /\ \A other \in Players \ {pl} : seen'[other] = seen[other]
          /\ UNCHANGED <<rows, roster, solo, open, agreed>>
      BY <1>1, <2>1 DEF Learn, PartyInv, PartyTyped
    <2>3. \A q \in Parties : Members(q)' = Members(q) /\ View(q)' = View(q)
      BY <2>2 DEF Members, View, rows
    <2>4. seen'[pl].party = p /\ seen'[pl].row = party[p]
      BY <2>2 DEF View
    <2>5. PartyTyped'
      BY <2>2 DEF PartyInv, PartyTyped, rows
    <2>6. CopiesBehind'
      <3>1. party[p].state # "none"
        BY <1>1 DEF Learn, PartyInv, LeaderInParty, Members
      <3> QED
        BY <1>0, <2>2, <2>4, <3>1 DEF PartyInv, CopiesBehind, rows
    <2>7. VersionsTell'
      BY <2>2, <2>3, <2>4 DEF PartyInv, VersionsTell, Current, rows
    <2> QED
      BY <2>2, <2>3, <2>5, <2>6, <2>7
      DEF PartyInv, rows, LocksHeld, Unready, Counted, SoloApart, QueuedAsOne, InformedReadiness, LeaderInParty
  <1>2. ASSUME NEW pl \in Players, NEW p \in Parties, NEW s \in Settings, Create(pl, p, s)
        PROVE PartyInv'
    <2>0. PICK r : r = [NoRow EXCEPT !.state = "idle", !.leader = pl, !.version = 1,
                                     !.rosterVersion = 1, !.settings = s]
      OBVIOUS
    <2>1. r = [state |-> "idle", leader |-> pl, version |-> 1, rosterVersion |-> 1,
               settings |-> s, last |-> 0]
      BY <2>0 DEF NoRow
    <2>2. party' = [party EXCEPT ![p] = r]
      BY Zenon, <1>2, <2>0 DEF Create
    <2>3. r \in Row
      BY <2>1 DEF Row
    <2>4. /\ party[p].state = "none" /\ partyOf[pl] = NoParty /\ pl \notin solo
          /\ \A o \in open' : o.player # pl
          /\ Members(p) = {} /\ ready[pl] = 0
      BY <1>2 DEF Create, Free, Queued, Unlocked, PartyInv, LeaderInParty, Unready
    <2>5. ready' = NoneReady(Members(p) \union {pl})
      BY <1>2, <2>4 DEF Create, NoneReady, PartyInv, PartyTyped
    <2>6. joined' \in [Players -> Nat]
      BY <1>2 DEF Create, PartyInv, PartyTyped
    <2>7. /\ partyOf' = [partyOf EXCEPT ![pl] = p] /\ open' = open
          /\ UNCHANGED <<roster, solo, clients>>
      BY <1>2 DEF Create
    <2>8. r.version = 1 /\ r.rosterVersion = 1 /\ r.state = "idle" /\ r.leader = pl
      BY <2>1
    <2>9. /\ open' \subseteq open /\ party[p].state \in {"none", "idle"}
          /\ r.version > party[p].version \/ party[p].state = "none"
          /\ IF party[p].state = "none" THEN r.leader = pl ELSE r.leader = party[p].leader
          /\ r.rosterVersion > 0
      BY <2>4, <2>7, <2>8
    <2> QED
      BY <2>2, <2>3, <2>4, <2>5, <2>6, <2>7, <2>8, <2>9, MemberAdded
  <1>3. ASSUME NEW pl \in Players, NEW p \in Parties, NEW s \in Settings, Update(pl, p, s)
        PROVE PartyInv'
    <2>1. PICK r : r = [party[p] EXCEPT !.settings = s]
      OBVIOUS
    <2>2. /\ r \in Row /\ r.version = party[p].version /\ r.rosterVersion = party[p].rosterVersion
          /\ r.state = "idle" /\ r.leader = party[p].leader
      BY <1>0, <1>3, <2>1 DEF Update, Row
    <2>3. roster[p] = {} /\ party[p].leader \in Members(p)
      BY <1>3 DEF Update, PartyInv, QueuedAsOne, LeaderInParty
    <2>3a. PICK w, none : w = RosterChanged(r) /\ none = {}
      OBVIOUS
    <2>4. /\ partyOf' = [m \in Players |-> IF m \in none THEN NoParty ELSE partyOf[m]]
          /\ roster' = [roster EXCEPT ![p] = {}] /\ joined' \in [Players -> Nat]
      BY <1>3, <2>3, <2>3a DEF Update, PartyInv, PartyTyped
    <2>5. /\ w \in Row /\ w.version > party[p].version /\ w.rosterVersion > 0 /\ w.state = "idle"
          /\ w.leader \in Members(p) \ none /\ none \in SUBSET Members(p)
      BY <1>0, <2>2, <2>3, <2>3a, RowChanged
    <2>6. /\ party' = [party EXCEPT ![p] = w] /\ ~RowLocked(p) /\ ready' = NoneReady(Members(p))
          /\ UNCHANGED <<solo, open, clients>>
      BY <1>3, <2>1, <2>3a DEF Update, MayWrite
    <2> QED
      BY <2>4, <2>5, <2>6, RosterWritten

  <1>4. ASSUME NEW pl \in Players, NEW p \in Parties, NEW yes \in BOOLEAN, Ready(pl, p, yes)
        PROVE PartyInv'
    <2>1. /\ ~RowLocked(p) /\ partyOf[pl] = p /\ Current(pl, p) /\ party' = [party EXCEPT ![p] = Bumped(party[p])]
          /\ ready' = [ready EXCEPT ![pl] = IF yes THEN party[p].rosterVersion ELSE 0]
          /\ agreed' = [agreed EXCEPT ![pl] = IF yes THEN seen[pl] ELSE NoView]
          /\ UNCHANGED <<partyOf, joined, roster, solo, open, seen>>
      BY <1>4 DEF Ready, MayWrite
    <2>2. NoView \in Copy /\ seen[pl] \in Copy /\ seen[pl] = View(p)
      BY <2>1, PartyConstants
      DEF NoRow, Row, NoView, Copy, PartyInv, PartyTyped, VersionsTell
    <2>3. \A q \in Parties : Members(q)' = Members(q)
      BY <2>1 DEF Members
    <2> DEFINE r == Bumped(party[p])
    <2>4. /\ r \in Row /\ r.version > party[p].version /\ r.rosterVersion = party[p].rosterVersion
          /\ r.settings = party[p].settings /\ r.leader = party[p].leader /\ r.state = party[p].state
      BY <1>0, RowBumped
    <2>5. /\ party' \in [Parties -> Row] /\ party'[p] = r
          /\ \A q \in Parties \ {p} : party'[q] = party[q]
      BY <2>1, <2>4 DEF PartyInv, PartyTyped
    <2> HIDE DEF r
    <2>6. CopiesBehind' /\ VersionsTell'
      BY <2>1, <2>3, <2>4, <2>5, StaleCopies
    <2>7. PartyTyped'
      BY <1>0, <2>1, <2>2, <2>5 DEF PartyInv, PartyTyped
    <2>8. LocksHeld'
      BY <2>1, <2>4, <2>5 DEF PartyInv, PartyTyped, LocksHeld
    <2>9. Unready' /\ SoloApart' /\ Counted'
      BY <1>0, <2>1, <2>4, <2>5 DEF PartyInv, PartyTyped, Unready, SoloApart, Counted
    <2>10. QueuedAsOne' /\ LeaderInParty'
      BY <2>1, <2>3, <2>4, <2>5 DEF PartyInv, QueuedAsOne, LeaderInParty
    <2>11. InformedReadiness'
      <3> SUFFICES ASSUME NEW q \in Parties, NEW m \in Members(q)', ready'[m] = party'[q].rosterVersion
                   PROVE  agreed'[m].members = Members(q)' /\ agreed'[m].row.settings = party'[q].settings
        BY DEF InformedReadiness
      <3>1. /\ m \in Members(q) /\ m \in Players /\ party'[q].rosterVersion = party[q].rosterVersion
            /\ party'[q].settings = party[q].settings
        BY <2>3, <2>4, <2>5 DEF Members
      <3>2. CASE m # pl
        BY <2>1, <2>3, <3>1, <3>2 DEF PartyInv, PartyTyped, InformedReadiness
      <3>3. CASE m = pl
        <4>1. q = p
          BY <2>1, <3>1, <3>3 DEF Members
        <4>2. party[p].rosterVersion > 0
          BY <2>1 DEF PartyInv, Counted, LeaderInParty, Members
        <4>3. yes
          BY <1>0, <2>1, <3>1, <3>3, <4>1, <4>2 DEF PartyInv, PartyTyped
        <4>4. agreed'[m] = View(p)
          BY <2>1, <2>2, <3>3, <4>3 DEF PartyInv, PartyTyped
        <4> QED
          BY <2>3, <3>1, <4>1, <4>4 DEF View
      <3> QED
        BY <3>2, <3>3
    <2> QED
      BY <2>6, <2>7, <2>8, <2>9, <2>10, <2>11 DEF PartyInv
  <1>5. ASSUME NEW pl \in Players, NEW p \in Parties, NEW rematch \in BOOLEAN, Queue(pl, p, rematch)
        PROVE PartyInv'
    <2>1. PICK r : r = [party[p] EXCEPT !.state = "queued"]
      OBVIOUS
    <2>2. /\ r \in Row /\ r.version = party[p].version /\ r.rosterVersion = party[p].rosterVersion
          /\ r.state = "queued" /\ r.leader = party[p].leader /\ r.settings = party[p].settings
      BY <1>0, <2>1 DEF Row
    <2>3. PICK w : w = Bumped(r)
      OBVIOUS
    <2>4. /\ w \in Row /\ w.version > party[p].version /\ w.rosterVersion = party[p].rosterVersion
          /\ w.state = "queued" /\ w.leader = party[p].leader /\ w.settings = party[p].settings
      BY <1>0, <2>2, <2>3, RowBumped
    <2>5. /\ party' = [party EXCEPT ![p] = w] /\ ~RowLocked(p) /\ partyOf[pl] = p
          /\ roster' = [roster EXCEPT ![p] = Members(p)]
          /\ UNCHANGED <<partyOf, joined, ready, solo, open, clients>>
      BY <1>5, <2>1, <2>3 DEF Queue, MayWrite
    <2>6. \A q \in Parties : Members(q)' = Members(q) /\ Members(q) \subseteq Players
      BY <2>5 DEF Members
    <2>7. /\ party' \in [Parties -> Row] /\ party'[p] = w /\ party[p].state \notin {"none", "closed"}
          /\ \A q \in Parties \ {p} : party'[q] = party[q]
      BY <2>4, <2>5 DEF PartyInv, PartyTyped, LeaderInParty, Members
    <2>8. CopiesBehind' /\ VersionsTell'
      BY <2>4, <2>5, <2>6, <2>7, StaleCopies DEF clients
    <2>9. PartyTyped'
      BY <2>5, <2>6, <2>7 DEF PartyInv, PartyTyped, clients
    <2>10. LocksHeld'
      <3>1. \A o \in open : o.party # p
        BY <2>5 DEF RowLocked
      <3> QED
        BY <2>5, <2>7, <3>1 DEF PartyInv, LocksHeld
    <2>11. Unready' /\ SoloApart' /\ Counted'
      BY <2>4, <2>5, <2>7 DEF PartyInv, Unready, SoloApart, Counted
    <2>12. QueuedAsOne' /\ LeaderInParty'
      <3>1. roster'[p] = Members(p) /\ \A q \in Parties \ {p} : roster'[q] = roster[q]
        BY <2>5, <2>6 DEF PartyInv, PartyTyped
      <3>2. QueuedAsOne'
        BY <2>4, <2>6, <2>7, <3>1 DEF PartyInv, QueuedAsOne
      <3> QED
        BY <2>4, <2>6, <2>7, <3>2 DEF PartyInv, LeaderInParty
    <2>13. InformedReadiness'
      <3> SUFFICES ASSUME NEW q \in Parties, NEW m \in Members(q)', ready'[m] = party'[q].rosterVersion
                   PROVE  agreed'[m].members = Members(q)' /\ agreed'[m].row.settings = party'[q].settings
        BY DEF InformedReadiness
      <3>1. /\ m \in Members(q) /\ party'[q].rosterVersion = party[q].rosterVersion
            /\ party'[q].settings = party[q].settings
        BY <2>4, <2>6, <2>7
      <3> QED
        BY <2>5, <2>6, <3>1 DEF PartyInv, InformedReadiness, clients
    <2> QED
      BY <2>8, <2>9, <2>10, <2>11, <2>12, <2>13 DEF PartyInv
  <1>6. ASSUME NEW pl \in Players, NEW p \in Parties, Heartbeat(pl, p) PROVE PartyInv'
    BY <1>6, SameParties DEF Heartbeat
  <1>7. ASSUME NEW pl \in Players, NEW p \in Parties, Cancel(pl, p) PROVE PartyInv'
    <2>1. /\ party[p].state \in {"queued", "matched"} /\ party[p].leader \in Members(p)
          /\ party[p].state = "queued" => roster[p] # {}
      BY <1>7 DEF Cancel, PartyInv, LeaderInParty, QueuedAsOne
    <2>2. PICK r : r = Cancelled(p)
      OBVIOUS
    <2>3. /\ r \in Row /\ r.version = party[p].version /\ r.rosterVersion = party[p].rosterVersion
          /\ r.state = "idle" /\ r.leader = party[p].leader
      BY <1>0, <2>1, <2>2 DEF Cancelled, Row
    <2>4. PICK w, none : w = RosterChanged(r) /\ none = {}
      OBVIOUS
    <2>5. /\ w \in Row /\ w.version > party[p].version /\ w.rosterVersion > 0 /\ w.state = "idle"
          /\ w.leader \in Members(p) \ none /\ none \in SUBSET Members(p)
      BY <1>0, <2>1, <2>3, <2>4, RowChanged
    <2>6. /\ party' = [party EXCEPT ![p] = w] /\ ~RowLocked(p) /\ ready' = NoneReady(Members(p))
          /\ UNCHANGED <<solo, open, clients>> /\ roster' = [roster EXCEPT ![p] = {}]
      BY <1>7, <2>2, <2>4 DEF Cancel, MayWrite
    <2>7. /\ partyOf' = [m \in Players |-> IF m \in none THEN NoParty ELSE partyOf[m]]
          /\ joined' \in [Players -> Nat]
      BY <1>7, <2>4 DEF Cancel, PartyInv, PartyTyped
    <2> QED
      BY <2>5, <2>6, <2>7, RosterWritten
  <1>8. ASSUME NEW pl \in Players, NEW p \in Parties, NEW out, Remove(pl, p, out) PROVE PartyInv'
    BY <1>8, LossWritten DEF Remove, MayWrite, Members
  <1>9. ASSUME NEW pl \in Players, NEW p \in Parties, NEW uses, CreateCode(pl, p, uses) PROVE PartyInv'
    BY <1>0, <1>9, RowBumpWritten DEF CreateCode, MayWrite, clients
  <1>10. ASSUME NEW pl \in Players, NEW p \in Parties, RevokeCode(pl, p) PROVE PartyInv'
    BY <1>0, <1>10, RowBumpWritten DEF RevokeCode, MayWrite, clients
  <1>11. ASSUME NEW pl \in Players, NEW p \in Parties, NEW target, InviteFriend(pl, p, target)
         PROVE PartyInv'
    BY <1>0, <1>11, RowBumpWritten DEF InviteFriend, MayWrite, clients
  <1>12. ASSUME NEW pl \in Players, NEW p \in Parties, NEW target, EndInvite(pl, p, target)
         PROVE PartyInv'
    BY <1>0, <1>12, RowBumpWritten DEF EndInvite, clients
  <1>13. ASSUME NEW pl \in Players, NEW p \in Parties, JoinCode(pl, p) \/ AcceptInvite(pl, p)
         PROVE PartyInv'
    <2>1. Joining(pl, p) \in Opens /\ Joining(pl, p).player = pl /\ Joining(pl, p).party = p
      BY DEF Joining, Opens
    <2>2. /\ partyOf[pl] = NoParty /\ pl \notin solo /\ party[p].state = "idle" /\ Unlocked(pl)
          /\ open' = open \union {Joining(pl, p)} /\ UNCHANGED <<rows, roster, solo, clients>>
      BY <1>13 DEF JoinCode, AcceptInvite, MayJoin, Free, Queued
    <2> QED
      BY <2>1, <2>2, LockTaken
  <1>14. ASSUME NEW pl \in Players, NEW p \in Parties, JoinCommits(pl, p) PROVE PartyInv'
    <2>1. Joining(pl, p) \in open /\ Joining(pl, p).player = pl /\ Joining(pl, p).party = p
          /\ Joining(pl, p).kind = "join"
      BY <1>14 DEF JoinCommits, Joining
    <2>2. /\ partyOf[pl] = NoParty /\ pl \notin solo /\ party[p].state = "idle"
          /\ \A o \in open : o.player = pl => o = Joining(pl, p)
      BY <2>1 DEF PartyInv, LocksHeld
    <2>3. PICK r : r = RosterChanged(party[p])
      OBVIOUS
    <2>4. /\ r \in Row /\ r.version > party[p].version /\ r.rosterVersion > 0 /\ r.state = "idle"
          /\ r.leader = party[p].leader
      BY <1>0, <2>2, <2>3, RowChanged
    <2>5. /\ party' = [party EXCEPT ![p] = r] /\ partyOf' = [partyOf EXCEPT ![pl] = p]
          /\ ready' = NoneReady(Members(p) \union {pl}) /\ open' = open \ {Joining(pl, p)}
          /\ UNCHANGED <<roster, solo, clients>>
      BY <1>14, <2>3 DEF JoinCommits
    <2>6. joined' \in [Players -> Nat]
      BY <1>0, <1>14 DEF JoinCommits, PartyInv, PartyTyped
    <2>7. open' \subseteq open /\ \A o \in open' : o.player # pl
      BY <2>2, <2>5
    <2>8. /\ party[p].state \in {"none", "idle"}
          /\ r.version > party[p].version \/ party[p].state = "none"
          /\ IF party[p].state = "none" THEN r.leader = pl ELSE r.leader = party[p].leader
      BY <2>2, <2>4
    <2> QED
      BY <2>2, <2>4, <2>5, <2>6, <2>7, <2>8, MemberAdded
  <1>15. ASSUME NEW pl \in Players, SoloBegins(pl) PROVE PartyInv'
    <2>1. Queueing(pl) \in Opens /\ Queueing(pl).player = pl /\ Queueing(pl).kind # "join"
      BY DEF Queueing, Opens
    <2> QED
      BY <1>15, <2>1, LockTaken DEF SoloBegins
  <1>16. ASSUME NEW pl \in Players, SoloCommits(pl) PROVE PartyInv'
    <2>1. Queueing(pl) \in open /\ Queueing(pl).player = pl /\ Queueing(pl).kind = "solo"
      BY <1>16 DEF SoloCommits, Queueing
    <2>2. /\ solo' = solo \union {pl} /\ open' = open \ {Queueing(pl)}
          /\ UNCHANGED <<rows, roster, clients>>
      BY <1>16 DEF SoloCommits
    <2>3. partyOf[pl] = NoParty /\ \A o \in open : o.player = pl => o = Queueing(pl)
      BY <2>1 DEF PartyInv, LocksHeld
    <2>4. \A p \in Parties : Members(p)' = Members(p) /\ View(p)' = View(p)
      BY <2>2 DEF Members, View, rows
    <2>5. PartyTyped' /\ SoloApart'
      BY <2>2, <2>3 DEF PartyInv, PartyTyped, SoloApart, rows, clients
    <2>6. LocksHeld'
      BY <2>2, <2>3 DEF PartyInv, LocksHeld, rows
    <2> QED
      BY <2>2, <2>4, <2>5, <2>6
      DEF PartyInv, rows, clients, Unready, Counted, CopiesBehind, QueuedAsOne, InformedReadiness,
          VersionsTell, LeaderInParty, Current
  <1>17. ASSUME NEW pl \in Players, SoloLeaves(pl) \/ DeadlinePasses(pl) PROVE PartyInv'
    BY <1>17, SameParties DEF SoloLeaves, DeadlinePasses
  <1>18. ASSUME NEW p \in Parties, NEW matched \in BOOLEAN, Settle(p, matched) PROVE PartyInv'
    <2>1. /\ party[p].leader \in Members(p) /\ party[p].last \in Nat
      BY <1>0, <1>18 DEF Settle, PartyInv, LeaderInParty, Row
    <2>2. PICK r : r = [party[p] EXCEPT !.state = IF matched THEN "matched" ELSE "idle",
                                        !.last = IF matched THEN @ + 1 ELSE @]
      OBVIOUS
    <2>3. /\ r \in Row /\ r.version = party[p].version /\ r.rosterVersion = party[p].rosterVersion
          /\ r.state \in {"idle", "matched"} /\ r.leader = party[p].leader
      <3> DEFINE state == IF matched THEN "matched" ELSE "idle"
                 last == IF matched THEN party[p].last + 1 ELSE party[p].last
      <3>0. state \in {"idle", "matched"} /\ last \in Nat
        BY <2>1
      <3>1. r = [party[p] EXCEPT !.state = state, !.last = last]
        BY <2>2
      <3> HIDE DEF state, last
      <3>2. r = [state |-> state, leader |-> party[p].leader, version |-> party[p].version,
                 rosterVersion |-> party[p].rosterVersion, settings |-> party[p].settings,
                 last |-> last]
        BY <1>0, <3>1 DEF Row
      <3> QED
        BY <1>0, <3>0, <3>2 DEF Row
    <2>4. PICK w, none : w = RosterChanged(r) /\ none = {}
      OBVIOUS
    <2>5. /\ w \in Row /\ w.version > party[p].version /\ w.rosterVersion > 0
          /\ w.state \in {"idle", "matched"}
          /\ w.leader \in Members(p) \ none /\ none \in SUBSET Members(p)
      BY <1>0, <2>1, <2>3, <2>4, RowChanged
    <2>6. /\ party' = [party EXCEPT ![p] = w] /\ ~RowLocked(p) /\ ready' = NoneReady(Members(p))
          /\ UNCHANGED <<solo, open, clients>> /\ roster' = [roster EXCEPT ![p] = {}]
      BY <1>18, <2>2, <2>4 DEF Settle
    <2>7. /\ partyOf' = [m \in Players |-> IF m \in none THEN NoParty ELSE partyOf[m]]
          /\ joined' \in [Players -> Nat]
      BY <1>18, <2>4 DEF Settle, PartyInv, PartyTyped
    <2> QED
      BY <2>5, <2>6, <2>7, RosterWritten
  <1>19. ASSUME NEW p \in Parties, Sweep(p) PROVE PartyInv'
    BY <1>19, LossWritten DEF Sweep
  <1>20. ASSUME NEW p \in Parties, CodeExpires(p) PROVE PartyInv'
    BY <1>20, SameParties DEF CodeExpires
  <1>21. ASSUME NEW p \in Parties, NEW pl \in Players, InviteExpires(p, pl) PROVE PartyInv'
    BY <1>21, SameParties DEF InviteExpires
  <1>22. ASSUME UNCHANGED vars PROVE PartyInv'
    BY <1>22, SameParties DEF vars
  <1>23. ASSUME NEW pl \in Players, NEW p \in Parties, Act(pl, p) PROVE PartyInv'
    BY <1>1, <1>2, <1>3, <1>4, <1>5, <1>6, <1>7, <1>8, <1>9, <1>10, <1>11, <1>12, <1>13, <1>14,
       <1>23 DEF Act
  <1>24. ASSUME NEW pl \in Loners, SoloBegins(pl) \/ SoloCommits(pl) \/ SoloLeaves(pl) PROVE PartyInv'
    BY <1>15, <1>16, <1>17, <1>24, PartyConstants
  <1> QED
    BY <1>17, <1>18, <1>19, <1>20, <1>21, <1>22, <1>23, <1>24 DEF Next

\* The queue holds a party with exactly the members it has, and a player once:
\* Queue, Cancel, Remove, join, settleEntries, Sweep and the solo trigger, for
\* any players and parties and however long their transactions overlap.
THEOREM PartiesQueueWhole == Spec => []QueueSound
PROOF
  <1>1. PartyInv => QueueSound
    <2> SUFFICES ASSUME PartyInv PROVE OneQueuePlace
      BY DEF PartyInv, QueueSound
    <2> QED
      BY DEF PartyInv, SoloApart, QueuedAsOne, OneQueuePlace, Members
  <1> QED
    BY PartyInitial, PartyStep, <1>1, PTL DEF Spec

\* A client with the current version has the current party, a ready member has
\* seen whom and what it is ready for, and an open party is led by a member: the
\* versions of internal/party, for any players and parties.
THEOREM PartiesStayInformed == Spec => []MembersInformed
PROOF
  <1>1. PartyInv => MembersInformed
    BY DEF PartyInv, MembersInformed
  <1> QED
    BY PartyInitial, PartyStep, <1>1, PTL DEF Spec

-----------------------------------------------------------------------------
(* PartyCodes: the budgets of wrong invite codes *)

\* The rows of both tables, and the requests.
AttemptRows == [exists : BOOLEAN, failures : Nat, start : Nat, left : Int]
RedeemStates == [at : {"idle", "begun", "address", "player"}, player : Redeemers \union {NoRedeem.player},
                 ip : Addresses \union {NoRedeem.ip}, age : Nat]

\* The wrong codes that are remembered of a subject.
Kept(w, limit) == {k \in 1..2 * limit + 1 : w[k] < Forgotten}

\* The remembered codes with one more, in place k, and with a moment more.
Placed(w, k) == [w EXCEPT ![k] = 0]
Older(w, limit) == [k \in 1..2 * limit + 1 |-> IF w[k] = Forgotten THEN Forgotten ELSE w[k] + 1]

\* One more code is remembered, in a place that was free.
OneMore(w, u, k, limit) ==
  /\ u[k] = 0 /\ k \notin Kept(w, limit) /\ Kept(u, limit) = Kept(w, limit) \union {k}
  /\ \A j \in Kept(w, limit) : u[j] = w[j] /\ w[j] \in Nat

\* No code is forgotten too late, and each is a moment older.
NoYounger(w, u, limit) ==
  /\ Kept(u, limit) \subseteq Kept(w, limit)
  /\ \A k \in Kept(u, limit) : u[k] = w[k] + 1 /\ w[k] \in Nat /\ u[k] < Forgotten

\* They were examined before the failure that closed the row.
Covered(row, w, limit) == \A k \in Kept(w, limit) : w[k] + RedeemTime + row.left >= Cooldown

\* They are as old as the window.
AsOld(row, w, limit) == \A k \in Kept(w, limit) : w[k] + RedeemTime >= row.start

\* What a row knows of them.  In an open window they are the window's failures, and less
\* than a budget of older ones, from before it was opened; a full window covers them.
WindowSound(row, w, limit) ==
  /\ row.failures <= Windowful(limit) /\ row.start <= Late /\ row.left >= -RedeemTime
  /\ row.failures = Windowful(limit) => Covered(row, w, limit)
  /\ row.failures >= limit => Covered(row, w, limit) \/ AsOld(row, w, limit)
  /\ row.start < Late =>
       \E Old \in SUBSET Kept(w, limit) :
         /\ Cardinality(Kept(w, limit) \ Old) <= row.failures /\ Cardinality(Old) < limit
         /\ \A k \in Old : w[k] + RedeemTime >= row.start
  /\ row.start >= Late => /\ Cardinality(Kept(w, limit)) <= Windowful(limit)
                          /\ Cardinality(Kept(w, limit)) < limit \/ Covered(row, w, limit)

\* The requests that hold the lock of a subject's row.
Holds(q, s) == \/ redeem[q].at \in {"address", "player"} /\ redeem[q].ip = s
               \/ redeem[q].at = "player" /\ redeem[q].player = s

\* A request knows whose it is, and ends in time.
RequestSound(q) ==
  redeem[q].at # "idle" => redeem[q].player \in Redeemers /\ redeem[q].ip \in Addresses /\ redeem[q].age <= RedeemTime

\* A row stands for what is remembered of its subject; without one, nothing is.
SubjectSound(s) ==
  /\ wrong[s] \in [Places(s) -> 0..Forgotten]
  /\ WindowSound(attempt[s], wrong[s], LimitOf(s))
  /\ ~attempt[s].exists => Kept(wrong[s], LimitOf(s)) = {} /\ attempt[s].left = -RedeemTime

\* One request at a time has a row, and found it open.
LockSound(q, s) ==
  Holds(q, s) => /\ attempt[s].left + redeem[q].age <= 0
                 /\ \A r \in Redemptions \ {q} : ~Holds(r, s)

\* Inductive: together they bound what is remembered.
AttemptsInv ==
  /\ attempt \in [Subjects -> AttemptRows] /\ redeem \in [Redemptions -> RedeemStates] /\ DOMAIN wrong = Subjects
  /\ \A q \in Redemptions : RequestSound(q)
  /\ \A s \in Subjects : SubjectSound(s)
  /\ \A q \in Redemptions, s \in Subjects : LockSound(q, s)

-----------------------------------------------------------------------------

\* The constants as numbers.
LEMMA AttemptNumbers ==
  /\ RedeemTime \in Nat /\ Cooldown \in Nat /\ RedeemTime < Cooldown
  /\ Forgotten \in Nat /\ 0 < Forgotten /\ Forgotten = Cooldown - RedeemTime /\ Late = Cooldown + RedeemTime /\ Late \in Nat
  /\ \A s \in Subjects : LimitOf(s) \in Nat /\ LimitOf(s) >= 1
PROOF
  <1>1. RedeemTime \in Nat /\ Cooldown \in Nat /\ RedeemTime < Cooldown
    BY AttemptsAssumption
  <1>2. \A s \in Subjects : LimitOf(s) \in Nat /\ LimitOf(s) >= 1
    BY AttemptsAssumption DEF LimitOf
  <1> QED
    BY <1>1, <1>2 DEF Forgotten, Late

\* A windowful is the budget, and never one.
LEMMA WindowfulBounds ==
  ASSUME NEW limit \in Nat, limit >= 1
  PROVE  /\ Windowful(limit) \in Nat /\ Windowful(limit) >= 2 /\ limit <= Windowful(limit)
         /\ limit + Windowful(limit) <= 2 * limit + 1
BY DEF Windowful

\* The remembered codes are as many as places at most.
LEMMA KeptFinite ==
  ASSUME NEW limit \in Nat, NEW w
  PROVE  /\ IsFiniteSet(Kept(w, limit)) /\ Cardinality(Kept(w, limit)) \in Nat
         /\ \A S \in SUBSET Kept(w, limit) : /\ IsFiniteSet(S) /\ Cardinality(S) \in Nat
                                             /\ Cardinality(S) <= Cardinality(Kept(w, limit))
PROOF
  <1>1. IsFiniteSet(1..2 * limit + 1)
    BY FS_Interval
  <1>2. Kept(w, limit) \subseteq 1..2 * limit + 1
    BY DEF Kept
  <1>3. IsFiniteSet(Kept(w, limit))
    BY <1>1, <1>2, FS_Subset
  <1> QED
    BY <1>3, FS_Subset, FS_CardinalityType

\* A row that remembers nothing.
LEMMA EmptyWindow ==
  ASSUME NEW limit \in Nat, limit >= 1, NEW w, NEW row \in AttemptRows, Kept(w, limit) = {},
         row.failures <= Windowful(limit), row.start <= Late, row.left >= -RedeemTime
  PROVE  WindowSound(row, w, limit)
PROOF
  <1>1. /\ Cardinality({}) = 0 /\ row.failures \in Nat /\ row.start \in Nat
        /\ Windowful(limit) \in Nat /\ limit <= Windowful(limit)
    BY FS_EmptySet, WindowfulBounds DEF AttemptRows
  <1>2. Covered(row, w, limit)
    BY DEF Covered
  <1>3. \E Old \in SUBSET Kept(w, limit) :
          /\ Cardinality(Kept(w, limit) \ Old) <= row.failures /\ Cardinality(Old) < limit
          /\ \A k \in Old : w[k] + RedeemTime >= row.start
    <2>1. {} \in SUBSET Kept(w, limit) /\ Kept(w, limit) \ {} = {}
      OBVIOUS
    <2>2. Cardinality(Kept(w, limit) \ {}) <= row.failures /\ Cardinality({}) < limit
      BY <1>1, <2>1
    <2> QED
      BY <2>1, <2>2
  <1>4. Cardinality(Kept(w, limit)) <= Windowful(limit) /\ Cardinality(Kept(w, limit)) < limit
    BY <1>1
  <1> QED
    BY <1>2, <1>3, <1>4 DEF WindowSound

\* However a window stands, less than two windows take is remembered.
LEMMA WindowBounds ==
  ASSUME NEW limit \in Nat, limit >= 1, NEW w, NEW row \in AttemptRows, WindowSound(row, w, limit)
  PROVE  Cardinality(Kept(w, limit)) < limit + Windowful(limit)
PROOF
  <1>0. Windowful(limit) \in Nat
    BY WindowfulBounds
  <1>1. row.failures \in Nat /\ row.start \in Nat /\ Late \in Nat /\ row.failures <= Windowful(limit)
    BY AttemptNumbers DEF AttemptRows, WindowSound
  <1>2. CASE row.start < Late
    <2>1. PICK Old \in SUBSET Kept(w, limit) : Cardinality(Kept(w, limit) \ Old) <= row.failures /\ Cardinality(Old) < limit
      BY <1>2 DEF WindowSound
    <2>2. PICK R : R = Kept(w, limit) \ Old
      OBVIOUS
    <2>3. /\ IsFiniteSet(Old) /\ Cardinality(Old) \in Nat /\ IsFiniteSet(R) /\ Cardinality(R) \in Nat
          /\ Old \intersect R = {} /\ Old \union R = Kept(w, limit)
      BY <2>1, <2>2, KeptFinite
    <2>4. Cardinality(Old \intersect R) = 0
      BY <2>3, FS_EmptySet
    <2>5. Cardinality(Old \union R) = Cardinality(Old) + Cardinality(R) - Cardinality(Old \intersect R)
      BY <2>3, FS_Union
    <2>6. Cardinality(Kept(w, limit)) = Cardinality(Old) + Cardinality(R)
      <3>1. PICK a \in Nat, b \in Nat : a = Cardinality(Old) /\ b = Cardinality(R)
        BY <2>3
      <3>2. Cardinality(Old \union R) = a + b - 0
        BY <2>4, <2>5, <3>1
      <3>3. Cardinality(Old \union R) = a + b
        BY <3>2
      <3>4. Cardinality(Old \union R) = Cardinality(Kept(w, limit))
        BY <2>3
      <3> QED
        BY <3>1, <3>3, <3>4
    <2> QED
      BY <1>0, <1>1, <2>1, <2>2, <2>3, <2>6
  <1>3. CASE row.start >= Late
    <2>1. Cardinality(Kept(w, limit)) <= Windowful(limit) /\ Cardinality(Kept(w, limit)) \in Nat
      BY <1>3, KeptFinite DEF WindowSound
    <2> QED
      BY <1>0, <2>1
  <1> QED
    BY <1>1, <1>2, <1>3

\* A failure past its block: what the closed row covered is forgotten.
LEMMA CoveredForgets ==
  ASSUME NEW limit \in Nat, NEW w, NEW row \in AttemptRows, NEW age \in Nat,
         \A k \in Kept(w, limit) : w[k] \in Nat, Covered(row, w, limit), row.left + age <= 0
  PROVE  Kept(w, limit) = {}
PROOF
  <1>1. ASSUME NEW k \in Kept(w, limit) PROVE FALSE
    <2>1. w[k] < Forgotten /\ w[k] \in Nat /\ w[k] + RedeemTime + row.left >= Cooldown
      BY AttemptNumbers DEF Kept, Covered
    <2>2. row.left \in Int
      BY DEF AttemptRows
    <2> QED
      BY <2>1, <2>2, AttemptNumbers
  <1> QED
    BY <1>1

\* The place of one more wrong code.
LEMMA OneMoreKept ==
  ASSUME NEW limit \in Nat, NEW w \in [1..2 * limit + 1 -> 0..Forgotten], NEW k \in 1..2 * limit + 1, w[k] = Forgotten
  PROVE  Placed(w, k) \in [1..2 * limit + 1 -> 0..Forgotten] /\ OneMore(w, Placed(w, k), k, limit)
PROOF
  <1>0. PICK u : u = [w EXCEPT ![k] = 0]
    OBVIOUS
  <1>1. Forgotten \in Nat /\ 0 < Forgotten
    BY AttemptNumbers
  <1>2. u \in [1..2 * limit + 1 -> 0..Forgotten] /\ u[k] = 0
    BY <1>0, <1>1
  <1>3. k \notin Kept(w, limit)
    BY <1>1 DEF Kept
  <1>4. \A j \in 1..2 * limit + 1 : j # k => u[j] = w[j]
    BY <1>0
  <1>5. Kept(u, limit) = Kept(w, limit) \union {k}
    BY <1>1, <1>2, <1>4 DEF Kept
  <1>6. \A j \in Kept(w, limit) : u[j] = w[j] /\ w[j] \in Nat
    BY <1>1, <1>3, <1>4 DEF Kept
  <1> QED
    BY <1>0, <1>2, <1>3, <1>5, <1>6 DEF Placed, OneMore

\* party_code_ip_limit and its like for players: a failure is charged to the window that
\* is open, or opens one, and no budget is exceeded by it.
LEMMA ChargeSound ==
  ASSUME NEW limit \in Nat, limit >= 1, NEW w, NEW u, NEW k, NEW row \in AttemptRows, NEW age \in Nat,
         WindowSound(row, w, limit), age <= RedeemTime, row.left + age <= 0,
         OneMore(w, u, k, limit)
  PROVE  /\ Wrong(row, limit, age) \in AttemptRows /\ Wrong(row, limit, age).exists = row.exists
         /\ WindowSound(Wrong(row, limit, age), u, limit)
PROOF
  <1>1. /\ RedeemTime \in Nat /\ Cooldown \in Nat /\ RedeemTime < Cooldown /\ Late = Cooldown + RedeemTime
        /\ Forgotten = Cooldown - RedeemTime
        /\ Windowful(limit) \in Nat /\ Windowful(limit) >= 2 /\ limit <= Windowful(limit)
    BY AttemptNumbers, WindowfulBounds
  <1>2. /\ row.failures \in Nat /\ row.start \in Nat /\ row.left \in Int
        /\ row.failures <= Windowful(limit) /\ row.start <= Late
    BY DEF AttemptRows, WindowSound
  <1>3. /\ u[k] = 0 /\ k \notin Kept(w, limit)
        /\ Kept(u, limit) = Kept(w, limit) \union {k}
        /\ \A j \in Kept(w, limit) : u[j] = w[j] /\ w[j] \in Nat
    BY DEF OneMore
  <1>4. PICK K : K = Kept(w, limit)
    OBVIOUS
  <1>5. IsFiniteSet(K) /\ Cardinality(K) \in Nat /\ \A S \in SUBSET K : IsFiniteSet(S) /\ Cardinality(S) \in Nat
    BY <1>4, KeptFinite
  <1>6. PICK n : n = Wrong(row, limit, age)
    OBVIOUS
  <1>7. PICK f, t, l : /\ f = IF row.start - age >= Cooldown THEN 1
                              ELSE IF row.failures = Windowful(limit) THEN row.failures ELSE row.failures + 1
                       /\ t = IF row.start - age >= Cooldown THEN age ELSE row.start
                       /\ l = IF ~(row.start - age >= Cooldown) /\ row.failures + 1 >= limit THEN Cooldown - age ELSE -RedeemTime
    OBVIOUS
  <1>8. n = [row EXCEPT !.failures = f, !.start = t, !.left = l]
    BY <1>6, <1>7 DEF Wrong
  <1>9. f \in Nat /\ t \in Nat /\ l \in Int
    BY <1>1, <1>2, <1>7
  <1>10. n \in AttemptRows /\ n.failures = f /\ n.start = t /\ n.left = l
    BY <1>8, <1>9 DEF AttemptRows
  <1>11. n.exists = row.exists
    BY <1>8 DEF AttemptRows
  <1>12. f <= Windowful(limit) /\ t <= Late /\ l >= -RedeemTime
    <2>1. f <= Windowful(limit)
      <3>1. CASE row.start - age >= Cooldown
        BY <1>1, <1>7, <3>1
      <3>2. CASE ~(row.start - age >= Cooldown) /\ row.failures = Windowful(limit)
        BY <1>1, <1>7, <3>2
      <3>3. CASE ~(row.start - age >= Cooldown) /\ row.failures # Windowful(limit)
        BY <1>1, <1>2, <1>7, <3>3
      <3> QED
        BY <3>1, <3>2, <3>3
    <2>2. t <= Late
      BY <1>1, <1>2, <1>7
    <2>3. l >= -RedeemTime
      <3>1. l = Cooldown - age \/ l = -RedeemTime
        BY <1>7
      <3> QED
        BY <1>1, <3>1
    <2> QED
      BY <2>1, <2>2, <2>3
  <1>0. Covered(row, w, limit) => K = {}
    <2>1. \A j \in Kept(w, limit) : w[j] \in Nat
      BY <1>3
    <2> QED
      BY <1>4, <2>1, CoveredForgets
  <1>13. row.failures = Windowful(limit) => K = {}
    BY <1>0 DEF WindowSound
  <1>14. CASE row.start - age >= Cooldown
    <2>1. f = 1 /\ t = age /\ l = -RedeemTime
      BY <1>7, <1>14
    <2>2. Cardinality(K) < limit
      <3>1. CASE K = {}
        BY <3>1, FS_EmptySet
      <3>2. CASE K # {} /\ row.start < Late
        <4>1. PICK Old \in SUBSET K : Cardinality(K \ Old) <= row.failures /\ \A j \in Old : w[j] + RedeemTime >= row.start
          BY <1>4, <3>2 DEF WindowSound
        <4>2. ASSUME NEW j \in Old PROVE FALSE
          <5>1. w[j] < Forgotten /\ w[j] \in Nat /\ w[j] + RedeemTime >= row.start
            BY <1>3, <1>4, <4>1, <4>2 DEF Kept
          <5> QED
            BY <1>1, <1>2, <1>14, <5>1
        <4>3. K \ Old = K
          BY <4>2
        <4>4. ~(row.failures >= limit)
          <5>1. ASSUME AsOld(row, w, limit), NEW j \in K PROVE FALSE
            <6>1. w[j] < Forgotten /\ w[j] \in Nat /\ w[j] + RedeemTime >= row.start
              BY <1>3, <1>4, <5>1 DEF Kept, AsOld
            <6> QED
              BY <1>1, <1>2, <1>14, <6>1
          <5> QED
            BY <1>0, <3>2, <5>1 DEF WindowSound
        <4>5. Cardinality(K) <= row.failures
          BY <4>1, <4>3
        <4> QED
          BY <1>2, <1>5, <4>4, <4>5
      <3>3. CASE K # {} /\ row.start >= Late
        <4>1. ~Covered(row, w, limit)
          BY <1>0, <3>3
        <4> QED
          BY <1>4, <3>3, <4>1 DEF WindowSound
      <3> QED
        BY <1>1, <1>2, <3>1, <3>2, <3>3
    <2>3. K \in SUBSET Kept(u, limit) /\ Kept(u, limit) \ K = {k}
      BY <1>3, <1>4
    <2>4. Cardinality({k}) = 1
      BY FS_Singleton
    <2>5. \A j \in K : u[j] + RedeemTime >= t
      BY <1>1, <1>3, <1>4, <2>1
    <2>6. t < Late
      BY <1>1, <2>1
    <2> QED
      <3>1. \E Old \in SUBSET Kept(u, limit) :
              /\ Cardinality(Kept(u, limit) \ Old) <= f /\ Cardinality(Old) < limit
              /\ \A j \in Old : u[j] + RedeemTime >= t
        <4>1. Cardinality(Kept(u, limit) \ K) <= f
          BY <2>1, <2>3, <2>4
        <4> QED
          BY <2>2, <2>3, <2>5, <4>1
      <3>2. f # Windowful(limit) /\ ~(t >= Late)
        BY <1>1, <2>1, <2>6
      <3>3. AsOld(n, u, limit)
        <4> SUFFICES ASSUME NEW j \in Kept(u, limit) PROVE u[j] + RedeemTime >= t
          BY <1>10 DEF AsOld
        <4>1. CASE j = k
          BY <1>1, <1>3, <2>1, <4>1
        <4>2. CASE j \in K
          BY <2>5, <4>2
        <4> QED
          BY <1>3, <1>4, <4>1, <4>2
      <3>4. WindowSound(n, u, limit)
        BY <1>10, <1>12, <3>1, <3>2, <3>3 DEF WindowSound
      <3> QED
        BY <1>6, <1>10, <1>11, <3>4
  <1>15. CASE ~(row.start - age >= Cooldown)
    <2>1. row.start < Late /\ t = row.start
      BY <1>1, <1>2, <1>7, <1>15
    <2>2. PICK Old \in SUBSET K : /\ Cardinality(K \ Old) <= row.failures /\ Cardinality(Old) < limit
                                  /\ \A j \in Old : w[j] + RedeemTime >= row.start
      BY <1>4, <2>1 DEF WindowSound
    <2>3. Kept(u, limit) \ Old = (K \ Old) \union {k} /\ Old \in SUBSET Kept(u, limit) /\ k \notin K \ Old
      BY <1>3, <1>4, <2>2
    <2>4. Cardinality((K \ Old) \union {k}) = Cardinality(K \ Old) + 1 /\ Cardinality(K \ Old) \in Nat
      <3>1. IsFiniteSet(K \ Old) /\ Cardinality(K \ Old) \in Nat
        BY <1>5
      <3> QED
        BY <2>3, <3>1, FS_AddElement
    <2>5. Cardinality(K \ Old) + 1 <= f
      <3>1. CASE row.failures = Windowful(limit)
        <4>1. K \ Old = {} /\ Cardinality({}) = 0
          BY <1>13, <3>1, FS_EmptySet
        <4>2. f = Windowful(limit)
          BY <1>7, <1>15, <3>1
        <4> QED
          BY <1>1, <4>1, <4>2
      <3>2. CASE row.failures # Windowful(limit)
        <4>1. f = row.failures + 1
          BY <1>7, <1>15, <3>2
        <4> QED
          BY <1>2, <2>2, <2>4, <4>1
      <3> QED
        BY <3>1, <3>2
    <2>6. \A j \in Old : u[j] + RedeemTime >= t
      BY <1>3, <1>4, <2>1, <2>2
    <2>7. f >= limit => Covered(n, u, limit)
      <3> SUFFICES ASSUME f >= limit, NEW j \in Kept(u, limit) PROVE u[j] + RedeemTime + l >= Cooldown
        BY <1>10 DEF Covered
      <3>1. row.failures + 1 >= limit
        BY <1>1, <1>2, <1>7, <1>15
      <3>2. l = Cooldown - age
        BY <1>7, <1>15, <3>1
      <3>3. u[j] \in Nat
        BY <1>3
      <3> QED
        BY <1>1, <3>2, <3>3
    <2>8. \E O \in SUBSET Kept(u, limit) :
            /\ Cardinality(Kept(u, limit) \ O) <= f /\ Cardinality(O) < limit
            /\ \A j \in O : u[j] + RedeemTime >= t
      <3>1. Cardinality(Kept(u, limit) \ Old) <= f
        BY <2>3, <2>4, <2>5
      <3> QED
        BY <2>2, <2>3, <2>6, <3>1
    <2>9. ~(t >= Late)
      BY <1>1, <1>2, <2>1
    <2>10. WindowSound(n, u, limit)
      BY <1>1, <1>10, <1>12, <2>7, <2>8, <2>9 DEF WindowSound
    <2> QED
      BY <1>6, <1>10, <1>11, <2>10
  <1> QED
    BY <1>14, <1>15

\* Time passes for a row and for what it remembers.
LEMMA AgeSound ==
  ASSUME NEW limit \in Nat, limit >= 1, NEW w, NEW u, NEW row \in AttemptRows, row.exists, WindowSound(row, w, limit),
         NoYounger(w, u, limit)
  PROVE  /\ AttemptAged(row) \in AttemptRows /\ AttemptAged(row).exists = row.exists
         /\ AttemptAged(row).left = row.left - 1 \/ AttemptAged(row).left = -RedeemTime
         /\ WindowSound(AttemptAged(row), u, limit)
PROOF
  <1>1. /\ RedeemTime \in Nat /\ Cooldown \in Nat /\ RedeemTime < Cooldown /\ Late = Cooldown + RedeemTime
        /\ Forgotten = Cooldown - RedeemTime /\ Forgotten \in Nat
        /\ Windowful(limit) \in Nat /\ Windowful(limit) >= 2 /\ limit <= Windowful(limit)
    BY AttemptNumbers, WindowfulBounds
  <1>2. /\ row.failures \in Nat /\ row.start \in Nat /\ row.left \in Int
        /\ row.failures <= Windowful(limit) /\ row.start <= Late
        /\ row.left >= -RedeemTime
    BY DEF AttemptRows, WindowSound
  <1>4. Kept(u, limit) \subseteq Kept(w, limit) /\ \A k \in Kept(u, limit) : u[k] = w[k] + 1 /\ w[k] \in Nat /\ u[k] < Forgotten
    BY DEF NoYounger
  <1>5. PICK K, L : K = Kept(w, limit) /\ L = Kept(u, limit)
    OBVIOUS
  <1>6. /\ Cardinality(K) \in Nat /\ Cardinality(L) \in Nat /\ Cardinality(L) <= Cardinality(K)
        /\ IsFiniteSet(K) /\ \A S \in SUBSET K : IsFiniteSet(S) /\ Cardinality(S) \in Nat
    BY <1>4, <1>5, KeptFinite
  <1>7. PICK n : n = AttemptAged(row)
    OBVIOUS
  <1>8. PICK f, t, l : /\ t = IF row.start = Late THEN Late ELSE row.start + 1
                       /\ f = IF row.start + 1 >= Late THEN 0 ELSE row.failures
                       /\ l = IF row.left = -RedeemTime THEN -RedeemTime ELSE row.left - 1
    OBVIOUS
  <1>9. n = [row EXCEPT !.start = t, !.failures = f, !.left = l]
    BY <1>7, <1>8 DEF AttemptAged
  <1>10. f \in Nat /\ t \in Nat /\ l \in Int /\ f <= Windowful(limit) /\ t <= Late /\ l >= -RedeemTime /\ l >= row.left - 1
    BY <1>1, <1>2, <1>8
  <1>11. n \in AttemptRows /\ n.failures = f /\ n.start = t /\ n.left = l
    BY <1>9, <1>10 DEF AttemptRows
  <1>12. n.exists = row.exists
    BY <1>9 DEF AttemptRows
  <1>13. Covered(row, w, limit) => Covered(n, u, limit)
    <2> SUFFICES ASSUME Covered(row, w, limit), NEW k \in Kept(u, limit) PROVE u[k] + RedeemTime + l >= Cooldown
      BY <1>11 DEF Covered
    <2>1. w[k] + RedeemTime + row.left >= Cooldown /\ u[k] = w[k] + 1 /\ w[k] \in Nat
      BY <1>4 DEF Covered
    <2> QED
      BY <1>1, <1>2, <1>10, <2>1
  <1>14. l = row.left - 1 \/ l = -RedeemTime
    BY <1>8
  <1>15. CASE row.start + 1 < Late
    <2>1. f = row.failures /\ t = row.start + 1
      BY <1>1, <1>2, <1>8, <1>15
    <2>2. PICK Old \in SUBSET K : /\ Cardinality(K \ Old) <= row.failures /\ Cardinality(Old) < limit
                                  /\ \A j \in Old : w[j] + RedeemTime >= row.start
      <3>1. row.start < Late
        BY <1>1, <1>2, <1>15
      <3> QED
        BY <1>5, <3>1 DEF WindowSound
    <2>3. PICK O : O = Old \intersect L
      OBVIOUS
    <2>4. O \in SUBSET L /\ O \subseteq Old /\ L \ O \subseteq K \ Old
      BY <1>4, <1>5, <2>2, <2>3
    <2>5. Cardinality(L \ O) <= f /\ Cardinality(O) < limit
      <3>1. /\ IsFiniteSet(K \ Old) /\ Cardinality(K \ Old) \in Nat
            /\ IsFiniteSet(Old) /\ Cardinality(Old) \in Nat
        BY <1>6, <2>2
      <3>2. /\ Cardinality(L \ O) <= Cardinality(K \ Old) /\ Cardinality(L \ O) \in Nat
            /\ Cardinality(O) <= Cardinality(Old) /\ Cardinality(O) \in Nat
        BY <2>4, <3>1, FS_Subset, FS_CardinalityType
      <3> QED
        BY <1>2, <2>1, <2>2, <3>1, <3>2
    <2>6. \A j \in O : u[j] + RedeemTime >= t
      <3> SUFFICES ASSUME NEW j \in O PROVE u[j] + RedeemTime >= t
        OBVIOUS
      <3>1. u[j] = w[j] + 1 /\ w[j] \in Nat /\ w[j] + RedeemTime >= row.start
        BY <1>4, <1>5, <2>2, <2>4
      <3> QED
        BY <1>1, <1>2, <2>1, <3>1
    <2>7. ~(t >= Late)
      BY <1>1, <1>2, <1>15, <2>1
    <2>8. f = Windowful(limit) => Covered(n, u, limit)
      BY <1>13, <2>1 DEF WindowSound
    <2>9. AsOld(row, w, limit) => AsOld(n, u, limit)
      <3> SUFFICES ASSUME AsOld(row, w, limit), NEW j \in Kept(u, limit) PROVE u[j] + RedeemTime >= t
        BY <1>11 DEF AsOld
      <3>1. u[j] = w[j] + 1 /\ w[j] \in Nat /\ w[j] + RedeemTime >= row.start
        BY <1>4 DEF AsOld
      <3> QED
        BY <1>1, <1>2, <2>1, <3>1
    <2>10. f >= limit => Covered(n, u, limit) \/ AsOld(n, u, limit)
      BY <1>13, <2>1, <2>9 DEF WindowSound
    <2>11. WindowSound(n, u, limit)
      BY <1>5, <1>10, <1>11, <2>4, <2>5, <2>6, <2>7, <2>8, <2>10 DEF WindowSound
    <2> QED
      BY <1>7, <1>11, <1>12, <1>14, <2>11
  <1>16. CASE row.start + 1 >= Late
    <2>1. f = 0 /\ t = Late
      BY <1>1, <1>2, <1>8, <1>16
    <2>2. Cardinality(L) <= Windowful(limit) /\ (Cardinality(L) < limit \/ Covered(n, u, limit))
      <3>1. CASE row.start < Late
        <4>1. PICK Old \in SUBSET K : /\ Cardinality(K \ Old) <= row.failures
                                      /\ \A j \in Old : w[j] + RedeemTime >= row.start
          BY <1>5, <3>1 DEF WindowSound
        <4>2. L \subseteq K \ Old
          <5> SUFFICES ASSUME NEW j \in L, j \in Old PROVE FALSE
            BY <1>4, <1>5
          <5>1. u[j] = w[j] + 1 /\ w[j] \in Nat /\ u[j] < Forgotten /\ w[j] + RedeemTime >= row.start
            BY <1>4, <1>5, <4>1
          <5> QED
            BY <1>1, <1>2, <1>16, <5>1
        <4>3. Cardinality(L) <= Cardinality(K \ Old) /\ Cardinality(K \ Old) \in Nat
          <5>1. IsFiniteSet(K \ Old) /\ Cardinality(K \ Old) \in Nat
            BY <1>6
          <5> QED
            BY <4>2, <5>1, FS_Subset
        <4>4. Cardinality(L) <= row.failures
          BY <1>2, <1>6, <4>1, <4>3
        <4>5. AsOld(row, w, limit) => Cardinality(L) = 0
          <5> SUFFICES ASSUME AsOld(row, w, limit) PROVE L = {}
            BY FS_EmptySet
          <5>1. ASSUME NEW j \in L PROVE FALSE
            <6>1. u[j] = w[j] + 1 /\ w[j] \in Nat /\ u[j] < Forgotten /\ w[j] + RedeemTime >= row.start
              BY <1>4, <1>5 DEF AsOld
            <6> QED
              BY <1>1, <1>2, <1>16, <6>1
          <5> QED
            BY <5>1
        <4>6. row.failures >= limit => Covered(n, u, limit) \/ Cardinality(L) = 0
          BY <1>13, <4>5 DEF WindowSound
        <4> QED
          BY <1>1, <1>2, <1>6, <4>4, <4>6
      <3>2. CASE row.start >= Late
        <4>1. Cardinality(K) <= Windowful(limit) /\ (Cardinality(K) < limit \/ Covered(row, w, limit))
          BY <1>5, <3>2 DEF WindowSound
        <4> QED
          BY <1>1, <1>6, <1>13, <4>1
      <3> QED
        BY <1>1, <1>2, <3>1, <3>2
    <2>3. ~(t < Late) /\ f # Windowful(limit) /\ ~(f >= limit)
      BY <1>1, <2>1
    <2>4. WindowSound(n, u, limit)
      BY <1>5, <1>10, <1>11, <2>2, <2>3 DEF WindowSound
    <2> QED
      BY <1>7, <1>11, <1>12, <1>14, <2>4
  <1>17. row.start + 1 < Late \/ row.start + 1 >= Late
    BY <1>1, <1>2
  <1> QED
    BY <1>15, <1>16, <1>17

\* There is a place for one more code.
LEMMA FreePlace ==
  ASSUME NEW limit \in Nat, NEW w \in [1..2 * limit + 1 -> 0..Forgotten], Cardinality(Kept(w, limit)) < 2 * limit + 1
  PROVE  \E k \in 1..2 * limit + 1 : w[k] = Forgotten
PROOF
  <1>1. SUFFICES ASSUME \A k \in 1..2 * limit + 1 : w[k] # Forgotten PROVE FALSE
    OBVIOUS
  <1>2. \A k \in 1..2 * limit + 1 : w[k] < Forgotten
    BY <1>1, AttemptNumbers
  <1>3. Kept(w, limit) = 1..2 * limit + 1
    BY <1>2 DEF Kept
  <1>4. PICK m \in Nat : m = 2 * limit + 1
    OBVIOUS
  <1>5. Cardinality(1..m) = m
    <2>1. Cardinality(1..m) = IF 1 > m THEN 0 ELSE m - 1 + 1
      BY FS_Interval
    <2> QED
      BY <2>1
  <1>6. Cardinality(Kept(w, limit)) = m
    BY <1>3, <1>4, <1>5
  <1> QED
    BY <1>4, <1>6

\* Time passes for the codes.
LEMMA AgedKept ==
  ASSUME NEW limit \in Nat, NEW w \in [1..2 * limit + 1 -> 0..Forgotten]
  PROVE  Older(w, limit) \in [1..2 * limit + 1 -> 0..Forgotten] /\ NoYounger(w, Older(w, limit), limit)
PROOF
  <1>0. PICK u : u = [k \in 1..2 * limit + 1 |-> IF w[k] = Forgotten THEN Forgotten ELSE w[k] + 1]
    OBVIOUS
  <1>1. Forgotten \in Nat
    BY AttemptNumbers
  <1>2. ASSUME NEW k \in 1..2 * limit + 1
        PROVE  u[k] \in 0..Forgotten /\ (u[k] < Forgotten => w[k] < Forgotten /\ u[k] = w[k] + 1 /\ w[k] \in Nat)
    <2>1. u[k] = IF w[k] = Forgotten THEN Forgotten ELSE w[k] + 1
      BY <1>0
    <2>2. w[k] \in 0..Forgotten
      OBVIOUS
    <2> QED
      BY <1>1, <2>1, <2>2
  <1>3. u \in [1..2 * limit + 1 -> 0..Forgotten]
    BY <1>0, <1>2
  <1> QED
    BY <1>0, <1>2, <1>3 DEF Kept, Older, NoYounger

-----------------------------------------------------------------------------

\* A subject starts, and starts afresh, with no code remembered.
LEMMA NoneKept ==
  ASSUME NEW s \in Subjects
  PROVE  NoneWrong(s) \in [Places(s) -> 0..Forgotten] /\ Kept(NoneWrong(s), LimitOf(s)) = {}
PROOF
  <1>1. PICK limit \in Nat : limit = LimitOf(s)
    BY AttemptNumbers
  <1>2. Forgotten \in Nat
    BY AttemptNumbers
  <1>3. PICK w : w = [k \in 1..2 * limit + 1 |-> Forgotten]
    OBVIOUS
  <1>4. w \in [1..2 * limit + 1 -> 0..Forgotten] /\ \A k \in 1..2 * limit + 1 : w[k] = Forgotten
    BY <1>2, <1>3
  <1>5. Kept(w, limit) = {}
    BY <1>2, <1>4 DEF Kept
  <1>6. NoneWrong(s) = w /\ Places(s) = 1..2 * limit + 1
    BY <1>1, <1>3 DEF NoneWrong, Places
  <1> QED
    BY <1>1, <1>4, <1>5, <1>6

\* A row that was just inserted.
LEMMA NewRow ==
  ASSUME NEW age \in Nat, NEW n, n = NewAttempts(age)
  PROVE  n \in AttemptRows /\ n.exists /\ n.failures = 0 /\ n.start = age /\ n.left = -RedeemTime
PROOF
  <1>1. -RedeemTime \in Int
    BY AttemptNumbers
  <1> QED
    BY <1>1 DEF NewAttempts, AttemptRows

\* At the start there are no rows.
LEMMA AttemptsInitial == AttemptsInit => AttemptsInv
PROOF
  <1> SUFFICES ASSUME AttemptsInit PROVE AttemptsInv
    OBVIOUS
  <1>1. RedeemTime \in Nat /\ Forgotten \in Nat /\ Late \in Nat /\ -RedeemTime \in Int
    BY AttemptNumbers
  <1>2. NoAttempts \in AttemptRows /\ ~NoAttempts.exists /\ NoAttempts.failures = 0 /\ NoAttempts.start = 0 /\ NoAttempts.left = -RedeemTime
    BY <1>1 DEF NoAttempts, AttemptRows
  <1>3. NoRedeem \in RedeemStates /\ NoRedeem.at = "idle"
    BY DEF NoRedeem, RedeemStates
  <1>4. /\ attempt \in [Subjects -> AttemptRows] /\ redeem \in [Redemptions -> RedeemStates] /\ DOMAIN wrong = Subjects
        /\ \A s \in Subjects : attempt[s] = NoAttempts /\ wrong[s] = NoneWrong(s)
        /\ \A q \in Redemptions : redeem[q].at = "idle"
    BY <1>2, <1>3 DEF AttemptsInit
  <1>5. ASSUME NEW s \in Subjects PROVE SubjectSound(s)
    <2>1. LimitOf(s) \in Nat /\ LimitOf(s) >= 1
      BY AttemptNumbers
    <2>2. wrong[s] \in [Places(s) -> 0..Forgotten] /\ Kept(wrong[s], LimitOf(s)) = {}
      BY <1>4, NoneKept
    <2>3. WindowSound(attempt[s], wrong[s], LimitOf(s))
      BY <1>1, <1>2, <1>4, <2>1, <2>2, EmptyWindow, WindowfulBounds
    <2> QED
      BY <1>2, <1>4, <2>2, <2>3 DEF SubjectSound
  <1> QED
    BY <1>4, <1>5 DEF AttemptsInv, RequestSound, LockSound, Holds

\* INSERT ... ON CONFLICT DO NOTHING takes nothing from a row, and blocks nobody.
LEMMA RowAtSound ==
  ASSUME AttemptsInv, NEW s \in Subjects, NEW age \in Nat, age <= RedeemTime
  PROVE  /\ RowAt(s, age) \in AttemptRows /\ RowAt(s, age).exists /\ RowAt(s, age).left = attempt[s].left
         /\ WindowSound(RowAt(s, age), wrong[s], LimitOf(s))
PROOF
  <1>1. RedeemTime \in Nat /\ Cooldown \in Nat /\ Late = Cooldown + RedeemTime /\ -RedeemTime \in Int
        /\ LimitOf(s) \in Nat /\ LimitOf(s) >= 1
    BY AttemptNumbers
  <1>2. SubjectSound(s) /\ attempt[s] \in AttemptRows
    BY DEF AttemptsInv
  <1>3. CASE attempt[s].exists
    BY <1>2, <1>3 DEF RowAt, SubjectSound
  <1>4. CASE ~attempt[s].exists
    <2>1. PICK n : n = NewAttempts(age)
      OBVIOUS
    <2>2. RowAt(s, age) = n
      BY <1>4, <2>1 DEF RowAt
    <2>3. n \in AttemptRows /\ n.exists /\ n.failures = 0 /\ n.start = age /\ n.left = -RedeemTime
      BY <2>1, NewRow
    <2>4. Kept(wrong[s], LimitOf(s)) = {} /\ attempt[s].left = -RedeemTime
      BY <1>2, <1>4 DEF SubjectSound
    <2>5. n.failures <= Windowful(LimitOf(s)) /\ n.start <= Late /\ n.left >= -RedeemTime
      BY <1>1, <2>3, WindowfulBounds
    <2>6. WindowSound(n, wrong[s], LimitOf(s))
      BY <1>1, <2>3, <2>4, <2>5, EmptyWindow
    <2> QED
      BY <2>2, <2>3, <2>4, <2>6
  <1> QED
    BY <1>3, <1>4

\* The row and the codes of a subject that nothing happens to.
LEMMA SubjectKept ==
  ASSUME NEW s \in Subjects, SubjectSound(s), attempt'[s] = attempt[s], wrong'[s] = wrong[s]
  PROVE  SubjectSound(s)'
BY DEF SubjectSound, WindowSound, Covered

\* A row that was inserted and then committed without a failure.
LEMMA SubjectInserted ==
  ASSUME AttemptsInv, NEW s \in Subjects, NEW age \in Nat, age <= RedeemTime,
         attempt'[s] = RowAt(s, age), wrong'[s] = wrong[s]
  PROVE  SubjectSound(s)'
PROOF
  <1>1. RowAt(s, age).exists /\ WindowSound(RowAt(s, age), wrong[s], LimitOf(s))
    BY RowAtSound
  <1>2. wrong[s] \in [Places(s) -> 0..Forgotten]
    BY DEF AttemptsInv, SubjectSound
  <1>3. PICK n : n = RowAt(s, age)
    OBVIOUS
  <1> QED
    BY <1>1, <1>2, <1>3 DEF SubjectSound, WindowSound, Covered

\* A transaction that ends gives up its rows, and wrote no others.
LEMMA RequestEnds ==
  ASSUME AttemptsInv, NEW r \in Redemptions, redeem' = [redeem EXCEPT ![r] = NoRedeem],
         attempt' \in [Subjects -> AttemptRows], DOMAIN wrong' = Subjects,
         \A s \in Subjects : SubjectSound(s)', \A s \in Subjects : ~Holds(r, s) => attempt'[s] = attempt[s]
  PROVE  AttemptsInv'
PROOF
  <1>1. NoRedeem \in RedeemStates /\ NoRedeem.at = "idle"
    BY DEF NoRedeem, RedeemStates
  <1>2. /\ redeem' \in [Redemptions -> RedeemStates] /\ redeem'[r].at = "idle"
        /\ \A q \in Redemptions \ {r} : redeem'[q] = redeem[q]
    BY <1>1 DEF AttemptsInv
  <1>3. ASSUME NEW q \in Redemptions PROVE RequestSound(q)'
    BY <1>2 DEF AttemptsInv, RequestSound
  <1>4. \A q \in Redemptions, s \in Subjects : Holds(q, s)' => q # r /\ Holds(q, s)
    BY <1>2 DEF Holds
  <1>5. ASSUME NEW q \in Redemptions, NEW s \in Subjects PROVE LockSound(q, s)'
    <2> SUFFICES ASSUME Holds(q, s)'
                 PROVE  attempt'[s].left + redeem'[q].age <= 0 /\ \A t \in Redemptions \ {q} : ~Holds(t, s)'
      BY DEF LockSound
    <2>1. Holds(q, s) /\ q # r
      BY <1>4
    <2>2. attempt[s].left + redeem[q].age <= 0 /\ \A t \in Redemptions \ {q} : ~Holds(t, s)
      BY <2>1 DEF AttemptsInv, LockSound
    <2>3. attempt'[s] = attempt[s] /\ redeem'[q] = redeem[q]
      BY <1>2, <2>1, <2>2
    <2> QED
      BY <1>4, <2>2, <2>3
  <1> QED
    BY <1>2, <1>3, <1>5 DEF AttemptsInv

\* What the invariant says of one request.
LEMMA OneRequest ==
  ASSUME AttemptsInv, NEW r \in Redemptions, redeem[r].at # "idle"
  PROVE  /\ redeem[r].player \in Redeemers /\ redeem[r].ip \in Addresses
         /\ redeem[r].player \in Subjects /\ redeem[r].ip \in Subjects
         /\ redeem[r].age \in Nat /\ redeem[r].age <= RedeemTime
BY DEF AttemptsInv, RequestSound, RedeemStates, Subjects

\* JoinCode begins: nothing is locked.
LEMMA BeginRedeemHolds ==
  ASSUME AttemptsInv, NEW r \in Redemptions, NEW p \in Redeemers, NEW i \in Addresses, BeginRedeem(r, p, i)
  PROVE  AttemptsInv'
PROOF
  <1>1. PICK n : n = [at |-> "begun", player |-> p, ip |-> i, age |-> 0]
    OBVIOUS
  <1>2. n \in RedeemStates /\ n.at = "begun" /\ n.player = p /\ n.ip = i /\ n.age = 0
    BY <1>1 DEF RedeemStates
  <1>3. redeem' = [redeem EXCEPT ![r] = n] /\ attempt' = attempt /\ wrong' = wrong
    BY <1>1 DEF BeginRedeem
  <1>4. /\ redeem' \in [Redemptions -> RedeemStates] /\ redeem'[r] = n
        /\ \A q \in Redemptions \ {r} : redeem'[q] = redeem[q]
    BY <1>2, <1>3 DEF AttemptsInv
  <1>5. 0 <= RedeemTime
    BY AttemptNumbers
  <1>6. ASSUME NEW q \in Redemptions PROVE RequestSound(q)'
    BY <1>2, <1>4, <1>5 DEF AttemptsInv, RequestSound
  <1>7. ASSUME NEW s \in Subjects PROVE SubjectSound(s)'
    BY <1>3, SubjectKept DEF AttemptsInv
  <1>8. \A q \in Redemptions, s \in Subjects : Holds(q, s)' => Holds(q, s) /\ redeem'[q] = redeem[q]
    BY <1>2, <1>4 DEF Holds
  <1>9. ASSUME NEW q \in Redemptions, NEW s \in Subjects PROVE LockSound(q, s)'
    BY <1>3, <1>8 DEF AttemptsInv, LockSound
  <1> QED
    BY <1>3, <1>4, <1>6, <1>7, <1>9 DEF AttemptsInv

\* FOR UPDATE: a request gets a row that no other has, and finds it open.
LEMMA RowGranted ==
  ASSUME AttemptsInv, NEW r \in Redemptions, NEW n \in RedeemStates, NEW s \in Subjects,
         redeem[r].at # "idle", n.player = redeem[r].player, n.ip = redeem[r].ip, n.age = redeem[r].age,
         SubjectFree(r, s), ~Blocked(s, redeem[r].age),
         redeem' = [redeem EXCEPT ![r] = n], attempt' = attempt, wrong' = wrong,
         \A t \in Subjects : Holds(r, t)' => t = s \/ Holds(r, t)
  PROVE  AttemptsInv'
PROOF
  <1>1. /\ redeem' \in [Redemptions -> RedeemStates] /\ redeem'[r] = n
        /\ \A q \in Redemptions \ {r} : redeem'[q] = redeem[q]
    BY DEF AttemptsInv
  <1>2. ASSUME NEW q \in Redemptions PROVE RequestSound(q)'
    BY <1>1 DEF AttemptsInv, RequestSound
  <1>3. ASSUME NEW t \in Subjects PROVE SubjectSound(t)'
    BY SubjectKept DEF AttemptsInv
  <1>4. \A q \in Redemptions \ {r}, t \in Subjects : Holds(q, t)' <=> Holds(q, t)
    BY <1>1 DEF Holds
  <1>5. \A q \in Redemptions \ {r} : ~Holds(q, s)
    BY DEF SubjectFree, Holds
  <1>6. redeem'[r].age = redeem[r].age /\ attempt[s].left + redeem[r].age <= 0
    <2>1. attempt[s].left \in Int /\ redeem[r].age \in Nat
      BY OneRequest DEF AttemptsInv, AttemptRows
    <2> QED
      BY <1>1, <2>1 DEF Blocked
  <1>7. ASSUME NEW q \in Redemptions, NEW t \in Subjects PROVE LockSound(q, t)'
    <2> SUFFICES ASSUME Holds(q, t)'
                 PROVE  attempt[t].left + redeem'[q].age <= 0 /\ \A o \in Redemptions \ {q} : ~Holds(o, t)'
      BY DEF LockSound
    <2>1. CASE q = r /\ t = s
      BY <1>4, <1>5, <1>6, <2>1
    <2>2. CASE q = r /\ t # s
      <3>1. Holds(r, t)
        BY <2>2
      <3>2. attempt[t].left + redeem[r].age <= 0 /\ \A o \in Redemptions \ {r} : ~Holds(o, t)
        BY <3>1 DEF AttemptsInv, LockSound
      <3> QED
        BY <1>4, <1>6, <2>2, <3>2
    <2>3. CASE q # r
      <3>1. Holds(q, t) /\ t # s
        BY <1>4, <1>5, <2>3
      <3>2. attempt[t].left + redeem[q].age <= 0 /\ \A o \in Redemptions \ {q} : ~Holds(o, t)
        BY <3>1 DEF AttemptsInv, LockSound
      <3>3. ~Holds(r, t)'
        BY <2>3, <3>1, <3>2
      <3> QED
        BY <1>1, <1>4, <2>3, <3>2, <3>3
    <2> QED
      BY <2>1, <2>2, <2>3
  <1> QED
    BY <1>1, <1>2, <1>3, <1>7 DEF AttemptsInv

\* party_code_ip_limit: the address is locked, or it is blocked and the request ends.
LEMMA LockAddressHolds ==
  ASSUME AttemptsInv, NEW r \in Redemptions, LockAddress(r)
  PROVE  AttemptsInv'
PROOF
  <1>1. PICK i : i = redeem[r].ip
    OBVIOUS
  <1>2. redeem[r].at = "begun" /\ SubjectFree(r, i) /\ attempt' = attempt /\ wrong' = wrong
    BY <1>1 DEF LockAddress
  <1>3. redeem[r] \in RedeemStates /\ i \in Subjects
    BY <1>1, <1>2, OneRequest DEF AttemptsInv
  <1>4. CASE Blocked(i, redeem[r].age)
    <2>1. redeem' = [redeem EXCEPT ![r] = NoRedeem]
      BY <1>1, <1>4 DEF LockAddress
    <2>2. \A s \in Subjects : SubjectSound(s)'
      BY <1>2, SubjectKept DEF AttemptsInv
    <2>3. attempt' \in [Subjects -> AttemptRows] /\ DOMAIN wrong' = Subjects
      BY <1>2 DEF AttemptsInv
    <2> QED
      BY <1>2, <2>1, <2>2, <2>3, RequestEnds
  <1>5. CASE ~Blocked(i, redeem[r].age)
    <2>1. PICK n : n = [redeem[r] EXCEPT !.at = "address"]
      OBVIOUS
    <2>2. n \in RedeemStates /\ n.at = "address" /\ n.player = redeem[r].player /\ n.ip = i /\ n.age = redeem[r].age
      BY <1>1, <1>3, <2>1 DEF RedeemStates
    <2>3. redeem' = [redeem EXCEPT ![r] = n]
      BY <1>1, <1>5, <2>1 DEF LockAddress
    <2>4. redeem'[r] = n
      BY <2>3 DEF AttemptsInv
    <2>5. \A t \in Subjects : Holds(r, t)' => t = i
      BY <2>2, <2>4 DEF Holds
    <2> QED
      BY <1>1, <1>2, <1>3, <1>5, <2>2, <2>3, <2>5, RowGranted
  <1> QED
    BY <1>4, <1>5

\* party_code_attempts FOR UPDATE: the player is locked, or is blocked and the request ends with the
\* row of its address inserted.
LEMMA LockPlayerHolds ==
  ASSUME AttemptsInv, NEW r \in Redemptions, LockPlayer(r)
  PROVE  AttemptsInv'
PROOF
  <1>1. PICK i, p : i = redeem[r].ip /\ p = redeem[r].player
    OBVIOUS
  <1>2. redeem[r].at = "address" /\ SubjectFree(r, p) /\ wrong' = wrong
    BY <1>1 DEF LockPlayer
  <1>3. redeem[r] \in RedeemStates /\ i \in Subjects /\ p \in Subjects /\ redeem[r].age \in Nat /\ redeem[r].age <= RedeemTime
    BY <1>1, <1>2, OneRequest DEF AttemptsInv
  <1>4. CASE Blocked(p, redeem[r].age)
    <2>1. redeem' = [redeem EXCEPT ![r] = NoRedeem] /\ attempt' = [attempt EXCEPT ![i] = RowAt(i, redeem[r].age)]
      BY <1>1, <1>4 DEF LockPlayer
    <2>2. PICK n : n = RowAt(i, redeem[r].age)
      OBVIOUS
    <2>3. n \in AttemptRows
      BY <1>3, <2>2, RowAtSound
    <2>4. /\ attempt' \in [Subjects -> AttemptRows] /\ attempt'[i] = n
          /\ \A s \in Subjects \ {i} : attempt'[s] = attempt[s]
      BY <1>3, <2>1, <2>2, <2>3 DEF AttemptsInv
    <2>5. SubjectSound(i)'
      BY <1>2, <1>3, <2>2, <2>4, SubjectInserted
    <2>6. \A s \in Subjects \ {i} : SubjectSound(s)'
      BY <1>2, <2>4, SubjectKept DEF AttemptsInv
    <2>7. Holds(r, i) /\ DOMAIN wrong' = Subjects
      BY <1>1, <1>2 DEF Holds, AttemptsInv
    <2>8. \A s \in Subjects : ~Holds(r, s) => attempt'[s] = attempt[s]
      BY <2>4, <2>7
    <2> QED
      BY <2>1, <2>4, <2>5, <2>6, <2>7, <2>8, RequestEnds
  <1>5. CASE ~Blocked(p, redeem[r].age)
    <2>1. PICK n : n = [redeem[r] EXCEPT !.at = "player"]
      OBVIOUS
    <2>2. n \in RedeemStates /\ n.at = "player" /\ n.player = p /\ n.ip = i /\ n.age = redeem[r].age
      BY <1>1, <1>3, <2>1 DEF RedeemStates
    <2>3. redeem' = [redeem EXCEPT ![r] = n] /\ attempt' = attempt
      BY <1>1, <1>5, <2>1 DEF LockPlayer
    <2>4. redeem'[r] = n
      BY <2>3 DEF AttemptsInv
    <2>5. \A t \in Subjects : Holds(r, t)' => t = p \/ Holds(r, t)
      BY <1>1, <1>2, <2>2, <2>4 DEF Holds
    <2> QED
      BY <1>1, <1>2, <1>3, <1>5, <2>2, <2>3, <2>5, RowGranted
  <1> QED
    BY <1>4, <1>5

\* A wrong code is charged to a subject whose row the request holds.
LEMMA SubjectCharged ==
  ASSUME AttemptsInv, NEW r \in Redemptions, NEW s \in Subjects, redeem[r].at # "idle", Holds(r, s),
         attempt'[s] = Wrong(RowAt(s, redeem[r].age), LimitOf(s), redeem[r].age), wrong'[s] = OneMoreWrong(s)
  PROVE  attempt'[s] \in AttemptRows /\ SubjectSound(s)'
PROOF
  <1>1. PICK limit \in Nat : limit = LimitOf(s) /\ limit >= 1
    BY AttemptNumbers
  <1>2. PICK age \in Nat : age = redeem[r].age /\ age <= RedeemTime
    BY OneRequest
  <1>3. PICK row \in AttemptRows : /\ row = RowAt(s, age) /\ row.exists /\ row.left = attempt[s].left
                                   /\ WindowSound(row, wrong[s], limit)
    BY <1>1, <1>2, RowAtSound
  <1>4. row.left + age <= 0
    BY <1>2, <1>3 DEF AttemptsInv, LockSound
  <1>5. PICK w \in [1..2 * limit + 1 -> 0..Forgotten] : w = wrong[s]
    BY <1>1 DEF AttemptsInv, SubjectSound, Places
  <1>6. Cardinality(Kept(w, limit)) < 2 * limit + 1
    <2>1. /\ Cardinality(Kept(w, limit)) < limit + Windowful(limit) /\ Windowful(limit) \in Nat
          /\ limit + Windowful(limit) <= 2 * limit + 1
      BY <1>1, <1>3, <1>5, WindowBounds, WindowfulBounds
    <2> QED
      BY <1>1, <2>1, KeptFinite
  <1>7. \E k \in 1..2 * limit + 1 : w[k] = Forgotten
    BY <1>6, FreePlace
  <1>8. PICK k : k = CHOOSE j \in 1..2 * limit + 1 : w[j] = Forgotten
    OBVIOUS
  <1>9. k \in 1..2 * limit + 1 /\ w[k] = Forgotten
    BY <1>7, <1>8
  <1>10. PICK u : u = Placed(w, k)
    OBVIOUS
  <1>11. OneMoreWrong(s) = u /\ Places(s) = 1..2 * limit + 1
    BY <1>1, <1>5, <1>8, <1>10 DEF OneMoreWrong, Places, Placed
  <1>12. u \in [1..2 * limit + 1 -> 0..Forgotten] /\ OneMore(w, u, k, limit)
    BY <1>1, <1>5, <1>9, <1>10, OneMoreKept
  <1>13. PICK n : n = Wrong(row, limit, age)
    OBVIOUS
  <1>14. n \in AttemptRows /\ n.exists = row.exists /\ WindowSound(n, u, limit)
    <2>1. WindowSound(row, w, limit)
      BY <1>3, <1>5
    <2>2. row \in AttemptRows /\ age \in Nat /\ age <= RedeemTime /\ row.left + age <= 0 /\ OneMore(w, u, k, limit)
      BY <1>2, <1>3, <1>4, <1>12
    <2>3. /\ Wrong(row, limit, age) \in AttemptRows /\ Wrong(row, limit, age).exists = row.exists
          /\ WindowSound(Wrong(row, limit, age), u, limit)
      BY <1>1, <2>1, <2>2, ChargeSound
    <2> QED
      BY <1>13, <2>3
  <1>15. attempt'[s] = n /\ wrong'[s] = u
    BY <1>1, <1>2, <1>3, <1>11, <1>13
  <1>16. n.exists
    BY <1>3, <1>14
  <1> QED
    BY <1>1, <1>11, <1>12, <1>14, <1>15, <1>16 DEF SubjectSound, WindowSound, Covered

\* No such code: the rows of the player and of the address are charged.
LEMMA WrongCodeHolds ==
  ASSUME AttemptsInv, NEW r \in Redemptions, WrongCode(r)
  PROVE  AttemptsInv'
PROOF
  <1>1. PICK mine : mine = {redeem[r].player, redeem[r].ip}
    OBVIOUS
  <1>2. /\ redeem[r].at = "player" /\ redeem' = [redeem EXCEPT ![r] = NoRedeem]
        /\ attempt' = [s \in Subjects |-> IF s \in mine THEN Wrong(RowAt(s, redeem[r].age), LimitOf(s), redeem[r].age)
                                          ELSE attempt[s]]
        /\ wrong' = [s \in Subjects |-> IF s \in mine THEN OneMoreWrong(s) ELSE wrong[s]]
    BY <1>1 DEF WrongCode
  <1>3. \A s \in Subjects : s \in mine <=> Holds(r, s)
    BY <1>1, <1>2 DEF Holds
  <1>4. ASSUME NEW s \in Subjects
        PROVE  attempt'[s] \in AttemptRows /\ SubjectSound(s)' /\ (~Holds(r, s) => attempt'[s] = attempt[s])
    <2>1. CASE s \in mine
      <3>1. /\ attempt'[s] = Wrong(RowAt(s, redeem[r].age), LimitOf(s), redeem[r].age) /\ wrong'[s] = OneMoreWrong(s)
            /\ Holds(r, s) /\ redeem[r].at # "idle"
        BY <1>2, <1>3, <2>1
      <3> QED
        BY <3>1, SubjectCharged
    <2>2. CASE s \notin mine
      <3>1. attempt'[s] = attempt[s] /\ wrong'[s] = wrong[s]
        BY <1>2, <2>2
      <3> QED
        BY <3>1, SubjectKept DEF AttemptsInv
    <2> QED
      BY <2>1, <2>2
  <1>5. attempt' \in [Subjects -> AttemptRows] /\ DOMAIN wrong' = Subjects
    BY <1>2, <1>4
  <1> QED
    BY <1>2, <1>4, <1>5, RequestEnds

\* The player joined: its failures are deleted, those of the address stay.
LEMMA RightCodeHolds ==
  ASSUME AttemptsInv, NEW r \in Redemptions, RightCode(r)
  PROVE  AttemptsInv'
PROOF
  <1>1. PICK p, i, age : p = redeem[r].player /\ i = redeem[r].ip /\ age = redeem[r].age
    OBVIOUS
  <1>2. PICK new : new = NewAttempts(age)
    OBVIOUS
  <1>3. PICK old : old = RowAt(i, age)
    OBVIOUS
  <1>4. /\ redeem[r].at = "player" /\ redeem' = [redeem EXCEPT ![r] = NoRedeem]
        /\ attempt' = [attempt EXCEPT ![p] = new, ![i] = old] /\ wrong' = [wrong EXCEPT ![p] = NoneWrong(p)]
    BY <1>1, <1>2, <1>3 DEF RightCode
  <1>5. p \in Subjects /\ i \in Subjects /\ age \in Nat /\ age <= RedeemTime
    BY <1>1, <1>4, OneRequest
  <1>6. new \in AttemptRows /\ new.exists /\ new.failures = 0 /\ new.start = age /\ new.left = -RedeemTime
    BY <1>2, <1>5, NewRow
  <1>7. old \in AttemptRows /\ old.exists /\ old.left = attempt[i].left /\ WindowSound(old, wrong[i], LimitOf(i))
    BY <1>3, <1>5, RowAtSound
  <1>8. /\ attempt' \in [Subjects -> AttemptRows] /\ attempt'[i] = old /\ (p # i => attempt'[p] = new)
        /\ \A s \in Subjects : s # p /\ s # i => attempt'[s] = attempt[s]
    BY <1>4, <1>5, <1>6, <1>7 DEF AttemptsInv
  <1>9. /\ DOMAIN wrong' = Subjects /\ wrong'[p] = NoneWrong(p)
        /\ \A s \in Subjects : s # p => wrong'[s] = wrong[s]
    BY <1>4, <1>5 DEF AttemptsInv
  <1>10. SubjectSound(p)'
    <2>1. PICK n \in AttemptRows : n = attempt'[p]
      BY <1>5, <1>8
    <2>2. n.exists /\ n.failures <= Windowful(LimitOf(p)) /\ n.start <= Late /\ n.left >= -RedeemTime
      <3>1. CASE p # i
        <4>1. n = new
          BY <1>8, <2>1, <3>1
        <4> QED
          BY <1>5, <1>6, <4>1, AttemptNumbers, WindowfulBounds
      <3>2. CASE p = i
        BY <1>7, <1>8, <2>1, <3>2 DEF WindowSound
      <3> QED
        BY <3>1, <3>2
    <2>3. PICK w : w = NoneWrong(p)
      OBVIOUS
    <2>4. w \in [Places(p) -> 0..Forgotten] /\ Kept(w, LimitOf(p)) = {}
      BY <1>5, <2>3, NoneKept
    <2>5. LimitOf(p) \in Nat /\ LimitOf(p) >= 1
      BY <1>5, AttemptNumbers
    <2>6. WindowSound(n, w, LimitOf(p))
      BY <2>1, <2>2, <2>4, <2>5, EmptyWindow
    <2> QED
      BY <1>9, <2>1, <2>2, <2>3, <2>4, <2>6 DEF SubjectSound, WindowSound, Covered
  <1>11. p # i => SubjectSound(i)'
    BY <1>3, <1>5, <1>8, <1>9, SubjectInserted
  <1>12. \A s \in Subjects : s # p /\ s # i => SubjectSound(s)'
    BY <1>8, <1>9, SubjectKept DEF AttemptsInv
  <1>13. Holds(r, p) /\ Holds(r, i)
    BY <1>1, <1>4 DEF Holds
  <1>14. \A s \in Subjects : SubjectSound(s)' /\ (~Holds(r, s) => attempt'[s] = attempt[s])
    BY <1>8, <1>10, <1>11, <1>12, <1>13
  <1> QED
    BY <1>4, <1>8, <1>9, <1>14, RequestEnds

\* Time passes, for rows, requests and codes.
LEMMA MomentHolds ==
  ASSUME AttemptsInv, MomentPasses
  PROVE  AttemptsInv'
PROOF
  <1>1. /\ \A q \in Redemptions : redeem[q].at # "idle" => redeem[q].age < RedeemTime
        /\ attempt' = [s \in Subjects |-> AttemptAged(attempt[s])]
        /\ redeem' = [q \in Redemptions |-> IF redeem[q].at = "idle" THEN redeem[q]
                                            ELSE [redeem[q] EXCEPT !.age = redeem[q].age + 1]]
        /\ wrong' = [s \in Subjects |->
                       [k \in Places(s) |-> IF wrong[s][k] = Forgotten THEN Forgotten ELSE wrong[s][k] + 1]]
    BY DEF MomentPasses
  <1>2. RedeemTime \in Nat
    BY AttemptNumbers
  <1>3. ASSUME NEW q \in Redemptions
        PROVE  /\ redeem'[q] \in RedeemStates /\ redeem'[q].at = redeem[q].at
               /\ redeem'[q].player = redeem[q].player /\ redeem'[q].ip = redeem[q].ip
               /\ redeem[q].at # "idle" => redeem'[q].age = redeem[q].age + 1 /\ redeem'[q].age <= RedeemTime /\ redeem[q].age \in Nat
    <2>1. redeem[q] \in RedeemStates
      BY DEF AttemptsInv
    <2>2. CASE redeem[q].at = "idle"
      BY <1>1, <2>1, <2>2
    <2>3. CASE redeem[q].at # "idle"
      <3>1. redeem[q].age \in Nat /\ redeem[q].age < RedeemTime
        BY <1>1, <2>1, <2>3 DEF RedeemStates
      <3>2. PICK a \in Nat : a = redeem[q].age + 1 /\ a <= RedeemTime
        BY <1>2, <3>1
      <3>3. PICK n : n = [redeem[q] EXCEPT !.age = a]
        OBVIOUS
      <3>4. redeem'[q] = n
        BY <1>1, <2>3, <3>2, <3>3
      <3>5. n \in RedeemStates /\ n.at = redeem[q].at /\ n.player = redeem[q].player /\ n.ip = redeem[q].ip /\ n.age = a
        BY <2>1, <3>3 DEF RedeemStates
      <3> QED
        BY <3>1, <3>2, <3>4, <3>5
    <2> QED
      BY <2>2, <2>3
  <1>4. ASSUME NEW s \in Subjects
        PROVE  /\ attempt'[s] \in AttemptRows /\ SubjectSound(s)'
               /\ attempt'[s].left = attempt[s].left - 1 \/ attempt'[s].left = -RedeemTime
    <2>1. PICK row \in AttemptRows : row = attempt[s]
      BY DEF AttemptsInv
    <2>2. PICK limit \in Nat : limit = LimitOf(s) /\ limit >= 1
      BY AttemptNumbers
    <2>3. PICK w \in [1..2 * limit + 1 -> 0..Forgotten] : w = wrong[s]
      BY <2>2 DEF AttemptsInv, SubjectSound, Places
    <2>4. PICK u : u = Older(w, limit)
      OBVIOUS
    <2>5. wrong'[s] = u
      BY <1>1, <2>2, <2>3, <2>4 DEF Places, Older
    <2>6. u \in [1..2 * limit + 1 -> 0..Forgotten] /\ NoYounger(w, u, limit)
      BY <2>2, <2>3, <2>4, AgedKept
    <2>7. WindowSound(row, w, limit) /\ (~row.exists => Kept(w, limit) = {} /\ row.left = -RedeemTime)
      BY <2>1, <2>2, <2>3 DEF AttemptsInv, SubjectSound
    <2>8. PICK n : n = AttemptAged(row)
      OBVIOUS
    <2>9. attempt'[s] = n
      BY <1>1, <2>1, <2>8
    <2>10. CASE row.exists
      <3>1. n \in AttemptRows /\ n.exists = row.exists /\ (n.left = row.left - 1 \/ n.left = -RedeemTime) /\ WindowSound(n, u, limit)
        BY <2>1, <2>2, <2>6, <2>7, <2>8, <2>10, AgeSound
      <3> QED
        BY <2>1, <2>2, <2>5, <2>6, <2>9, <2>10, <3>1 DEF SubjectSound, WindowSound, Covered, Places
    <2>11. CASE ~row.exists
      <3>1. n = row /\ Kept(u, limit) = {}
        BY <2>6, <2>7, <2>8, <2>11 DEF AttemptAged, NoYounger
      <3>2. row.failures <= Windowful(limit) /\ row.start <= Late /\ row.left >= -RedeemTime
        BY <2>7 DEF WindowSound
      <3>3. WindowSound(n, u, limit)
        BY <2>2, <3>1, <3>2, EmptyWindow
      <3> QED
        BY <2>1, <2>2, <2>5, <2>6, <2>7, <2>9, <2>11, <3>1, <3>3 DEF SubjectSound, WindowSound, Covered, Places
    <2> QED
      BY <2>10, <2>11
  <1>5. ASSUME NEW q \in Redemptions PROVE RequestSound(q)'
    BY <1>3 DEF AttemptsInv, RequestSound
  <1>6. \A q \in Redemptions, s \in Subjects : Holds(q, s)' <=> Holds(q, s)
    BY <1>3 DEF Holds
  <1>7. ASSUME NEW q \in Redemptions, NEW s \in Subjects PROVE LockSound(q, s)'
    <2> SUFFICES ASSUME Holds(q, s)
                 PROVE  attempt'[s].left + redeem'[q].age <= 0 /\ \A t \in Redemptions \ {q} : ~Holds(t, s)'
      BY <1>6 DEF LockSound
    <2>1. attempt[s].left + redeem[q].age <= 0 /\ \A t \in Redemptions \ {q} : ~Holds(t, s)
      BY DEF AttemptsInv, LockSound
    <2>2. redeem'[q].age = redeem[q].age + 1 /\ redeem'[q].age <= RedeemTime /\ redeem[q].age \in Nat
      BY <1>3 DEF Holds
    <2>3. PICK l, m, a, b : l = attempt[s].left /\ m = attempt'[s].left /\ a = redeem[q].age /\ b = redeem'[q].age
      OBVIOUS
    <2>6. l \in Int
      BY <2>3 DEF AttemptsInv, AttemptRows
    <2>4. m = l - 1 \/ m = -RedeemTime
      BY <1>4, <2>3
    <2>5. m + b <= 0
      BY <1>2, <2>1, <2>2, <2>3, <2>4, <2>6
    <2> QED
      BY <1>6, <2>1, <2>3, <2>5
  <1>8. attempt' \in [Subjects -> AttemptRows] /\ redeem' \in [Redemptions -> RedeemStates] /\ DOMAIN wrong' = Subjects
    BY <1>1, <1>3, <1>4
  <1> QED
    BY <1>4, <1>5, <1>7, <1>8 DEF AttemptsInv

\* Every step.
LEMMA AttemptsStep == AttemptsInv /\ [AttemptsNext]_caVars => AttemptsInv'
PROOF
  <1> SUFFICES ASSUME AttemptsInv, [AttemptsNext]_caVars PROVE AttemptsInv'
    OBVIOUS
  <1>1. ASSUME NEW r \in Redemptions, NEW p \in Redeemers, NEW i \in Addresses, BeginRedeem(r, p, i) PROVE AttemptsInv'
    BY <1>1, BeginRedeemHolds
  <1>2. ASSUME NEW r \in Redemptions, LockAddress(r) PROVE AttemptsInv'
    BY <1>2, LockAddressHolds
  <1>3. ASSUME NEW r \in Redemptions, LockPlayer(r) PROVE AttemptsInv'
    BY <1>3, LockPlayerHolds
  <1>4. ASSUME NEW r \in Redemptions, WrongCode(r) PROVE AttemptsInv'
    BY <1>4, WrongCodeHolds
  <1>5. ASSUME NEW r \in Redemptions, RightCode(r) PROVE AttemptsInv'
    BY <1>5, RightCodeHolds
  <1>6. ASSUME NEW r \in Redemptions, RollBack(r) PROVE AttemptsInv'
    <2>1. attempt' = attempt /\ wrong' = wrong /\ redeem' = [redeem EXCEPT ![r] = NoRedeem]
      BY <1>6 DEF RollBack
    <2>2. \A s \in Subjects : SubjectSound(s)'
      BY <2>1, SubjectKept DEF AttemptsInv
    <2>3. attempt' \in [Subjects -> AttemptRows] /\ DOMAIN wrong' = Subjects
      BY <2>1 DEF AttemptsInv
    <2> QED
      BY <2>1, <2>2, <2>3, RequestEnds
  <1>7. CASE MomentPasses
    BY <1>7, MomentHolds
  <1>8. CASE UNCHANGED caVars
    <2>1. attempt' = attempt /\ redeem' = redeem /\ wrong' = wrong
      BY <1>8 DEF caVars
    <2> QED
      BY <2>1 DEF AttemptsInv, RequestSound, SubjectSound, LockSound, Holds, WindowSound, Covered
  <1> QED
    BY <1>1, <1>2, <1>3, <1>4, <1>5, <1>6, <1>7, <1>8 DEF AttemptsNext

\* AttemptsHold: JoinCode's windows.  However the requests of a player or of an address
\* overlap, and however long each of them waits for its rows, the wrong codes examined
\* within a Cooldown, but for that wait, are fewer than two windows take, a budget of one
\* included.  That they are within the budget is not so: see WithinBudget.
THEOREM AttemptsHold == AttemptsSpec => []AttemptsSound
PROOF
  <1>1. AttemptsInv => AttemptsSound
    <2> SUFFICES ASSUME AttemptsInv, NEW s \in Subjects
                 PROVE  Cardinality(Examined(s)) < LimitOf(s) + Windowful(LimitOf(s))
      BY DEF AttemptsSound
    <2>1. LimitOf(s) \in Nat /\ LimitOf(s) >= 1
      BY AttemptNumbers
    <2>2. attempt[s] \in AttemptRows /\ WindowSound(attempt[s], wrong[s], LimitOf(s))
      BY DEF AttemptsInv, SubjectSound
    <2>3. Cardinality(Kept(wrong[s], LimitOf(s))) < LimitOf(s) + Windowful(LimitOf(s))
      BY <2>1, <2>2, WindowBounds
    <2>4. Examined(s) = Kept(wrong[s], LimitOf(s))
      BY DEF Examined, Kept, Places
    <2> QED
      BY <2>3, <2>4
  <1> QED
    BY <1>1, AttemptsInitial, AttemptsStep, PTL DEF AttemptsSpec
=============================================================================
