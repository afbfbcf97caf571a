-------------------------- MODULE MatchQueueProofs --------------------------
(***************************************************************************)
(* Proofs about module MatchQueue, for any number of tickets, parties,     *)
(* workers, claims and attempts.                                           *)
(***************************************************************************)
EXTENDS MatchQueue, TLAPS

\* A worker in the middle of a bucket holds a claim id that was minted.
WorkerSound ==
  \A w \in Workers :
     worker[w].pc # "idle" => worker[w].claim # NoClaim /\ worker[w].claim <= claims

\* A ticket that may still be matched has an attempt left.
BelowCap == \A t \in Tickets : status[t] \in {"none", "queued"} => attempts[t] < MaxAttempts

IInv ==
  /\ TypeOK
  /\ EntryUniform
  /\ EntryFollowsTickets
  /\ RosterExact
  /\ ClaimSound
  /\ FailedForCause
  /\ BelowCap
  /\ WorkerSound

-----------------------------------------------------------------------------
Uniform(st) ==
  \A t1, t2 \in Tickets : EntryOf[t1] = EntryOf[t2] => st[t1] = st[t2]

\* A set of tickets made of whole entries.
Whole(S) == \A t1, t2 \in Tickets : EntryOf[t1] = EntryOf[t2] /\ t1 \in S => t2 \in S

\* settleEntries after a statement that treated entries as wholes never has to
\* spread a failure: it copies the tickets' status to the entries in scope.
LEMMA Settling ==
  ASSUME TypeOK, EntryFollowsTickets,
         NEW scope \in SUBSET Tickets,
         NEW st \in [Tickets -> Status], NEW cl \in [Tickets -> ClaimIds \union {NoClaim}],
         Uniform(st),
         \A t \in Tickets : st[t] = "queued" => status[t] = "queued",
         SettleEntries(scope, st, cl)
  PROVE  /\ status' = st
         /\ claim' = cl
         /\ entry' \in [Entries -> Status]
         /\ \A t \in Tickets :
               entry'[EntryOf[t]] =
                  IF entry[EntryOf[t]] = "queued" /\ \E s \in scope : EntryOf[s] = EntryOf[t]
                  THEN st[t] ELSE entry[EntryOf[t]]
<1> DEFINE Left(e) == {t \in TicketsOf(e) \cap scope : st[t] # "queued"}
           ent == SettledEntries(scope, st)
<1>1. entry' = ent /\ status' = SettledStatus(scope, st, ent)
      /\ claim' = SettledClaims(scope, st, ent, cl)
  BY DEF SettleEntries
<1>2. \A e \in Entries : Left(e) # {} =>
         (CHOOSE t \in TicketsOf(e) \cap scope : st[t] # "queued") \in Left(e)
  <2> TAKE e \in Entries
  <2> HAVE Left(e) # {}
  <2>1. PICK t \in TicketsOf(e) \cap scope : st[t] # "queued"
    OBVIOUS
  <2> QED BY <2>1
<1>3. \A e \in Entries :
        ent[e] = IF entry[e] = "queued" /\ Left(e) # {}
                 THEN st[CHOOSE t \in TicketsOf(e) \cap scope : st[t] # "queued"]
                 ELSE entry[e]
  BY DEF SettledEntries
<1>5. \A t \in Tickets :
        ent[EntryOf[t]] =
           IF entry[EntryOf[t]] = "queued" /\ \E s \in scope : EntryOf[s] = EntryOf[t]
           THEN st[t] ELSE entry[EntryOf[t]]
  <2> TAKE t \in Tickets
  <2> DEFINE e == EntryOf[t]
  <2>0. e \in Entries
    BY QueueConstants
  <2>1. \A s \in Left(e) : s \in Tickets /\ st[s] = st[t] /\ s \in scope /\ EntryOf[s] = e
    BY DEF Uniform, TicketsOf
  <2>2. CASE entry[e] = "queued" /\ Left(e) # {}
    <3>1. ent[e] = st[t]
      BY <2>0, <2>1, <2>2, <1>2, <1>3
    <3>2. \E s \in scope : EntryOf[s] = e
      BY <2>1, <2>2
    <3> QED BY <2>2, <3>1, <3>2
  <2>3. CASE entry[e] = "queued" /\ Left(e) = {}
    <3>1. ent[e] = "queued"
      BY <2>0, <2>3, <1>3
    <3>2. ASSUME NEW s \in scope, EntryOf[s] = e PROVE st[t] = "queued"
      BY <2>3, <3>2 DEF TicketsOf, Uniform
    <3> QED BY <2>3, <3>1, <3>2
  <2>4. CASE entry[e] # "queued"
    BY <2>0, <2>4, <1>3
  <2> QED BY <2>2, <2>3, <2>4
<1>6. ASSUME NEW t \in Tickets PROVE ~Spreads(t, scope, st, ent)
  <2> SUFFICES ASSUME st[t] = "queued" PROVE ent[EntryOf[t]] \notin {"failed", "cancelled"}
    BY DEF Spreads
  <2>1. entry[EntryOf[t]] = "queued"
    BY DEF EntryFollowsTickets
  <2> QED BY <2>1, <1>5
<1>7. SettledStatus(scope, st, ent) = st
  BY <1>6 DEF SettledStatus
<1>8. SettledClaims(scope, st, ent, cl) = cl
  BY <1>6 DEF SettledClaims
<1>9. ent \in [Entries -> Status]
  <2> SUFFICES ASSUME NEW e \in Entries PROVE ent[e] \in Status
    BY DEF SettledEntries
  <2>1. \A s \in Left(e) : st[s] \in Status
    BY DEF TicketsOf
  <2> QED BY <2>1, <1>2, <1>3 DEF TypeOK
<1> QED BY <1>1, <1>5, <1>7, <1>8, <1>9

-----------------------------------------------------------------------------
(* One lemma per group of actions. *)

\* Steps that move only a worker's program counter and its groups.
LEMMA WorkerSteps ==
  ASSUME IInv, NEW w \in Workers,
         \/ NextGroup(w) \/ GroupsDone(w) \/ BackendFails(w) \/ BackendFull(w)
         \/ CommitDrifted(w) \/ CommitShort(w) \/ CallFails(w) \/ Crash(w)
  PROVE  IInv'
<1> USE DEF IInv
<1>1. UNCHANGED <<tickets, entry, expired, lapsed, claims, roster>>
  BY DEF NextGroup, GroupsDone, BackendFails, BackendFull, CommitDrifted, CommitShort, CallFails, Crash
<1>2. /\ worker' = [worker EXCEPT ![w] = worker'[w]]
      /\ worker'[w] \in WorkerState
      /\ worker'[w].pc # "idle" => worker[w].pc # "idle" /\ worker'[w].claim = worker[w].claim
  <2>0. worker \in [Workers -> WorkerState] /\ worker[w] \in WorkerState
    BY DEF TypeOK
  <2>1. CASE Crash(w) \/ (GroupsDone(w) /\ worker[w].rest = {})
    <3>1. worker' = [worker EXCEPT ![w] = Idle]
      BY <2>1 DEF Crash, GroupsDone
    <3>2. Idle \in WorkerState /\ Idle.pc = "idle"
      BY DEF Idle, WorkerState
    <3> QED BY <2>0, <3>1, <3>2
  <2>2. CASE NextGroup(w)
    <3>1. PICK G \in SUBSET worker[w].rest :
            worker' = [worker EXCEPT ![w].pc = "resolve", ![w].group = G, ![w].rest = worker[w].rest \ G]
      BY <2>2 DEF NextGroup
    <3> QED BY <2>0, <2>2, <3>1 DEF NextGroup, WorkerState
  <2>3. CASE GroupsDone(w) /\ worker[w].rest # {}
    <3>1. worker' = [worker EXCEPT ![w].pc = "unclaim"] /\ worker[w].pc = "next"
      BY <2>0, <2>3 DEF GroupsDone
    <3> QED BY <2>0, <3>1 DEF WorkerState
  <2>4. CASE BackendFails(w) \/ BackendFull(w) \/ CommitShort(w)
    <3>1. PICK pc \in {"release", "giveback"} : worker' = [worker EXCEPT ![w].pc = pc]
      BY <2>4 DEF BackendFails, BackendFull, CommitShort, Goto
    <3>2. worker[w].pc # "idle"
      BY <2>4 DEF BackendFails, BackendFull, CommitShort
    <3> QED BY <2>0, <3>1, <3>2 DEF WorkerState
  <2>5. CASE CommitDrifted(w) \/ CallFails(w)
    <3>1. worker' = [worker EXCEPT ![w].pc = "next", ![w].group = {}] /\ worker[w].pc # "idle"
      BY <2>5 DEF CommitDrifted, CallFails, GroupOver
    <3> QED BY <2>0, <3>1 DEF WorkerState
  <2> QED BY <2>1, <2>2, <2>3, <2>4, <2>5
<1>3. worker' \in [Workers -> WorkerState] /\ WorkerSound'
  BY <1>1, <1>2 DEF TypeOK, WorkerSound
<1>4. TypeOK'
  BY <1>1, <1>3 DEF TypeOK, tickets
<1> QED
  BY <1>1, <1>3, <1>4
     DEF tickets, EntryUniform, EntryFollowsTickets, RosterExact, ClaimSound, FailedForCause, BelowCap

\* The clock.
LEMMA ClockSteps ==
  ASSUME IInv,
         \/ \E e \in Entries : EntryExpires(e)
         \/ \E c \in ClaimIds : LeaseLapses(c)
  PROVE  IInv'
<1> USE DEF IInv
<1>1. UNCHANGED <<tickets, entry, claims, roster, worker>> /\ expired \subseteq expired'
  BY DEF EntryExpires, LeaseLapses
<1>2. TypeOK'
  BY DEF TypeOK, tickets, EntryExpires, LeaseLapses
<1> QED
  BY <1>1, <1>2 DEF tickets, EntryUniform, EntryFollowsTickets, RosterExact, ClaimSound,
                    FailedForCause, BelowCap, WorkerSound

\* Joining the queue.
LEMMA EnqueueStep ==
  ASSUME IInv, NEW t \in Tickets, Enqueue(t)
  PROVE  IInv'
<1> USE DEF IInv
<1> DEFINE stale == StaleOf(PlayerOf[t])
<1>1. \A s \in stale : s \in Tickets /\ status[s] = "queued" /\ claim[s] = NoClaim
                       /\ EntryOf[s] \in expired /\ EntryOf[s] \notin Parties
  BY DEF Enqueue, StaleOf
<1>2. \A s \in Tickets : EntryOf[s] = EntryOf[t] => s = t
  BY QueueConstants DEF Enqueue
<1>3. t \notin stale /\ status[t] = "none" /\ claim[t] = NoClaim
  BY <1>1 DEF Enqueue, ClaimSound
<1>4. status' = [s \in Tickets |-> IF s = t THEN "queued"
                                   ELSE IF s \in stale THEN "failed" ELSE status[s]]
  BY DEF Enqueue
<1>5. UNCHANGED <<claim, attempts, matchOf, expired, lapsed, claims, roster, worker>>
  BY DEF Enqueue
<1>6. entry' = [entry EXCEPT ![EntryOf[t]] = "queued"] /\ EntryOf[t] \in Entries
  BY QueueConstants DEF Enqueue
<1>7. TypeOK'
  BY <1>4, <1>5, <1>6 DEF TypeOK, Status, Terminal
<1>8. \A s1, s2 \in Tickets : EntryOf[s1] = EntryOf[s2] /\ s1 \in stale => s2 = s1
  BY <1>1, QueueConstants
<1>9. EntryUniform'
  BY <1>2, <1>4, <1>5, <1>8 DEF EntryUniform, TypeOK
<1>10. EntryFollowsTickets'
  <2> SUFFICES ASSUME NEW s \in Tickets
               PROVE  \/ status'[s] = entry'[EntryOf[s]]
                      \/ /\ EntryOf[s] \notin Parties
                         /\ status'[s] = "failed" /\ entry'[EntryOf[s]] = "queued"
    BY DEF EntryFollowsTickets
  <2>1. CASE s = t
    BY <2>1, <1>4, <1>6 DEF TypeOK
  <2>2. CASE s # t
    <3>1. entry'[EntryOf[s]] = entry[EntryOf[s]]
      BY <2>2, <1>2, <1>6, QueueConstants DEF TypeOK
    <3> QED BY <2>2, <3>1, <1>1, <1>4 DEF EntryFollowsTickets
  <2> QED BY <2>1, <2>2
<1>11. RosterExact'
  BY <1>1, <1>3, <1>4, <1>5 DEF RosterExact
<1>12. ClaimSound'
  <2> SUFFICES ASSUME NEW s \in Tickets, claim[s] # NoClaim
               PROVE  status'[s] = "queued" /\ entry'[EntryOf[s]] = "queued"
    BY <1>5 DEF ClaimSound
  <2> QED BY <1>1, <1>3, <1>4, <1>6, QueueConstants DEF ClaimSound, TypeOK
<1>13. FailedForCause'
  BY <1>1, <1>4, <1>5 DEF FailedForCause
<1>14. BelowCap'
  BY <1>3, <1>4, <1>5 DEF BelowCap
<1> QED BY <1>5, <1>7, <1>9, <1>10, <1>11, <1>12, <1>13, <1>14 DEF WorkerSound

\* Store.Queue of a party inserts its entry and all of its tickets at once.
LEMMA QueuePartyStep ==
  ASSUME IInv, NEW e \in Entries, QueueParty(e)
  PROVE  IInv'
<1> USE DEF IInv
<1>1. UNCHANGED <<claim, attempts, matchOf, expired, lapsed, claims, roster, worker>>
  BY DEF QueueParty
<1>2. status' = [t \in Tickets |-> IF EntryOf[t] = e THEN "queued" ELSE status[t]]
      /\ entry' = [entry EXCEPT ![e] = "queued"]
  BY DEF QueueParty
<1>3. \A t \in Tickets : EntryOf[t] = e => status[t] = "none" /\ claim[t] = NoClaim
  BY DEF QueueParty, EntryFollowsTickets, ClaimSound
<1>4. TypeOK'
  BY <1>1, <1>2 DEF TypeOK, Status
<1>5. EntryUniform'
  BY <1>1, <1>2 DEF EntryUniform, TypeOK
<1>6. EntryFollowsTickets'
  BY <1>1, <1>2, QueueConstants DEF EntryFollowsTickets, TypeOK
<1>7. RosterExact'
  BY <1>1, <1>2, <1>3 DEF RosterExact
<1>8. ClaimSound'
  BY <1>1, <1>2, <1>3, QueueConstants DEF ClaimSound, TypeOK
<1>9. FailedForCause'
  BY <1>1, <1>2 DEF FailedForCause
<1>10. BelowCap'
  BY <1>1, <1>2, <1>3 DEF BelowCap
<1> QED BY <1>1, <1>4, <1>5, <1>6, <1>7, <1>8, <1>9, <1>10 DEF WorkerSound

\* Leaving it by hand.
LEMMA CancelStep ==
  ASSUME IInv, NEW t \in Tickets, Cancel(t)
  PROVE  /\ IInv'
         /\ status' = [status EXCEPT ![t] = "cancelled"]
         /\ claim' = [claim EXCEPT ![t] = NoClaim]
<1> USE DEF IInv
<1> DEFINE st == [status EXCEPT ![t] = "cancelled"]
           cl == [claim EXCEPT ![t] = NoClaim]
<1>1. \A s \in Tickets : EntryOf[s] = EntryOf[t] => s = t
  BY QueueConstants DEF Cancel
<1>2. st \in [Tickets -> Status] /\ cl \in [Tickets -> ClaimIds \union {NoClaim}]
  BY DEF TypeOK, Status, Terminal
<1>3. Uniform(st)
  BY <1>1 DEF Uniform, EntryUniform, TypeOK
<1>4. \A s \in Tickets : st[s] = "queued" => status[s] = "queued"
  BY DEF TypeOK
<1>5. SettleEntries({t}, st, cl)
  BY DEF Cancel
<1>6. /\ status' = st
      /\ claim' = cl
      /\ entry' \in [Entries -> Status]
      /\ \A s \in Tickets :
            entry'[EntryOf[s]] =
               IF entry[EntryOf[s]] = "queued" /\ \E x \in {t} : EntryOf[x] = EntryOf[s]
               THEN st[s] ELSE entry[EntryOf[s]]
  <2>1. {t} \in SUBSET Tickets /\ TypeOK /\ EntryFollowsTickets
    OBVIOUS
  <2>2. PICK s0 \in [Tickets -> Status], c0 \in [Tickets -> ClaimIds \union {NoClaim}] :
          s0 = st /\ c0 = cl
    BY <1>2
  <2>3. SettleEntries({t}, s0, c0)
    BY <2>2, <1>5
  <2>4. Uniform(s0) /\ \A s \in Tickets : s0[s] = "queued" => status[s] = "queued"
    BY <2>2, <1>3, <1>4
  <2> HIDE DEF st, cl, IInv
  <2> QED BY <2>1, <2>2, <2>3, <2>4, Settling
<1>7. UNCHANGED <<attempts, matchOf, expired, lapsed, claims, roster, worker>> /\ status[t] = "queued"
  BY DEF Cancel
<1>8. TypeOK'
  BY <1>2, <1>6, <1>7 DEF TypeOK
<1>9. EntryUniform'
  BY <1>1, <1>6, <1>7 DEF EntryUniform, TypeOK
<1>10. EntryFollowsTickets'
  BY <1>1, <1>6, <1>7 DEF EntryFollowsTickets, TypeOK
<1>11. RosterExact'
  <2>1. \A s \in Tickets : status'[s] = "matched" <=> status[s] = "matched"
    BY <1>6, <1>7 DEF TypeOK
  <2> QED BY <2>1, <1>7 DEF RosterExact
<1>12. ClaimSound'
  BY <1>1, <1>6, <1>7 DEF ClaimSound, TypeOK
<1>13. FailedForCause'
  BY <1>6, <1>7 DEF FailedForCause, TypeOK
<1>14. BelowCap'
  BY <1>6, <1>7 DEF BelowCap, TypeOK
<1> QED BY <1>6, <1>7, <1>8, <1>9, <1>10, <1>11, <1>12, <1>13, <1>14 DEF WorkerSound

\* party.cancel takes the entry and all of its queued tickets out at once.
LEMMA CancelPartyStep ==
  ASSUME IInv, NEW e \in Entries, CancelParty(e)
  PROVE  /\ IInv'
         /\ status' = [t \in Tickets |-> IF EntryOf[t] = e THEN "cancelled" ELSE status[t]]
         /\ claim' = [t \in Tickets |-> IF EntryOf[t] = e THEN NoClaim ELSE claim[t]]
         /\ \A t \in Tickets : EntryOf[t] = e => status[t] = "queued"
<1> USE DEF IInv
<1>1. UNCHANGED <<attempts, matchOf, expired, lapsed, claims, roster, worker>>
      /\ e \in Parties /\ entry[e] = "queued" /\ entry' = [entry EXCEPT ![e] = "cancelled"]
  BY DEF CancelParty
<1>2. \A t \in Tickets : EntryOf[t] = e => status[t] = "queued"
  BY <1>1 DEF EntryFollowsTickets
<1>3. {t \in TicketsOf(e) : status[t] = "queued"} = {t \in Tickets : EntryOf[t] = e}
  BY <1>2 DEF TicketsOf
<1>4. /\ status' = [t \in Tickets |-> IF EntryOf[t] = e THEN "cancelled" ELSE status[t]]
      /\ claim' = [t \in Tickets |-> IF EntryOf[t] = e THEN NoClaim ELSE claim[t]]
  BY <1>3 DEF CancelParty, Unclaimed
<1>5. TypeOK'
  BY <1>1, <1>4 DEF TypeOK, Status, Terminal
<1>6. EntryUniform'
  BY <1>1, <1>4 DEF EntryUniform
<1>7. EntryFollowsTickets'
  BY <1>1, <1>4, QueueConstants DEF EntryFollowsTickets, TypeOK
<1>8. RosterExact'
  BY <1>1, <1>2, <1>4 DEF RosterExact
<1>9. ClaimSound'
  BY <1>1, <1>4, QueueConstants DEF ClaimSound, TypeOK
<1>10. FailedForCause'
  BY <1>1, <1>4 DEF FailedForCause
<1>11. BelowCap'
  BY <1>1, <1>4 DEF BelowCap
<1> QED BY <1>1, <1>2, <1>4, <1>5, <1>6, <1>7, <1>8, <1>9, <1>10, <1>11 DEF WorkerSound

\* A claim takes whole entries.
LEMMA ClaimStep ==
  ASSUME IInv, NEW w \in Workers, ClaimBucket(w)
  PROVE  IInv'
<1> USE DEF IInv
<1>1. PICK E \in SUBSET Claimable :
        /\ claim' = [t \in Tickets |-> IF EntryOf[t] \in E THEN claims + 1 ELSE claim[t]]
        /\ worker' = [worker EXCEPT ![w] = [pc |-> "next", claim |-> claims + 1,
                                            rest |-> E, group |-> {}]]
  BY DEF ClaimBucket
<1>2. UNCHANGED <<status, attempts, matchOf, entry, expired, lapsed, roster>>
      /\ claims' = claims + 1 /\ claims < MaxClaims
  BY DEF ClaimBucket
<1>3. claims + 1 \in ClaimIds /\ claims \in Nat /\ claims + 1 # NoClaim
  BY <1>2, QueueConstants DEF TypeOK, ClaimIds, NoClaim
<1>4. E \subseteq Entries /\ \A t \in Tickets : EntryOf[t] \in E => status[t] = "queued" /\ entry[EntryOf[t]] = "queued"
  BY DEF Claimable, TicketsOf
<1>5. TypeOK'
  <2>1. worker' \in [Workers -> WorkerState]
    BY <1>1, <1>3, <1>4 DEF TypeOK, WorkerState
  <2>2. claim' \in [Tickets -> ClaimIds \union {NoClaim}]
    BY <1>1, <1>3 DEF TypeOK
  <2>3. claims' \in 0..MaxClaims
    BY <1>2, <1>3, QueueConstants
  <2> QED BY <2>1, <2>2, <2>3, <1>2 DEF TypeOK
<1>6. \A t \in Tickets : status[t] = "queued" => attempts[t] < MaxAttempts
  BY DEF BelowCap
<1>7. ClaimSound'
  <2> SUFFICES ASSUME NEW t \in Tickets, claim'[t] # NoClaim
               PROVE  /\ status[t] = "queued" /\ entry[EntryOf[t]] = "queued"
                      /\ attempts[t] < MaxAttempts /\ claim'[t] <= claims'
    BY <1>2 DEF ClaimSound
  <2>1. CASE EntryOf[t] \in E
    BY <2>1, <1>1, <1>2, <1>3, <1>4, <1>6
  <2>2. CASE EntryOf[t] \notin E
    <3>1. claim[t] # NoClaim /\ claim'[t] = claim[t] /\ claim[t] \in Nat
      BY <2>2, <1>1 DEF TypeOK, ClaimIds, NoClaim
    <3> QED BY <3>1, <1>2, <1>3 DEF ClaimSound
  <2> QED BY <2>1, <2>2
<1>8. WorkerSound'
  BY <1>1, <1>2, <1>3, QueueConstants DEF WorkerSound, TypeOK, WorkerState, ClaimIds, NoClaim
<1>9. EntryUniform'
  BY <1>1, <1>2 DEF EntryUniform
<1> QED
  BY <1>2, <1>5, <1>7, <1>8, <1>9 DEF EntryFollowsTickets, RosterExact, FailedForCause, BelowCap

\* The tickets a worker's calls reach are whole entries, and each holds a claim.
LEMMA HeldTickets ==
  ASSUME IInv, NEW w \in Workers, worker[w].pc # "idle"
  PROVE  /\ Held(w) \subseteq Tickets /\ Whole(Held(w))
         /\ Whole(TicketsIn(worker[w].group)) /\ Held(w) \subseteq TicketsIn(worker[w].group)
         /\ \A t \in Held(w) : /\ status[t] = "queued" /\ entry[EntryOf[t]] = "queued"
                               /\ attempts[t] < MaxAttempts /\ matchOf[t] = NoMatch
<1> USE DEF IInv
<1>1. worker[w].claim # NoClaim
  BY DEF WorkerSound
<1>2. \A t \in Held(w) : t \in Tickets /\ status[t] = "queued" /\ claim[t] # NoClaim
  BY <1>1 DEF Held, TicketsIn
<1>3. Whole(Held(w)) /\ Whole(TicketsIn(worker[w].group))
  BY DEF Whole, Held, TicketsIn, EntryUniform
<1> QED BY <1>2, <1>3 DEF ClaimSound, RosterExact, Held, TicketsIn

\* A claim given back without a charge: ReturnTickets and ReturnUnmatched.
LEMMA ReturnSteps ==
  ASSUME IInv, NEW w \in Workers, ReturnTickets(w) \/ ReturnUnmatched(w)
  PROVE  IInv'
<1> USE DEF IInv
<1>1. PICK S \in SUBSET Tickets : Whole(S) /\ claim' = Unclaimed(S)
  <2>1. CASE ReturnTickets(w)
    <3>1. worker[w].pc # "idle" /\ claim' = Unclaimed(Held(w))
      BY <2>1 DEF ReturnTickets
    <3> QED BY <3>1, HeldTickets
  <2>2. CASE ReturnUnmatched(w)
    <3> DEFINE S == {t \in Tickets : status[t] = "queued" /\ claim[t] = worker[w].claim}
    <3>1. Whole(S)
      BY DEF Whole, EntryUniform
    <3> QED BY <2>2, <3>1 DEF ReturnUnmatched
  <2> QED BY <2>1, <2>2
<1>2. UNCHANGED <<status, attempts, matchOf, entry, expired, lapsed, claims, roster>>
  BY DEF ReturnTickets, ReturnUnmatched
<1>3. worker' \in [Workers -> WorkerState] /\ WorkerSound'
  <2>1. CASE ReturnTickets(w)
    <3>1. worker' = [worker EXCEPT ![w].pc = "next", ![w].group = {}] /\ worker[w].pc # "idle"
      BY <2>1 DEF ReturnTickets, GroupOver
    <3> QED BY <3>1, <1>2, ZenonT(60) DEF WorkerState, TypeOK, WorkerSound
  <2>2. CASE ReturnUnmatched(w)
    BY <2>2, <1>2 DEF ReturnUnmatched, WorkerState, TypeOK, WorkerSound, Idle
  <2> QED BY <2>1, <2>2
<1>4. claim' = [t \in Tickets |-> IF t \in S THEN NoClaim ELSE claim[t]]
  BY <1>1 DEF Unclaimed
<1>5. TypeOK'
  BY <1>2, <1>3, <1>4 DEF TypeOK
<1>6. EntryUniform'
  BY <1>1, <1>2, <1>4 DEF EntryUniform, Whole
<1>7. ClaimSound'
  BY <1>2, <1>4 DEF ClaimSound
<1> QED
  BY <1>2, <1>3, <1>5, <1>6, <1>7 DEF EntryFollowsTickets, RosterExact, FailedForCause, BelowCap

\* A charge for a set of whole, claimed entries: ReleaseTickets and the first
\* statement of the sweep.
LEMMA Charging ==
  ASSUME IInv, NEW S \in SUBSET Tickets, Whole(S),
         \A t \in S : status[t] = "queued" /\ attempts[t] < MaxAttempts
  PROVE  /\ Charged(S) \in [Tickets -> 0..MaxAttempts]
         /\ Uniform(Charged(S))
         /\ FailedAtCap(S) \in [Tickets -> Status]
         /\ Uniform(FailedAtCap(S))
         /\ Unclaimed(S) \in [Tickets -> ClaimIds \union {NoClaim}]
         /\ Uniform(Unclaimed(S))
         /\ \A t \in Tickets :
              /\ FailedAtCap(S)[t] # status[t] => t \in S /\ FailedAtCap(S)[t] = "failed"
              /\ FailedAtCap(S)[t] = "failed" =>
                    status[t] = "failed" \/ Charged(S)[t] >= MaxAttempts
              /\ FailedAtCap(S)[t] \in {"none", "queued"} => Charged(S)[t] < MaxAttempts
              /\ Charged(S)[t] >= attempts[t]
              /\ t \notin S => Charged(S)[t] = attempts[t] /\ Unclaimed(S)[t] = claim[t]
              /\ t \in S => Unclaimed(S)[t] = NoClaim
<1> USE DEF IInv
<1>1. MaxAttempts \in Nat /\ \A t \in Tickets : attempts[t] \in 0..MaxAttempts
  BY QueueConstants DEF TypeOK
<1>2. Charged(S) \in [Tickets -> 0..MaxAttempts]
  BY <1>1 DEF Charged
<1>3. FailedAtCap(S) \in [Tickets -> Status] /\ Unclaimed(S) \in [Tickets -> ClaimIds \union {NoClaim}]
  BY DEF FailedAtCap, Unclaimed, TypeOK, Status, Terminal
<1>4. Uniform(Charged(S)) /\ Uniform(FailedAtCap(S)) /\ Uniform(Unclaimed(S))
  BY DEF Uniform, Whole, EntryUniform, Charged, FailedAtCap, Unclaimed
<1>5. ASSUME NEW t \in Tickets
      PROVE  /\ FailedAtCap(S)[t] # status[t] => t \in S /\ FailedAtCap(S)[t] = "failed"
             /\ FailedAtCap(S)[t] = "failed" => status[t] = "failed" \/ Charged(S)[t] >= MaxAttempts
             /\ FailedAtCap(S)[t] \in {"none", "queued"} => Charged(S)[t] < MaxAttempts
             /\ Charged(S)[t] >= attempts[t]
             /\ t \notin S => Charged(S)[t] = attempts[t] /\ Unclaimed(S)[t] = claim[t]
             /\ t \in S => Unclaimed(S)[t] = NoClaim
  BY <1>1, <1>5 DEF FailedAtCap, Charged, Unclaimed, BelowCap
<1> QED BY <1>2, <1>3, <1>4, <1>5

\* What SettleEntries leaves, for a scope and a statement that depend on the state.
SettledTo(scope, st, cl) ==
  /\ status' = st
  /\ claim' = cl
  /\ entry' \in [Entries -> Status]
  /\ \A t \in Tickets :
        entry'[EntryOf[t]] =
           IF entry[EntryOf[t]] = "queued" /\ \E s \in scope : EntryOf[s] = EntryOf[t]
           THEN st[t] ELSE entry[EntryOf[t]]

\* The part of a step that is not about tickets: a worker moves on within its claim.
LEMMA WorkerMoves ==
  ASSUME IInv, NEW w \in Workers, worker[w].pc # "idle", claims' = claims,
         GroupOver(w) \/ Goto(w, "release")
  PROVE  worker' \in [Workers -> WorkerState] /\ WorkerSound'
<1> USE DEF IInv
<1>1. CASE GroupOver(w)
  BY <1>1, ZenonT(60) DEF GroupOver, WorkerState, TypeOK, WorkerSound
<1>2. CASE Goto(w, "release")
  BY <1>2, ZenonT(60) DEF Goto, WorkerState, TypeOK, WorkerSound
<1> QED BY <1>1, <1>2

\* A whole group becomes matched, in one transaction with its match.
LEMMA CommitSteps ==
  ASSUME IInv, NEW w \in Workers, CommitMatch(w) \/ CommitAnswerLost(w)
  PROVE  /\ IInv'
         /\ \E S \in SUBSET Tickets, m \in MatchIds :
               /\ S = TicketsIn(worker[w].group) /\ S = Committable(w)
               /\ roster[m] = {} /\ roster' = [roster EXCEPT ![m] = S]
               /\ matchOf' = [t \in Tickets |-> IF t \in S THEN m ELSE matchOf[t]]
               /\ status' = [t \in Tickets |-> IF t \in S THEN "matched" ELSE status[t]]
               /\ claim' = [t \in Tickets |-> IF t \in S THEN NoClaim ELSE claim[t]]
<1> USE DEF IInv
<1>1. /\ worker[w].pc # "idle"
      /\ Committable(w) = TicketsIn(worker[w].group)
      /\ Committed(w, Committable(w))
      /\ GroupOver(w) \/ Goto(w, "release")
  BY DEF CommitMatch, CommitAnswerLost
<1>2. PICK S \in SUBSET Tickets : S = TicketsIn(worker[w].group)
  BY DEF TicketsIn
<1>3. /\ Whole(S)
      /\ \A t \in S : status[t] = "queued" /\ entry[EntryOf[t]] = "queued" /\ matchOf[t] = NoMatch
  BY <1>1, <1>2, HeldTickets DEF Committable
<1>4. PICK m \in MatchIds :
        /\ FreshMatch(m)
        /\ roster' = [roster EXCEPT ![m] = S]
        /\ matchOf' = [t \in Tickets |-> IF t \in S THEN m ELSE matchOf[t]]
        /\ SettleEntries(S, [t \in Tickets |-> IF t \in S THEN "matched" ELSE status[t]], Unclaimed(S))
  BY <1>1, <1>2 DEF Committed
<1>5. UNCHANGED <<attempts, expired, lapsed, claims>>
  BY <1>1 DEF Committed
<1>6. PICK st \in [Tickets -> Status], cl \in [Tickets -> ClaimIds \union {NoClaim}] :
        /\ st = [t \in Tickets |-> IF t \in S THEN "matched" ELSE status[t]]
        /\ cl = Unclaimed(S)
  BY DEF TypeOK, Unclaimed, Status, Terminal
<1>7. SettledTo(S, st, cl)
  <2>1. SettleEntries(S, st, cl)
    BY <1>4, <1>6
  <2>2. Uniform(st)
    BY <1>3, <1>6 DEF Uniform, Whole, EntryUniform
  <2>3. \A t \in Tickets : st[t] = "queued" => status[t] = "queued"
    BY <1>6
  <2> QED BY <2>1, <2>2, <2>3, Settling DEF SettledTo
<1>8. \A t \in Tickets : cl[t] = IF t \in S THEN NoClaim ELSE claim[t]
  BY <1>6 DEF Unclaimed
<1>9. m # NoMatch /\ roster[m] = {}
  BY <1>4 DEF FreshMatch, MatchIds, NoMatch
<1>10. worker' \in [Workers -> WorkerState] /\ WorkerSound'
  BY <1>1, <1>5, WorkerMoves
<1>11. TypeOK'
  BY <1>4, <1>5, <1>7, <1>10 DEF TypeOK, SettledTo
<1>12. EntryUniform'
  BY <1>3, <1>4, <1>5, <1>6, <1>7, <1>8 DEF EntryUniform, SettledTo, Whole
<1>13. EntryFollowsTickets'
  <2> SUFFICES ASSUME NEW t \in Tickets
               PROVE  \/ status'[t] = entry'[EntryOf[t]]
                      \/ /\ EntryOf[t] \notin Parties
                         /\ status'[t] = "failed" /\ entry'[EntryOf[t]] = "queued"
    BY DEF EntryFollowsTickets
  <2>1. CASE t \in S
    BY <2>1, <1>3, <1>7 DEF SettledTo
  <2>2. CASE t \notin S
    <3>1. ~ \E s \in S : EntryOf[s] = EntryOf[t]
      BY <2>2, <1>3 DEF Whole
    <3>2. status'[t] = status[t] /\ entry'[EntryOf[t]] = entry[EntryOf[t]]
      BY <2>2, <3>1, <1>6, <1>7 DEF SettledTo
    <3> QED BY <3>2 DEF EntryFollowsTickets
  <2> QED BY <2>1, <2>2
<1>14. RosterExact'
  <2>1. \A t \in Tickets : status'[t] = "matched" <=> matchOf'[t] # NoMatch
    BY <1>3, <1>4, <1>6, <1>7, <1>9 DEF RosterExact, SettledTo
  <2>2. ASSUME NEW n \in MatchIds PROVE roster'[n] = {t \in Tickets : matchOf'[t] = n}
    <3>1. CASE n = m
      BY <3>1, <1>4, <1>9 DEF RosterExact, TypeOK
    <3>2. CASE n # m
      <4>1. roster'[n] = roster[n]
        BY <3>2, <1>4 DEF TypeOK
      <4>2. \A t \in S : matchOf[t] # n
        BY <1>3 DEF MatchIds, NoMatch
      <4> QED BY <3>2, <4>1, <4>2, <1>4 DEF RosterExact
    <3> QED BY <3>1, <3>2
  <2> QED BY <2>1, <2>2 DEF RosterExact
<1>15. ClaimSound'
  <2> SUFFICES ASSUME NEW t \in Tickets, claim'[t] # NoClaim
               PROVE  /\ status'[t] = "queued" /\ entry'[EntryOf[t]] = "queued"
                      /\ attempts'[t] < MaxAttempts /\ claim'[t] <= claims'
    BY DEF ClaimSound
  <2>1. t \notin S /\ claim'[t] = claim[t] /\ claim[t] # NoClaim /\ status'[t] = status[t]
    BY <1>6, <1>7, <1>8 DEF SettledTo
  <2>2. ~ \E s \in S : EntryOf[s] = EntryOf[t]
    BY <2>1, <1>3 DEF Whole
  <2>3. entry'[EntryOf[t]] = entry[EntryOf[t]]
    BY <2>2, <1>7 DEF SettledTo
  <2> QED BY <2>1, <2>3, <1>5 DEF ClaimSound
<1>16. FailedForCause' /\ BelowCap'
  BY <1>5, <1>6, <1>7 DEF FailedForCause, BelowCap, SettledTo
<1>17. IInv'
  BY <1>10, <1>11, <1>12, <1>13, <1>14, <1>15, <1>16
<1>18. status' = [t \in Tickets |-> IF t \in S THEN "matched" ELSE status[t]]
       /\ claim' = [t \in Tickets |-> IF t \in S THEN NoClaim ELSE claim[t]]
  BY <1>6, <1>7 DEF SettledTo, Unclaimed
<1> HIDE DEF IInv
<1> QED BY <1>1, <1>2, <1>4, <1>9, <1>17, <1>18

\* A transaction that charges, fails and un-claims whole entries and then settles
\* them: the shape of ReleaseTickets and of the sweep.
LEMMA FailingStep ==
  ASSUME IInv,
         NEW scope \in SUBSET Tickets, Whole(scope),
         NEW st \in [Tickets -> Status], Uniform(st),
         NEW cl \in [Tickets -> ClaimIds \union {NoClaim}], Uniform(cl),
         NEW at \in [Tickets -> 0..MaxAttempts], Uniform(at),
         SettleEntries(scope, st, cl), attempts' = at,
         \A t \in Tickets : st[t] # status[t] =>
            /\ status[t] = "queued" /\ st[t] = "failed" /\ t \in scope
            /\ EntryOf[t] \in expired \/ at[t] >= MaxAttempts,
         \A t \in Tickets : st[t] \in {"none", "queued"} => at[t] < MaxAttempts,
         \A t \in Tickets : at[t] >= attempts[t],
         \A t \in Tickets : cl[t] # NoClaim =>
            cl[t] = claim[t] /\ st[t] = status[t] /\ at[t] = attempts[t],
         UNCHANGED <<matchOf, expired, lapsed, claims, roster>>,
         worker' \in [Workers -> WorkerState], WorkerSound'
  PROVE  IInv' /\ status' = st /\ claim' = cl
<1> USE DEF IInv
<1>1. SettledTo(scope, st, cl)
  BY Settling, SMTT(60) DEF SettledTo
<1>2. TypeOK'
  BY <1>1 DEF TypeOK, SettledTo
<1>3. EntryUniform'
  BY <1>1 DEF EntryUniform, Uniform, SettledTo
<1>4. EntryFollowsTickets'
  <2> SUFFICES ASSUME NEW t \in Tickets
               PROVE  \/ status'[t] = entry'[EntryOf[t]]
                      \/ /\ EntryOf[t] \notin Parties
                         /\ status'[t] = "failed" /\ entry'[EntryOf[t]] = "queued"
    BY DEF EntryFollowsTickets
  <2>1. CASE t \in scope
    <3>1. entry[EntryOf[t]] = "queued" => entry'[EntryOf[t]] = st[t]
      BY <2>1, <1>1 DEF SettledTo
    <3>2. entry[EntryOf[t]] # "queued" => entry'[EntryOf[t]] = entry[EntryOf[t]] /\ st[t] = status[t]
      BY <1>1 DEF SettledTo, EntryFollowsTickets
    <3> QED BY <3>1, <3>2, <1>1 DEF SettledTo, EntryFollowsTickets
  <2>2. CASE t \notin scope
    <3>1. ~ \E s \in scope : EntryOf[s] = EntryOf[t]
      BY <2>2 DEF Whole
    <3>2. entry'[EntryOf[t]] = entry[EntryOf[t]] /\ status'[t] = status[t]
      BY <2>2, <3>1, <1>1 DEF SettledTo
    <3> QED BY <3>2 DEF EntryFollowsTickets
  <2> QED BY <2>1, <2>2
<1>5. RosterExact'
  <2>1. \A t \in Tickets : status'[t] = "matched" <=> status[t] = "matched"
    BY <1>1 DEF SettledTo
  <2> QED BY <2>1 DEF RosterExact
<1>6. ClaimSound'
  <2> SUFFICES ASSUME NEW t \in Tickets, claim'[t] # NoClaim
               PROVE  /\ status'[t] = "queued" /\ entry'[EntryOf[t]] = "queued"
                      /\ attempts'[t] < MaxAttempts /\ claim'[t] <= claims'
    BY DEF ClaimSound
  <2>1. claim[t] # NoClaim /\ claim'[t] = claim[t] /\ st[t] = status[t] /\ at[t] = attempts[t]
    BY <1>1 DEF SettledTo
  <2>2. status[t] = "queued" /\ entry[EntryOf[t]] = "queued" /\ attempts[t] < MaxAttempts /\ claim[t] <= claims
    BY <2>1 DEF ClaimSound
  <2> QED BY <2>1, <2>2, <1>1 DEF SettledTo
<1>7. FailedForCause'
  <2> SUFFICES ASSUME NEW t \in Tickets, st[t] = "failed"
               PROVE  EntryOf[t] \in expired \/ at[t] >= MaxAttempts
    BY <1>1 DEF FailedForCause, SettledTo
  <2>1. CASE st[t] = status[t]
    <3>1. EntryOf[t] \in expired \/ attempts[t] >= MaxAttempts
      BY <2>1 DEF FailedForCause
    <3>2. at[t] \in Nat /\ attempts[t] \in Nat /\ MaxAttempts \in Nat /\ at[t] >= attempts[t]
      BY QueueConstants DEF TypeOK
    <3> QED BY <3>1, <3>2
  <2> QED BY <2>1
<1>8. BelowCap'
  BY <1>1 DEF BelowCap, SettledTo
<1> QED BY <1>1, <1>2, <1>3, <1>4, <1>5, <1>6, <1>7, <1>8 DEF SettledTo

\* ReleaseTickets: charged, failed at the cap, then settled.
LEMMA ReleaseStep ==
  ASSUME IInv, NEW w \in Workers, ReleaseTickets(w)
  PROVE  /\ IInv'
         /\ status' = FailedAtCap(Held(w))
         /\ claim' = Unclaimed(Held(w))
<1>1. worker[w].pc # "idle" /\ GroupOver(w)
      /\ UNCHANGED <<matchOf, expired, lapsed, claims, roster>>
  BY DEF ReleaseTickets
<1>2. PICK S \in SUBSET Tickets, scope \in SUBSET Tickets :
        S = Held(w) /\ scope = TicketsIn(worker[w].group)
  BY DEF Held, TicketsIn
<1>3. /\ Whole(S) /\ Whole(scope) /\ S \subseteq scope
      /\ \A t \in S : status[t] = "queued" /\ attempts[t] < MaxAttempts
  BY <1>1, <1>2, HeldTickets
<1>4. PICK st \in [Tickets -> Status], cl \in [Tickets -> ClaimIds \union {NoClaim}],
           at \in [Tickets -> 0..MaxAttempts] :
        st = FailedAtCap(S) /\ cl = Unclaimed(S) /\ at = Charged(S)
  BY <1>3, Charging
<1>5. SettleEntries(scope, st, cl) /\ attempts' = at
  BY <1>2, <1>4 DEF ReleaseTickets
<1>6. worker' \in [Workers -> WorkerState] /\ WorkerSound'
  BY <1>1, WorkerMoves
<1>7. Uniform(st) /\ Uniform(cl) /\ Uniform(at)
  BY <1>3, <1>4, Charging
<1>8. \A t \in Tickets :
        /\ st[t] # status[t] => t \in S /\ st[t] = "failed"
        /\ st[t] = "failed" => status[t] = "failed" \/ at[t] >= MaxAttempts
        /\ st[t] \in {"none", "queued"} => at[t] < MaxAttempts
        /\ at[t] >= attempts[t]
        /\ t \notin S => at[t] = attempts[t] /\ cl[t] = claim[t]
        /\ t \in S => cl[t] = NoClaim
  BY <1>3, <1>4, Charging
<1>9. IInv' /\ status' = st /\ claim' = cl
  BY <1>1, <1>3, <1>5, <1>6, <1>7, <1>8, FailingStep
<1> QED BY <1>2, <1>4, <1>9

\* SweepStaleClaims: lapsed claims and expired tickets, then every entry settled.
LEMMA SweepStep ==
  ASSUME IInv, SweepStaleClaims
  PROVE  /\ IInv'
         /\ \A t \in Tickets : status'[t] # status[t] => status[t] = "queued" /\ status'[t] = "failed"
         /\ claim' = Unclaimed(LapsedTickets)
<1>1. UNCHANGED <<matchOf, expired, lapsed, claims, roster, worker>>
  BY DEF SweepStaleClaims
<1>2. PICK S \in SUBSET Tickets : S = LapsedTickets
  BY DEF LapsedTickets
<1>3. Whole(S) /\ \A t \in S : status[t] = "queued" /\ attempts[t] < MaxAttempts
  BY <1>2 DEF IInv, LapsedTickets, Whole, EntryUniform, BelowCap
<1>4. PICK s1 \in [Tickets -> Status], cl \in [Tickets -> ClaimIds \union {NoClaim}],
           at \in [Tickets -> 0..MaxAttempts] :
        s1 = FailedAtCap(S) /\ cl = Unclaimed(S) /\ at = Charged(S)
  BY <1>3, Charging
<1>5. Uniform(s1) /\ Uniform(cl) /\ Uniform(at)
  BY <1>3, <1>4, Charging
<1>6. \A t \in Tickets :
        /\ s1[t] # status[t] => t \in S /\ s1[t] = "failed"
        /\ s1[t] = "failed" => status[t] = "failed" \/ at[t] >= MaxAttempts
        /\ s1[t] \in {"none", "queued"} => at[t] < MaxAttempts
        /\ at[t] >= attempts[t]
        /\ t \notin S => at[t] = attempts[t] /\ cl[t] = claim[t]
        /\ t \in S => cl[t] = NoClaim
  BY <1>3, <1>4, Charging
<1>7. PICK st \in [Tickets -> Status] : st = ExpiredAfter(s1, cl)
  BY DEF ExpiredAfter, Status, Terminal
<1>8. Uniform(st)
  BY <1>5, <1>7 DEF Uniform, ExpiredAfter
<1>9. \A t \in Tickets :
        st[t] = IF s1[t] = "queued" /\ cl[t] = NoClaim /\ EntryOf[t] \in expired
                THEN "failed" ELSE s1[t]
  BY <1>7 DEF ExpiredAfter
<1>10. SettleEntries(Tickets, st, cl) /\ attempts' = at
  BY <1>2, <1>4, <1>7 DEF SweepStaleClaims
<1>11. worker' \in [Workers -> WorkerState] /\ WorkerSound'
  BY <1>1 DEF IInv, TypeOK, WorkerSound
<1>12. Whole(Tickets) /\ Tickets \in SUBSET Tickets
  BY DEF Whole
<1>13. \A t \in Tickets :
         /\ st[t] # status[t] => /\ status[t] = "queued" /\ st[t] = "failed" /\ t \in Tickets
                                 /\ EntryOf[t] \in expired \/ at[t] >= MaxAttempts
         /\ st[t] \in {"none", "queued"} => at[t] < MaxAttempts
         /\ cl[t] # NoClaim => cl[t] = claim[t] /\ st[t] = status[t] /\ at[t] = attempts[t]
  BY <1>3, <1>6, <1>9
<1>14. IInv' /\ status' = st /\ claim' = cl
  BY <1>1, <1>5, <1>6, <1>8, <1>10, <1>11, <1>12, <1>13, FailingStep
<1> QED BY <1>2, <1>4, <1>13, <1>14

-----------------------------------------------------------------------------
(* The invariant. *)

\* The empty tables satisfy the invariant.
LEMMA InitialState == Init => IInv
<1> SUFFICES ASSUME Init PROVE IInv
  OBVIOUS
<1>1. TypeOK
  BY QueueConstants DEF Init, TypeOK, Status, WorkerState, Idle
<1>2. EntryUniform /\ EntryFollowsTickets /\ ClaimSound /\ FailedForCause /\ WorkerSound
  BY QueueConstants DEF Init, EntryUniform, EntryFollowsTickets, ClaimSound, FailedForCause, WorkerSound, Idle
<1>3. RosterExact /\ BelowCap
  BY QueueConstants DEF Init, RosterExact, BelowCap, MatchIds, NoMatch
<1> QED BY <1>1, <1>2, <1>3 DEF IInv

\* Every transaction and every worker step keeps it.
LEMMA InvariantStep == IInv /\ [Next]_vars => IInv'
<1> SUFFICES ASSUME IInv, [Next]_vars PROVE IInv'
  OBVIOUS
<1>1. CASE \E t \in Tickets : Enqueue(t) \/ Cancel(t)
  BY <1>1, EnqueueStep, CancelStep
<1>2. CASE \E e \in Entries : QueueParty(e) \/ CancelParty(e)
  BY <1>2, QueuePartyStep, CancelPartyStep
<1>3. CASE (\E e \in Entries : EntryExpires(e)) \/ (\E c \in ClaimIds : LeaseLapses(c))
  BY <1>3, ClockSteps
<1>4. ASSUME NEW w \in Workers, Process(w) PROVE IInv'
  BY <1>4, ClaimStep, WorkerSteps, CommitSteps, ReturnSteps, ReleaseStep DEF Process, Resolve
<1>5. CASE SweepStaleClaims
  BY <1>5, SweepStep
<1>6. CASE UNCHANGED vars
  BY <1>6 DEF vars, tickets, IInv, TypeOK, EntryUniform, EntryFollowsTickets, RosterExact, ClaimSound,
              FailedForCause, BelowCap, WorkerSound
<1> QED BY <1>1, <1>2, <1>3, <1>4, <1>5, <1>6 DEF Next

\* The inductive invariant holds in every reachable state of the queue.
THEOREM InductiveInvariant == Spec => []IInv
<1> QED BY InitialState, InvariantStep, PTL DEF Spec

\* A party is never split, by any interleaving of claims, commits, releases,
\* sweeps and cancels: settleEntries, requireWholeEntries and the claim's WHERE.
THEOREM PartyNeverSplit == Spec => []EntryUniform
<1>1. IInv => EntryUniform
  BY DEF IInv
<1> QED BY <1>1, InductiveInvariant, PTL

\* A match's roster is exactly the tickets that name the match.
THEOREM RosterSound == Spec => []RosterExact
<1>1. IInv => RosterExact
  BY DEF IInv
<1> QED BY <1>1, InductiveInvariant, PTL

\* A claim is only on tickets that are still in the queue and below the cap.
THEOREM ClaimsSound == Spec => []ClaimSound
<1>1. IInv => ClaimSound
  BY DEF IInv
<1> QED BY <1>1, InductiveInvariant, PTL

\* A ticket fails by its TTL or by MaxAttempts charged attempts only.
THEOREM FailuresHaveCause == Spec => []FailedForCause
<1>1. IInv => FailedForCause
  BY DEF IInv
<1> QED BY <1>1, InductiveInvariant, PTL

\* A matched, cancelled or failed ticket stays so, with its match.
THEOREM OutcomesAreFinal == Spec => TerminalIsFinal
<1> DEFINE Final == \A t \in Tickets :
                      status[t] \in Terminal => status'[t] = status[t] /\ matchOf'[t] = matchOf[t]
<1>1. ASSUME IInv, [Next]_vars PROVE Final
  <2> SUFFICES ASSUME NEW t \in Tickets, status[t] \in Terminal
               PROVE  status'[t] = status[t] /\ matchOf'[t] = matchOf[t]
    OBVIOUS
  <2>0. status[t] \notin {"none", "queued"} /\ status \in [Tickets -> Status]
    BY <1>1 DEF Terminal, IInv, TypeOK
  <2>1. CASE \E s \in Tickets : Enqueue(s)
    BY <1>1, <2>0, <2>1 DEF Enqueue, StaleOf
  <2>2. CASE \E s \in Tickets : Cancel(s)
    <3>1. PICK s \in Tickets : Cancel(s)
      BY <2>2
    <3>2. status' = [status EXCEPT ![s] = "cancelled"] /\ matchOf' = matchOf /\ status[s] = "queued"
      BY <1>1, <3>1, CancelStep DEF Cancel
    <3> QED BY <1>1, <2>0, <3>2
  <2>3. CASE \E e \in Entries : QueueParty(e)
    <3>1. PICK e \in Entries : QueueParty(e)
      BY <2>3
    <3>2. EntryOf[t] # e
      BY <1>1, <2>0, <3>1 DEF QueueParty, IInv, EntryFollowsTickets
    <3> QED BY <3>1, <3>2 DEF QueueParty
  <2>4. CASE \E e \in Entries : CancelParty(e)
    <3>1. PICK e \in Entries : CancelParty(e)
      BY <2>4
    <3> QED BY <1>1, <2>0, <3>1, CancelPartyStep DEF CancelParty
  <2>5. CASE (\E e \in Entries : EntryExpires(e)) \/ (\E c \in ClaimIds : LeaseLapses(c)) \/ UNCHANGED vars
    BY <2>5 DEF EntryExpires, LeaseLapses, vars, tickets
  <2>6. ASSUME NEW w \in Workers, CommitMatch(w) \/ CommitAnswerLost(w)
        PROVE  status'[t] = status[t] /\ matchOf'[t] = matchOf[t]
    BY <1>1, <2>0, <2>6, CommitSteps DEF Committable, Held
  <2>7. ASSUME NEW w \in Workers, ReleaseTickets(w)
        PROVE  status'[t] = status[t] /\ matchOf'[t] = matchOf[t]
    BY <1>1, <2>0, <2>7, ReleaseStep DEF ReleaseTickets, FailedAtCap, Held
  <2>8. ASSUME NEW w \in Workers, Process(w), ~CommitMatch(w), ~CommitAnswerLost(w), ~ReleaseTickets(w)
        PROVE  status'[t] = status[t] /\ matchOf'[t] = matchOf[t]
    BY <2>8 DEF Process, Resolve, ClaimBucket, NextGroup, GroupsDone, BackendFails, BackendFull,
                CommitDrifted, CommitShort, CallFails, Crash, ReturnTickets, ReturnUnmatched, tickets
  <2>9. CASE SweepStaleClaims
    BY <1>1, <2>0, <2>9, SweepStep DEF SweepStaleClaims
  <2> QED BY <1>1, <2>1, <2>2, <2>3, <2>4, <2>5, <2>6, <2>7, <2>8, <2>9 DEF Next
<1>2. IInv /\ [Next]_vars => [Final]_vars
  BY <1>1
<1> QED BY <1>2, InductiveInvariant, PTL DEF Spec, TerminalIsFinal

\* While a lease runs, only its holder's steps and cancellations end the claim:
\* no other worker's claim, release or return and no sweep touches the tickets.
THEOREM LeasesAreRespected == Spec => LeaseRespected
<1> DEFINE Respected ==
      \A t \in Tickets :
         (claim[t] # NoClaim /\ claim'[t] # claim[t]) =>
            \/ claim[t] \in lapsed
            \/ status'[t] = "cancelled"
            \/ \E w \in Workers : worker[w].claim = claim[t] /\ worker'[w] # worker[w]
<1>1. ASSUME IInv, [Next]_vars PROVE Respected
  <2> SUFFICES ASSUME NEW t \in Tickets, claim[t] # NoClaim, claim'[t] # claim[t]
               PROVE  \/ claim[t] \in lapsed
                      \/ status'[t] = "cancelled"
                      \/ \E w \in Workers : worker[w].claim = claim[t] /\ worker'[w] # worker[w]
    OBVIOUS
  <2>0. status \in [Tickets -> Status] /\ claim \in [Tickets -> ClaimIds \union {NoClaim}]
        /\ worker \in [Workers -> WorkerState]
    BY <1>1 DEF IInv, TypeOK
  <2>1. CASE (\E s \in Tickets : Enqueue(s)) \/ (\E e \in Entries : QueueParty(e) \/ EntryExpires(e))
             \/ (\E c \in ClaimIds : LeaseLapses(c)) \/ UNCHANGED vars
    BY <2>1 DEF Enqueue, QueueParty, EntryExpires, LeaseLapses, vars, tickets
  <2>2. CASE \E s \in Tickets : Cancel(s)
    <3>1. PICK s \in Tickets : Cancel(s)
      BY <2>2
    <3>2. status' = [status EXCEPT ![s] = "cancelled"] /\ claim' = [claim EXCEPT ![s] = NoClaim]
      BY <1>1, <3>1, CancelStep
    <3> QED BY <2>0, <3>2
  <2>3. CASE \E e \in Entries : CancelParty(e)
    BY <1>1, <2>3, CancelPartyStep
  <2>4. ASSUME NEW w \in Workers, ClaimBucket(w) PROVE FALSE
    BY <2>4 DEF ClaimBucket, Claimable, TicketsOf
  <2>5. ASSUME NEW w \in Workers, CommitMatch(w) \/ CommitAnswerLost(w)
        PROVE  worker[w].claim = claim[t] /\ worker'[w] # worker[w]
    <3>1. t \in Committable(w)
      BY <1>1, <2>5, CommitSteps
    <3>2. worker[w].pc = "resolve" /\ worker'[w].pc # "resolve"
      BY <2>0, <2>5 DEF CommitMatch, CommitAnswerLost, GroupOver, Goto, WorkerState
    <3> QED BY <3>1, <3>2 DEF Committable, Held
  <2>6. ASSUME NEW w \in Workers, ReleaseTickets(w) \/ ReturnTickets(w)
        PROVE  worker[w].claim = claim[t] /\ worker'[w] # worker[w]
    <3>1. claim' = Unclaimed(Held(w))
      BY <1>1, <2>6, ReleaseStep DEF ReturnTickets
    <3>2. worker[w].pc # "next" /\ worker'[w].pc = "next"
      BY <2>0, <2>6 DEF ReleaseTickets, ReturnTickets, GroupOver, WorkerState
    <3> QED BY <3>1, <3>2 DEF Unclaimed, Held
  <2>7. ASSUME NEW w \in Workers, ReturnUnmatched(w)
        PROVE  worker[w].claim = claim[t] /\ worker'[w] # worker[w]
    BY <2>0, <2>7 DEF ReturnUnmatched, Unclaimed, Idle
  <2>8. ASSUME NEW w \in Workers, Process(w), ~ClaimBucket(w), ~CommitMatch(w), ~CommitAnswerLost(w),
               ~ReleaseTickets(w), ~ReturnTickets(w), ~ReturnUnmatched(w)
        PROVE  FALSE
    BY <2>8 DEF Process, Resolve, NextGroup, GroupsDone, BackendFails, BackendFull,
                CommitDrifted, CommitShort, CallFails, Crash, tickets
  <2>9. CASE SweepStaleClaims
    BY <1>1, <2>9, SweepStep DEF Unclaimed, LapsedTickets
  <2> QED BY <1>1, <2>1, <2>2, <2>3, <2>4, <2>5, <2>6, <2>7, <2>8, <2>9 DEF Next
<1>2. IInv /\ [Next]_vars => [Respected]_vars
  BY <1>1
<1> QED BY <1>2, InductiveInvariant, PTL DEF Spec, LeaseRespected

-----------------------------------------------------------------------------
(* The queue implements the board. *)

\* With uniform entries the outcome is that of any of the entry's tickets.
LEMMA OutcomeOfTicket ==
  ASSUME EntryUniform, NEW t \in Tickets
  PROVE  OutcomeOf(EntryOf[t]) = status[t]
<1> DEFINE one == CHOOSE s \in TicketsOf(EntryOf[t]) : TRUE
<1>1. one \in TicketsOf(EntryOf[t])
  BY DEF TicketsOf
<1>2. \A s \in TicketsOf(EntryOf[t]) : status[s] = status[one] /\ status[t] = status[one]
  BY <1>1 DEF TicketsOf, EntryUniform
<1> QED BY <1>1, <1>2 DEF OutcomeOf

\* The board's view of an entry after a step is the status of any of its tickets.
LEMMA OutcomeOfTicketNext ==
  ASSUME EntryUniform', NEW t \in Tickets
  PROVE  OutcomeOf(EntryOf[t])' = status'[t]
<1> DEFINE one == CHOOSE s \in TicketsOf(EntryOf[t]) : TRUE
<1>1. one \in TicketsOf(EntryOf[t])
  BY DEF TicketsOf
<1>2. \A s \in TicketsOf(EntryOf[t]) : status'[s] = status'[one] /\ status'[t] = status'[one]
  BY <1>1 DEF TicketsOf, EntryUniform
<1> QED BY <1>1, <1>2 DEF OutcomeOf

\* A step of the queue that moves the tickets of whole entries E from the queue
\* to one outcome, or leaves all of them, shows on the board as just that.
LEMMA OutcomesMove ==
  ASSUME EntryUniform, EntryUniform', NEW E \in SUBSET Entries, NEW o,
         \A t \in Tickets : status'[t] = IF EntryOf[t] \in E THEN o ELSE status[t]
  PROVE  [e \in Entries |-> OutcomeOf(e)]' = [e \in Entries |-> IF e \in E THEN o ELSE OutcomeOf(e)]
<1> SUFFICES ASSUME NEW e \in Entries
             PROVE  OutcomeOf(e)' = IF e \in E THEN o ELSE OutcomeOf(e)
  OBVIOUS
<1>1. PICK t \in Tickets : EntryOf[t] = e
  BY QueueConstants
<1>2. OutcomeOf(e) = status[t]
  BY <1>1, OutcomeOfTicket
<1>3. OutcomeOf(e)' = status'[t]
  BY <1>1, OutcomeOfTicketNext
<1> QED BY <1>1, <1>2, <1>3

\* What the board sees.
BoardOutcome == [e \in Entries |-> OutcomeOf(e)]
BoardTeams == {EntriesOf(roster[m]) : m \in {n \in MatchIds : roster[n] # {}}}

\* Nothing on the board moves while no status and no roster does.
LEMMA BoardStutters ==
  ASSUME status' = status, roster' = roster
  PROVE  BoardOutcome' = BoardOutcome /\ BoardTeams' = BoardTeams
<1> QED BY DEF BoardOutcome, BoardTeams, OutcomeOf, EntriesOf

\* Whole entries that leave the queue without a match.
LEMMA BoardDrops ==
  ASSUME IInv, IInv', roster' = roster, NEW o \in {"cancelled", "failed"},
         \A t \in Tickets : status'[t] # status[t] => status[t] = "queued" /\ status'[t] = o
  PROVE  [Board!Next]_(Board!vars)
<1>1. PICK E \in SUBSET Entries :
        \A e \in Entries : e \in E <=> \E t \in Tickets : EntryOf[t] = e /\ status'[t] # status[t]
  <2> DEFINE D == {e \in Entries : \E t \in Tickets : EntryOf[t] = e /\ status'[t] # status[t]}
  <2> WITNESS D \in SUBSET Entries
  <2> QED OBVIOUS
<1>2. \A t \in Tickets : status'[t] = IF EntryOf[t] \in E THEN o ELSE status[t]
  BY <1>1, QueueConstants DEF IInv, EntryUniform
<1>3. BoardOutcome' = [e \in Entries |-> IF e \in E THEN o ELSE BoardOutcome[e]]
  BY <1>2, OutcomesMove DEF IInv, BoardOutcome
<1>4. E \subseteq {e \in Entries : BoardOutcome[e] = "queued"}
  <2> SUFFICES ASSUME NEW e \in E PROVE OutcomeOf(e) = "queued"
    BY DEF BoardOutcome
  <2>1. PICK t \in Tickets : EntryOf[t] = e /\ status'[t] # status[t]
    BY <1>1
  <2> QED BY <2>1, OutcomeOfTicket DEF IInv
<1>5. BoardTeams' = BoardTeams
  BY DEF BoardTeams, EntriesOf
<1> QED BY <1>3, <1>4, <1>5
        DEF BoardOutcome, BoardTeams, Board!Next, Board!Drop, Board!Become, Board!Waiting, Board!vars

\* Enqueue and QueueParty join.
LEMMA BoardJoins ==
  ASSUME IInv, IInv', roster' = roster, NEW j \in Entries, NEW Stale \in SUBSET Entries, j \notin Stale,
         \A t \in Tickets : EntryOf[t] = j => status[t] = "none",
         \A t \in Tickets : EntryOf[t] \in Stale => status[t] = "queued",
         \A t \in Tickets : status'[t] = IF EntryOf[t] = j THEN "queued"
                                         ELSE IF EntryOf[t] \in Stale THEN "failed" ELSE status[t]
  PROVE  [Board!Next]_(Board!vars)
<1>1. ASSUME NEW e \in Entries
      PROVE  /\ BoardOutcome'[e] = IF e = j THEN "queued"
                                   ELSE IF e \in Stale THEN "failed" ELSE BoardOutcome[e]
             /\ e \in Stale => BoardOutcome[e] = "queued"
             /\ e = j => BoardOutcome[e] = "none"
  <2>1. PICK t \in Tickets : EntryOf[t] = e
    BY QueueConstants
  <2>2. BoardOutcome[e] = status[t]
    BY <2>1, OutcomeOfTicket DEF IInv, BoardOutcome
  <2>3. BoardOutcome'[e] = status'[t]
    BY <2>1, OutcomeOfTicketNext DEF IInv, BoardOutcome
  <2> QED BY <2>1, <2>2, <2>3
<1>2. BoardOutcome' = [e \in Entries |-> IF e = j THEN "queued"
                                         ELSE IF e \in Stale THEN "failed" ELSE BoardOutcome[e]]
  BY <1>1 DEF BoardOutcome
<1>3. BoardOutcome' = [[e \in Entries |-> IF e \in Stale THEN "failed" ELSE BoardOutcome[e]]
                         EXCEPT ![j] = "queued"]
  BY <1>2
<1>4. Stale \subseteq {e \in Entries : BoardOutcome[e] = "queued"} /\ BoardOutcome[j] = "none"
  BY <1>1
<1>5. BoardTeams' = BoardTeams
  BY DEF BoardTeams, EntriesOf
<1> QED BY <1>3, <1>4, <1>5
        DEF BoardOutcome, BoardTeams, Board!Next, Board!Join, Board!Become, Board!Waiting, Board!vars

\* A commit is a match of the group's entries; of none when the group is empty,
\* and then nothing moves.
LEMMA BoardMatches ==
  ASSUME IInv, IInv', NEW G \in SUBSET Entries, NEW S \in SUBSET Tickets, NEW m \in MatchIds,
         S = TicketsIn(G), roster[m] = {}, roster' = [roster EXCEPT ![m] = S],
         \A t \in S : status[t] = "queued",
         status' = [t \in Tickets |-> IF t \in S THEN "matched" ELSE status[t]]
  PROVE  [Board!Next]_(Board!vars)
<1>0. roster \in [MatchIds -> SUBSET Tickets]
  BY DEF IInv, TypeOK
<1>1. CASE G = {}
  <2>1. S = {}
    BY <1>1 DEF TicketsIn
  <2>2. roster' = roster /\ status' = status
    BY <2>1, <1>0 DEF IInv, TypeOK
  <2> QED BY <2>2, BoardStutters DEF BoardOutcome, BoardTeams, Board!vars
<1>2. CASE G # {}
  <2>1. \A t \in Tickets : status'[t] = IF EntryOf[t] \in G THEN "matched" ELSE status[t]
    BY DEF TicketsIn
  <2>2. BoardOutcome' = [e \in Entries |-> IF e \in G THEN "matched" ELSE BoardOutcome[e]]
    BY <2>1, OutcomesMove, SMTT(60) DEF IInv, BoardOutcome
  <2>3. G \subseteq {e \in Entries : BoardOutcome[e] = "queued"}
    <3> SUFFICES ASSUME NEW e \in G PROVE OutcomeOf(e) = "queued"
      BY DEF BoardOutcome
    <3>1. PICK t \in Tickets : EntryOf[t] = e
      BY QueueConstants
    <3> QED BY <3>1, OutcomeOfTicket DEF IInv, TicketsIn
  <2>4. EntriesOf(S) = G /\ S # {}
    <3>1. \A e \in G : \E t \in Tickets : EntryOf[t] = e
      BY QueueConstants
    <3> QED BY <1>2, <3>1 DEF EntriesOf, TicketsIn
  <2>5. BoardTeams' = BoardTeams \union {G}
    <3>1. ASSUME NEW T PROVE T \in BoardTeams' <=> T \in BoardTeams \union {G}
      <4>1. T \in BoardTeams' <=> \E n \in MatchIds : roster'[n] # {} /\ T = EntriesOf(roster'[n])
        BY DEF BoardTeams, EntriesOf
      <4>2. T \in BoardTeams <=> \E n \in MatchIds : roster[n] # {} /\ T = EntriesOf(roster[n])
        BY DEF BoardTeams
      <4>3. \A n \in MatchIds : roster'[n] = IF n = m THEN S ELSE roster[n]
        BY <1>0
      <4> QED BY <4>1, <4>2, <4>3, <2>4
    <3> QED BY <3>1
  <2> QED BY <1>2, <2>2, <2>3, <2>5
          DEF BoardOutcome, BoardTeams, Board!Next, Board!Match, Board!Become, Board!Waiting, Board!vars
<1> QED BY <1>1, <1>2

\* Every behaviour of the queue is one of the board: entries join, match and leave
\* once and as a whole, whatever the workers, leases and sweeps do underneath.
THEOREM QueueImplementsBoard == Spec => ImplementsBoard
<1>1. Init => Board!Init
  <2> SUFFICES ASSUME Init PROVE Board!Init
    OBVIOUS
  <2>1. IInv
    BY InitialState
  <2>2. ASSUME NEW e \in Entries PROVE OutcomeOf(e) = "none"
    <3>1. PICK t \in Tickets : EntryOf[t] = e
      BY QueueConstants
    <3> QED BY <2>1, <3>1, OutcomeOfTicket DEF IInv, Init
  <2>3. {n \in MatchIds : roster[n] # {}} = {}
    BY DEF Init
  <2> QED BY <2>2, <2>3 DEF Board!Init
<1>2. ASSUME IInv, IInv', [Next]_vars PROVE [Board!Next]_(Board!vars)
  <2>0. status \in [Tickets -> Status]
    BY <1>2 DEF IInv, TypeOK
  <2>1. ASSUME NEW t \in Tickets, Enqueue(t) PROVE [Board!Next]_(Board!vars)
    <3>1. PICK Stale \in SUBSET Entries :
            \A e \in Entries : e \in Stale <=> \E s \in StaleOf(PlayerOf[t]) : EntryOf[s] = e
      <4> DEFINE D == {e \in Entries : \E s \in StaleOf(PlayerOf[t]) : EntryOf[s] = e}
      <4> WITNESS D \in SUBSET Entries
      <4> QED OBVIOUS
    <3>2. \A s \in StaleOf(PlayerOf[t]) : s \in Tickets /\ status[s] = "queued" /\ EntryOf[s] \notin Parties
      BY <2>1 DEF Enqueue, StaleOf
    <3>3. \A s \in Tickets : EntryOf[s] \in Stale <=> s \in StaleOf(PlayerOf[t])
      BY <3>1, <3>2, QueueConstants
    <3>4. \A s \in Tickets : EntryOf[s] = EntryOf[t] <=> s = t
      BY <2>1, QueueConstants DEF Enqueue
    <3>5. /\ status[t] = "none" /\ roster' = roster /\ EntryOf[t] \in Entries
          /\ \A s \in Tickets : status'[s] = IF s = t THEN "queued"
                                             ELSE IF s \in StaleOf(PlayerOf[t]) THEN "failed" ELSE status[s]
      BY <2>1, QueueConstants DEF Enqueue
    <3>6. EntryOf[t] \notin Stale
      BY <3>2, <3>3, <3>5
    <3>7. PICK j \in Entries : j = EntryOf[t]
      BY <3>5
    <3> QED BY <1>2, <3>2, <3>3, <3>4, <3>5, <3>6, <3>7, BoardJoins
  <2>2. ASSUME NEW e \in Entries, QueueParty(e) PROVE [Board!Next]_(Board!vars)
    <3>1. \A t \in Tickets : EntryOf[t] = e => status[t] = "none"
      BY <1>2, <2>2 DEF QueueParty, IInv, EntryFollowsTickets
    <3>2. PICK Stale \in SUBSET Entries : \A x : x \notin Stale
      <4> WITNESS {} \in SUBSET Entries
      <4> QED OBVIOUS
    <3>3. /\ roster' = roster
          /\ \A t \in Tickets : status'[t] = IF EntryOf[t] = e THEN "queued"
                                             ELSE IF EntryOf[t] \in Stale THEN "failed" ELSE status[t]
      BY <2>2, <3>2 DEF QueueParty
    <3> QED BY <1>2, <3>1, <3>2, <3>3, BoardJoins
  <2>3. ASSUME NEW t \in Tickets, Cancel(t) PROVE [Board!Next]_(Board!vars)
    <3>1. /\ status' = [status EXCEPT ![t] = "cancelled"] /\ roster' = roster
          /\ status[t] = "queued"
      BY <1>2, <2>3, CancelStep DEF Cancel
    <3>2. \A s \in Tickets : status'[s] # status[s] => status[s] = "queued" /\ status'[s] = "cancelled"
      BY <2>0, <3>1
    <3> QED BY <1>2, <3>1, <3>2, BoardDrops
  <2>4. ASSUME NEW e \in Entries, CancelParty(e) PROVE [Board!Next]_(Board!vars)
    <3>1. /\ roster' = roster
          /\ \A s \in Tickets : status'[s] # status[s] => status[s] = "queued" /\ status'[s] = "cancelled"
      BY <1>2, <2>4, CancelPartyStep DEF CancelParty
    <3> QED BY <1>2, <3>1, BoardDrops
  <2>5. ASSUME NEW w \in Workers, ReleaseTickets(w) PROVE [Board!Next]_(Board!vars)
    <3>1. roster' = roster /\ status' = FailedAtCap(Held(w))
      BY <1>2, <2>5, ReleaseStep DEF ReleaseTickets
    <3>2. \A s \in Tickets : status'[s] # status[s] => status[s] = "queued" /\ status'[s] = "failed"
      BY <3>1 DEF FailedAtCap, Held
    <3> QED BY <1>2, <3>1, <3>2, BoardDrops
  <2>6. CASE SweepStaleClaims
    <3>1. roster' = roster
      BY <2>6 DEF SweepStaleClaims
    <3>2. \A s \in Tickets : status'[s] # status[s] => status[s] = "queued" /\ status'[s] = "failed"
      BY <1>2, <2>6, SweepStep
    <3> QED BY <1>2, <3>1, <3>2, BoardDrops
  <2>7. ASSUME NEW w \in Workers, CommitMatch(w) \/ CommitAnswerLost(w) PROVE [Board!Next]_(Board!vars)
    <3>1. PICK S \in SUBSET Tickets, m \in MatchIds :
            /\ S = TicketsIn(worker[w].group) /\ S = Committable(w)
            /\ roster[m] = {} /\ roster' = [roster EXCEPT ![m] = S]
            /\ status' = [t \in Tickets |-> IF t \in S THEN "matched" ELSE status[t]]
      BY <1>2, <2>7, CommitSteps
    <3>2. PICK G \in SUBSET Entries : G = worker[w].group
      BY <1>2 DEF IInv, TypeOK, WorkerState
    <3>3. \A t \in S : status[t] = "queued"
      BY <3>1 DEF Committable, Held
    <3> QED BY <1>2, <3>1, <3>2, <3>3, BoardMatches
  <2>8. ASSUME status' = status, roster' = roster PROVE [Board!Next]_(Board!vars)
    BY <2>8, BoardStutters DEF BoardOutcome, BoardTeams, Board!vars
  <2>9. ASSUME NEW w \in Workers, Process(w), ~CommitMatch(w), ~CommitAnswerLost(w), ~ReleaseTickets(w)
        PROVE  status' = status /\ roster' = roster
    BY <2>9 DEF Process, Resolve, ClaimBucket, NextGroup, GroupsDone, BackendFails, BackendFull,
                CommitDrifted, CommitShort, CallFails, Crash, ReturnTickets, ReturnUnmatched, tickets
  <2>10. CASE (\E e \in Entries : EntryExpires(e)) \/ (\E c \in ClaimIds : LeaseLapses(c)) \/ UNCHANGED vars
    <3>1. status' = status /\ roster' = roster
      BY <2>10 DEF EntryExpires, LeaseLapses, vars, tickets
    <3> QED BY <3>1, <2>8
  <2> QED BY <1>2, <2>1, <2>2, <2>3, <2>4, <2>5, <2>6, <2>7, <2>8, <2>9, <2>10 DEF Next
<1>3. IInv /\ IInv' /\ [Next]_vars => [Board!Next]_(Board!vars)
  BY <1>2
<1> QED BY <1>1, <1>3, InductiveInvariant, PTL DEF Spec, ImplementsBoard, Board!Spec
=============================================================================
