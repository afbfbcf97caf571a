--------------------------- MODULE GroupFormation ---------------------------
(***************************************************************************)
(* formGroups of internal/matchmaker/groups.go: one pass over the tickets  *)
(* of a claim that splits them into groups to be matched.  A step handles  *)
(* a seed, one candidate of fillGroup's loop, the end of that loop, or the *)
(* group it has filled.                                                    *)
(*                                                                         *)
(* Tickets are numbered in pool order: by created_at, then id.  Ages       *)
(* matter only against two thresholds, so they are two numbers: how many   *)
(* of the oldest tickets have waited relaxAfter, and how many have waited  *)
(* regionRelaxAfter.  Tickets of one entry share their criteria, as the    *)
(* party's settings are copied to each of them; a player has one ticket.   *)
(* Queries are abstracted to the pairs of tickets they reject.             *)
(***************************************************************************)
EXTENDS Naturals, Sequences, FiniteSets, SequencesExt

CONSTANTS
  N,        \* tickets in the claim
  Inputs    \* the claims to form groups of

ASSUME NAssumption == N \in Nat \ {0}

\* A claim: each ticket's entry, each entry's criteria, the rejected pairs and
\* the two ages.  An entry's tickets have one created_at, so that no age falls
\* between them.
ASSUME InputsAssumption ==
  \A in \in Inputs :
    /\ in.entry \in [1..N -> 1..N]
    /\ \A e \in 1..N : /\ in.crit[e].max \in Nat
                       /\ in.crit[e].min \in 1..in.crit[e].max
                       /\ in.crit[e].mult \in Nat \ {0}
    /\ in.rejects \subseteq (1..N) \X (1..N)
    /\ in.relaxed \in 0..N /\ in.widen \in 0..N
    /\ \A i, j \in 1..N :
         in.entry[i] = in.entry[j] => {in.relaxed, in.widen} \cap i .. j - 1 = {}

VARIABLES
  claim,    \* the input
  seed,     \* the next seed
  used,     \* tickets in a group
  groups,   \* the groups formed so far, each a sequence of tickets
  pass,     \* "seed" between groups, "same" and "other" in fillGroup's two
            \* loops, "filled" when it has returned
  cursor,   \* the loop's next candidate
  group     \* the group being filled

vars == <<claim, seed, used, groups, pass, cursor, group>>

Crit(t) == claim.crit[claim.entry[t]]
EntryTickets(t) == {u \in 1..N : claim.entry[u] = claim.entry[t]}

\* An entry's tickets in pool order.
EntryMembers(t) ==
  CHOOSE f \in [1 .. Cardinality(EntryTickets(t)) -> EntryTickets(t)] :
    \A i, j \in DOMAIN f : i < j => f[i] < f[j]

TypeOK ==
  /\ claim \in Inputs
  /\ seed \in 1 .. N + 1
  /\ used \subseteq 1..N
  /\ groups \in Seq(Seq(1..N))
  /\ pass \in {"seed", "same", "other", "filled"}
  /\ cursor \in 1 .. N + 1
  /\ group \in Seq(1..N)

-----------------------------------------------------------------------------
(* Which tickets go together. *)

NoRegion == "any"

\* bucketWidened: some eligible ticket has waited long enough.
Widened ==
  \E t \in 1 .. claim.widen : Crit(t).cross /\ Crit(t).region # NoRegion

RegionsCompatible(a, b) ==
  \/ Crit(a).region = Crit(b).region
  \/ NoRegion \in {Crit(a).region, Crit(b).region}
  \/ Widened /\ Crit(a).cross /\ Crit(b).cross

Accepts(a, b) == <<a, b>> \notin claim.rejects

MutualAccept(a, b) == Accepts(a, b) /\ Accepts(b, a)

Compatible(a, b) == RegionsCompatible(a, b) /\ MutualAccept(a, b)

CompatibleWithAll(g, c) == \A i \in DOMAIN g : Compatible(g[i], c)

\* The largest size every member's max_count accepts.
JointMax(g) ==
  CHOOSE m \in {Crit(g[i]).max : i \in DOMAIN g} :
    \A i \in DOMAIN g : m <= Crit(g[i]).max

\* Each ticket of the entry goes with the group and with those before it.
EntryCompatible(g, entry) ==
  /\ Len(g) + Len(entry) <= JointMax(entry)
  /\ \A i \in DOMAIN entry :
       /\ CompatibleWithAll(g, entry[i])
       /\ \A j \in 1 .. i - 1 : Compatible(entry[j], entry[i])

-----------------------------------------------------------------------------
(* How many of them. *)

ValidSize(members, size) ==
  \A i \in DOMAIN members :
    LET c == Crit(members[i]) IN size \in c.min .. c.max /\ size % c.mult = 0

\* Any prefix will do.
AnyPrefix(g, size) == TRUE

\* No entry has tickets on both sides of the cut.
WholeEntryPrefix(g, size) ==
  \A i \in 1 .. size, j \in size + 1 .. Len(g) :
    claim.entry[g[i]] # claim.entry[g[j]]

ValidSizes(g) ==
  {size \in 1 .. Len(g) :
     WholeEntryPrefix(g, size) /\ ValidSize(SubSeq(g, 1, size), size)}

\* The largest valid prefix; 0 when there is none.
LargestValidSize(g) ==
  CHOOSE size \in ValidSizes(g) \union {0} : \A other \in ValidSizes(g) : other <= size

Full(g) == Len(g) = JointMax(g)

Relaxed(s) == s <= claim.relaxed

-----------------------------------------------------------------------------
Init ==
  /\ claim \in Inputs
  /\ seed = 1
  /\ used = {}
  /\ groups = <<>>
  /\ pass = "seed"
  /\ cursor = 1
  /\ group = <<>>

\* A seed that is in a group, or whose own entry cannot be one.
PassOver(s) ==
  /\ pass = "seed" /\ seed = s
  /\ s \in used \/ ~EntryCompatible(<<>>, EntryMembers(s))
  /\ seed' = s + 1
  /\ UNCHANGED <<claim, used, groups, pass, cursor, group>>

StartGroup(s) ==
  /\ pass = "seed" /\ seed = s
  /\ s \notin used
  /\ EntryCompatible(<<>>, EntryMembers(s))
  /\ group' = EntryMembers(s)
  /\ pass' = "same"
  /\ cursor' = 1
  /\ UNCHANGED <<claim, seed, used, groups>>

\* What the loop asks of a candidate, in the pass for the seed's own region or
\* in the one for the others.
Joins(c) ==
  LET entry == EntryMembers(c)
      size == Len(group) + Len(entry)
  IN  /\ c \notin used \union ToSet(group)
      /\ (pass = "same") = (Crit(c).region = Crit(seed).region)
      /\ size <= JointMax(group) /\ size <= JointMax(entry)
      /\ EntryCompatible(group, entry)

SkipCandidate(c) ==
  /\ pass \in {"same", "other"} /\ cursor = c
  /\ ~Joins(c)
  /\ cursor' = c + 1
  /\ UNCHANGED <<claim, seed, used, groups, pass, group>>

\* A candidate that fills the group ends both passes.
JoinGroup(c) ==
  /\ pass \in {"same", "other"} /\ cursor = c
  /\ Joins(c)
  /\ group' = group \o EntryMembers(c)
  /\ pass' = IF Full(group') THEN "filled" ELSE pass
  /\ cursor' = c + 1
  /\ UNCHANGED <<claim, seed, used, groups>>

EndOfPass ==
  /\ pass \in {"same", "other"} /\ cursor = N + 1
  /\ pass' = IF pass = "same" /\ Len(group) < JointMax(group) THEN "other" ELSE "filled"
  /\ cursor' = 1
  /\ UNCHANGED <<claim, seed, used, groups, group>>

\* The group is cut to its largest valid size and taken, or given up.
CloseGroup ==
  LET size == LargestValidSize(group)
      cut == SubSeq(group, 1, size)
      taken == size # 0 /\ (Full(cut) \/ Relaxed(seed))
  IN  /\ pass = "filled"
      /\ used' = IF taken THEN used \union ToSet(cut) ELSE used
      /\ groups' = IF taken THEN Append(groups, cut) ELSE groups
      /\ seed' = seed + 1
      /\ pass' = "seed"
      /\ group' = <<>>
      /\ UNCHANGED <<claim, cursor>>

Next ==
  \/ \E s \in 1..N : PassOver(s) \/ StartGroup(s)
  \/ \E c \in 1..N : SkipCandidate(c) \/ JoinGroup(c)
  \/ EndOfPass
  \/ CloseGroup

Spec == Init /\ [][Next]_vars

-----------------------------------------------------------------------------
(* Properties. *)

Done == seed = N + 1
Groups == {groups[i] : i \in DOMAIN groups}

\* GroupsPartition: no ticket is in two groups or twice in one, and an entry
\* is in a group as a whole or not at all: a party is not split by the pass
\* and no player is announced in two matches.
GroupsPartition ==
  /\ \A i, j \in DOMAIN groups : i # j => ToSet(groups[i]) \cap ToSet(groups[j]) = {}
  /\ \A g \in Groups : /\ Cardinality(ToSet(g)) = Len(g)
                       /\ \A t \in ToSet(g) : EntryTickets(t) \subseteq ToSet(g)

\* Every member of a group accepts its size and every other member.
Agreed(g) ==
  /\ \A t \in ToSet(g) : /\ Len(g) >= Crit(t).min /\ Len(g) <= Crit(t).max
                         /\ Len(g) % Crit(t).mult = 0
  /\ \A t, u \in ToSet(g) : t # u =>
       /\ {<<t, u>>, <<u, t>>} \cap claim.rejects = {}
       /\ \/ Cardinality({Crit(t).region, Crit(u).region} \ {NoRegion}) <= 1
          \/ /\ Crit(t).cross /\ Crit(u).cross
             /\ \E v \in 1 .. claim.widen : Crit(v).cross

\* GroupsAgree: every member of a group accepts its size and every other
\* member: mutually by query, and by region unless both opted in to crossing
\* regions and the bucket has widened.
GroupsAgree == \A g \in Groups : Agreed(g)

\* LeftoversNeedOthers: after the pass, an entry that was left over could not
\* have been matched by itself, however the greedy filling went: either its
\* own size is not valid for it, or its members reject each other, or it has
\* neither reached its maximum nor waited relaxAfter.
LeftoversNeedOthers ==
  Done => \A t \in (1..N) \ used :
    LET own == EntryTickets(t) n == Cardinality(own) IN
    ~ /\ n \in Crit(t).min .. Crit(t).max /\ n % Crit(t).mult = 0
      /\ \A u, v \in own : u # v => <<u, v>> \notin claim.rejects
      /\ t <= claim.relaxed \/ n = Crit(t).max

\* The i-th of some groups leaves no region-mate out for somebody else.
PrefersMates(gs, i) ==
  LET s == gs[i][1]
      mates == {m \in ToSet(gs[i]) : Crit(m).region = Crit(s).region}
      taken == UNION {ToSet(gs[j]) : j \in 1..i}
  IN  ToSet(gs[i]) # mates
        => \A u \in (1..N) \ taken :
             (/\ Crit(u).region = Crit(s).region
              /\ EntryTickets(u) = {u}
              /\ Crit(u).max >= Crit(s).max)
             => \E m \in mates : {<<u, m>>, <<m, u>>} \cap claim.rejects # {}

\* SameRegionFirst: a group takes somebody from another region only when every
\* solo ticket of its seed's region that it leaves to later seeds accepts
\* smaller groups only, or is at odds with a region-mate in the group
\* ("Same-region candidates are still preferred after widening").
SameRegionFirst == \A i \in DOMAIN groups : PrefersMates(groups, i)

\* The sizes a pool of like-minded solo tickets must be split into: as many
\* full groups as possible, then the largest valid group of the rest, once
\* its oldest ticket has waited.
ReferenceSizes(c) ==
  LET fulls == N \div c.max
      rest == N % c.max
      valid == {k \in c.min .. rest : k % c.mult = 0}
      due == fulls * c.max + 1 <= claim.relaxed
  IN [i \in 1 .. fulls |-> c.max]
       \o IF due /\ valid # {} THEN <<CHOOSE k \in valid : \A j \in valid : j <= k>> ELSE <<>>

\* UniformPoolsFill: a pool of solo tickets with the same criteria, none of
\* which rejects another, is split as the reference says.
UniformPoolsFill ==
  LET c == claim.crit[1] IN
  (/\ Done
   /\ \A i, j \in 1..N : i # j => claim.entry[i] # claim.entry[j]
   /\ \A e \in 1..N : claim.crit[e] = c
   /\ claim.rejects = {}
   /\ c.max % c.mult = 0)
  => [i \in DOMAIN groups |-> Len(groups[i])] = ReferenceSizes(c)

\* GroupsSound: the groups of a pass share no ticket and split no entry, every
\* member of each agrees to it, and the pass leaves over only what it must: no
\* entry that would do by itself, nothing a pool of equals is short of, nobody
\* of a region while one of another is taken.
GroupsSound ==
  /\ GroupsPartition /\ GroupsAgree
  /\ LeftoversNeedOthers /\ UniformPoolsFill /\ SameRegionFirst
=============================================================================
