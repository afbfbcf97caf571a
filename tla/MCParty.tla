------------------------------ MODULE MCParty ------------------------------
(* Two kinds of settings: a duel and a match of four.                      *)
EXTENDS Party, TLC

CONSTANTS a, b, c, p1, duel, squad

Three == {a, b, c}
OneParty == {p1}
Kinds == {duel, squad}
Sizes == duel :> 2 @@ squad :> 4

AllFriends == {f \in Three \X Three : f[1] # f[2]}

(***************************************************************************)
(* Two states that differ in copies no longer current, or in what a member *)
(* agreed to before it was last made unready, have the same future:        *)
(* versions never come back.  Of what it agreed to, only the members and   *)
(* the settings are ever looked at.  Nor does it matter which codes and    *)
(* invites are left for a party that has used up its versions: all they    *)
(* can still do is run out, or show their target what members see too.     *)
(***************************************************************************)
Essential ==
  <<rows, presence, roster, solo, open,
    [p \in Parties |-> IF Room(p) THEN code[p] ELSE 0],
    {i \in invites : Room(i[1])},
    [pl \in Players |-> IF \E p \in Parties : Current(pl, p) THEN seen[pl] ELSE NoView],
    [pl \in Players |-> IF ready[pl] # 0
                       THEN <<agreed[pl].members, agreed[pl].row.settings>> ELSE <<>>]>>

SymmetryOfThree == Permutations(Three)
=============================================================================
