SPECIFICATION Spec
CONSTANTS
  a = a
  b = b
  c = c
  p1 = p1
  duel = duel
  squad = squad
  Players <- Three
  Parties <- OneParty
  Settings <- Kinds
  MaxCount <- Sizes
  Friends <- AllFriends
  Loners <- Three
  MaxMembers = 3
  MaxUses = 2
  MaxVersion = 8
  Skew = FALSE
SYMMETRY SymmetryOfThree
VIEW Essential
CHECK_DEADLOCK FALSE
INVARIANTS
  QueueSound
  MembersInformed
