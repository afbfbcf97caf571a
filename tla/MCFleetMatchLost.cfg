SPECIFICATION Spec
CONSTANTS
  m1 = m1
  m2 = m2
  p1 = p1
  Matches = {m1}
  Players = {p1}
  Roster <- BothOfOnePlayer
  Cap = 1
  Retries = 1
  Cleaner = TRUE
  LostAnswers = TRUE
  Straddle = TRUE
INVARIANT
  DiscardsOnlyUncommitted
