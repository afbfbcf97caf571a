SPECIFICATION MCFairSpec
CONSTANTS
  m1 = m1
  m2 = m2
  p1 = p1
  Matches = {m1, m2}
  Players = {p1}
  Roster <- BothOfOnePlayer
  Cap = 1
  Retries = 1
  Cleaner = TRUE
  LostAnswers = TRUE
  Straddle = FALSE
  ta = ta
  tb = tb
  tc = tc
  td = td
  party = party
  solo1 = solo1
  solo2 = solo2
  Tickets <- MCTickets
  Entries <- MCEntries
  EntryOf <- MCEntryOf
  PlayerOf <- MCPlayerOf
  Workers = {w1}
  Batch = 3
  MaxAttempts = 1
  MaxClaims = 1
  MaxMatches = 2
PROPERTIES
  ServersSettle
  QueueSettles
CHECK_DEADLOCK FALSE
