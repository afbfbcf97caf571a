SPECIFICATION Spec
CONSTANTS
  ta = ta
  tb = tb
  tc = tc
  party = party
  solo1 = solo1
  w1 = w1
  w2 = w2
  Tickets <- MCTickets
  Entries <- MCEntries
  Parties <- MCParties
  EntryOf <- MCEntryOf
  PlayerOf <- MCPlayerOf
  Workers <- MCWorkers
  Batch = 3
  MaxAttempts = 2
  MaxClaims = 3
  MaxMatches = 2
SYMMETRY Symmetry
CHECK_DEADLOCK FALSE
INVARIANTS
  RosterExact
  ClaimSound
  FailedForCause
PROPERTIES
  LeaseRespected
  ImplementsBoard
