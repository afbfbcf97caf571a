SPECIFICATION MCSpec
CONSTANTS
  m1 = m1
  m2 = m2
  p1 = p1
  Matches = {m1, m2}
  Players = {p1}
  Roster <- BothOfOnePlayer
  Cap = 1
  Retries = 0
  Cleaner = TRUE
  LostAnswers = FALSE
  Straddle = TRUE
  Holders = {h1, h2}
  Caps <- MCCaps
  Block = 1
  Allowance = 1
  Unheard = {h1}
  Nodes = {"n1"}
  RegionOf <- MCRegionOf
  Embedded = "self"
  Probers = {b1}
  Readers = {r1}
  ProbeInterval = 1
  FreshnessWindow = 2
  CacheTTL = 2
  LongestRead = 2
  Allocations = {a1, a2, a3}
  Closers = {k1, k2}
  MaxAllocations = 1
  Burst = 1
  Rate = 1
  LastTick = 1
  Issuers = {i1, i2}
  Allowances = {0, 2}
  LastMonth = 1
  MaxRestarts = 2
  PingFailureBudget = 2
  HealthyPings = 2
  MaxLaunches = 4
SYMMETRY Passes
INVARIANTS
  MatchHasServer
  WorkIsTracked
  CapSound
  AdvertisedAreFresh
  RelayAccountsSound
  PluginSound
CHECK_DEADLOCK FALSE
