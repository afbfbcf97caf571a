SPECIFICATION MCSpec
CONSTANTS
  Players = {p1, p2, p3}
  MaxPlayers = 2
  MaxOpen = 1
  Scorers = {"ann"}
  Submissions = {"s1", "s2"}
  Lengths <- MCLengths
  AttemptCap = 2
  LastPeriod = 2
  Horizon = 6
  Objects = {"save", "world"}
  OwnerOf <- MCOwnerOf
  Writers = {w1, w2}
  Sizes = {1, 2}
  StorageLimit = 3
  MaxWrites = 3
  Ids = {"ann", "bob", "cyd"}
  Creators = {c1, c2}
  PlayerLimit = 2
  Conns = {x1, x2, x3}
  MaxPerPlayer = 2
  HeartbeatInterval = 3
  SlotOverhead = 1
  Streams = {"s1", "s2"}
  CallerOf <- MCCallerOf
  HomeOf <- MCHomeOf
  SweepInterval = 1
  GraceIntervals = 4
  AdmitTime = 1
  Revocable = {"ann"}
  LastEpoch = 1
  Templates = {t1}
  Ledger = {row1}
  Removers = {d1, d2}
  Retries = 1
  Senders = {"ann", "bob"}
  Sends = {m1, m2, m3}
  MaxPerMinute = 1
  Minute = 2
  Expiry = 3
  RequestTime = 1
  Page = 1
  LastSecond = 4
  Features = {"relay"}
  TopClass = 1
  Applies = {b1, b2}
  Admins = {h1}
  Checks = {f1, f2}
  GrantTTL = 2
  Redeemers = {"ann", "bob"}
  Addresses = {"home"}
  Redemptions = {y1, y2}
  PlayerFailures = 1
  IPFailures = 2
  Cooldown = 3
  RedeemTime = 1
INVARIANTS
  SessionsSound
  SlotsBacked
  SweepSound
  SignalsSound
  EntitlementsSound
  AttemptsSound
PROPERTIES
  PeriodsSound
  StorageSound
  PlayersSound
  ManualSound
CHECK_DEADLOCK FALSE
