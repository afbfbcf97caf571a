SPECIFICATION MCSpec
CONSTANTS
  N = 4
  Inputs <- AllInputs
  Accounts = {a1, a2}
  Sockets = {s1, s2, s3}
  QueueSize = 2
  MaxFrames = 3
  Requests = {r1, r2}
  MaxTokens = 3
  MaxCodes = 2
  CodeAttempts = 2
  LifetimeAttempts = 3
  Challenges = {c1, c2}
  CodeCap = 2
  Spares = {"a"}
  MaxSecrets = 2
  MaxSets = 2
  LastStep = 2
  Users = {u1, u2, u3}
  FirstAdmins = {u1, u2}
  Invitations = {i1, i2}
  Signups = {q1, q2}
  Emails = {e1, e2}
  Names = {"one", "two"}
  Upgrades = {g1, g2}
  TopTier = 2
  Handlers = {h1, h2}
  MaxTenants = 2
  Senders = {d1, d2}
  Confirmers = {f1}
  MaxSent = 3
  SignIns = {n1, n2}
  Resets = {t1, t2}
  Unlinks = {k1, k2}
  Providers = {"a", "b"}
  MaxLinks = 2
  MaxChanges = 2
INVARIANTS
  GroupsSound
  RelaySound
  CodesSpentOnce
  AdminsSound
  NewestCodeWorks
  AccessSound
PROPERTIES
  BlockHolds
  SignInsSound
  RequestsSound
CHECK_DEADLOCK FALSE
