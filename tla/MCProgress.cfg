SPECIFICATION MCFairSpec
CONSTANTS
  Upgrades = {u1, u2, u3}
  MaxHTTP = 1
  Consumers = {c1, c2}
  Buckets = {1}
  Capacity = 2
  Batch = 3
  Min = 2
  MaxTickets = 4
  ann = ann
  bea = bea
  duel = duel
  Players <- Two
  Parties = {p1}
  Settings = {duel}
  MaxCount <- DuelSize
  Friends <- AllFriends
  Loners <- Two
  MaxMembers = 3
  MaxUses = 1
  MaxVersion = 4
  Skew = TRUE
INVARIANTS
  DrainNeverMissesWork
  NoSocketMissesCloseAll
  WakeupsServed
PROPERTIES
  ShutdownCompletes
  FormableGroupsRun
  LostMembersLeave
CHECK_DEADLOCK FALSE
