SPECIFICATION AttemptsSpec
CONSTANTS
  Redeemers = {p1}
  Addresses = {i1}
  Redemptions = {r1}
  PlayerFailures = 2
  IPFailures = 3
  Cooldown = 3
  RedeemTime = 1
INVARIANT
  WithinBudget
CHECK_DEADLOCK FALSE
