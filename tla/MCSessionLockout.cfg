SPECIFICATION SessionSpec
CONSTANTS
  Players = {p1, p2, p3}
  MaxPlayers = 2
  MaxOpen = 1
INVARIANTS
  MatchedStayAdmitted
CHECK_DEADLOCK FALSE
