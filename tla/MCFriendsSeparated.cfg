SPECIFICATION FriendsSpec
CONSTANTS
  Accounts = {a1, a2}
INVARIANT
  BlockSeparates
