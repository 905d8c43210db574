SPECIFICATION Spec
CONSTANTS
  p1 = p1
  p2 = p2
  a1 = a1
  a2 = a2
  Players = {p1, p2}
  Accounts = {a1, a2}
  AcctOf <- TwoAccounts
  Items = {i1}
  NoOne = NoOne
  Vals = {0, 1}
  ItemSecs = 1
  LogoutSecs = 1
  FlushLimit = 1
  MaxQueue = 2
  Events = {"safebox"}
SYMMETRY Swap
INVARIANTS LoadIsCurrent NothingLost
PROPERTIES LoadReplacesNothing
