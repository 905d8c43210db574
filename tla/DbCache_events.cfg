SPECIFICATION FairSpec
CONSTANTS
  p1 = p1
  p2 = p2
  a1 = a1
  a2 = a2
  Players = {p1, p2}
  Accounts = {a1}
  AcctOf <- OneAccount
  Items = {i1}
  NoOne = NoOne
  Vals = {0, 1}
  ItemSecs = 1
  LogoutSecs = 1
  FlushLimit = 1
  MaxQueue = 1
  Events = {"safebox", "crash", "flush", "stray", "restart"}
INVARIANTS TypeOK LinksAlive
PROPERTIES EventuallyWritten
