SPECIFICATION FairSpec
CONSTANTS
  Games = {g1}
  Conns = {c1, c2}
  NoConn = NoConn
  W = 2
  R = 1
  NumSlots = 4
  OwnMin = 20
  OwnMax = 24
  InitItems <- MCInitItems
  MaxWaiting = 1
  Events = {"drop", "restart", "destroy"}
INVARIANTS DbExclusive
PROPERTIES RequestAnswered
CHECK_DEADLOCK FALSE
