SPECIFICATION Spec
CONSTANTS
  Games = {g1, g2}
  Conns = {c1, c2}
  NoConn = NoConn
  W = 3
  R = 1
  NumSlots = 3
  OwnMin = 12
  OwnMax = 13
  InitItems <- MCInitItems
  MaxWaiting = 1
  Events = {"crash", "exit", "award"}
SYMMETRY Symm
INVARIANTS TypeOK NoSharedAhead RecordAgrees AwardIdsApart FreshAhead
CHECK_DEADLOCK FALSE
