SPECIFICATION Spec
CONSTANTS
  g1 = g1
  g2 = g2
  p1 = p1
  p2 = p2
  p3 = p3
  Games = {g1, g2}
  Pids = {p1, p2, p3}
  Ids = {1, 2, 3, 4}
  NoOne = NoOne
  NoId = NoId
  NoParty = NoParty
  MaxMembers = 3
  MaxQueue = 2
  MaxBreaks = 1
  Undeterred = FALSE
  Events = {"drop", "crash", "restart"}
SYMMETRY Swap
INVARIANTS TypeOK PointersAlive CopiesAgree
