SPECIFICATION Spec
CONSTANTS
  Accounts = {a1}
  Games = {g1}
  Descs = {d1, d2}
  Keys = {k1, k2}
  LDs = {1, 2, 3}
  None = None
  MaxQueue = 1
  MaxAsks = 1
  Events = {"crash", "drop", "restart", "dc", "collide"}
SYMMETRY Symm
INVARIANTS TypeOK PointersAlive
CHECK_DEADLOCK FALSE
