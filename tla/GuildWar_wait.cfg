SPECIFICATION Spec
CONSTANTS
  Pairs = {p}
  Games = {g}
  Types = {"battle"}
  Wars = {1, 2}
  Elems = {1, 2, 3}
  None = None
  ReserveSecs = 1
  WaitSecs = 1
  FieldSecs = 1
  BattleSecs = 2
  MaxQueue = 2
  Faults = {}
INVARIANTS WaitsThenFights
