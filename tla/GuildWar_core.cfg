SPECIFICATION FairSpec
CONSTANTS
  Pairs = {p}
  Games = {g}
  Types = {"field", "battle"}
  Wars = {1}
  Elems = {1, 2}
  None = None
  ReserveSecs = 1
  WaitSecs = 1
  FieldSecs = 2
  BattleSecs = 2
  MaxQueue = 1
  Faults = {"db", "game", "link", "insert"}
INVARIANTS TypeOK ElementsAlive WarsAreBacked StakesPaidOnce
PROPERTIES WarsEnd
