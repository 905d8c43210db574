SPECIFICATION FairSpec
CONSTANTS
  Events = {e1, e2}
  Cells = {c1, c2, c3, c4}
  NoEvent = NoEvent
  NoCell = NoCell
  MaxWhen = 2
INVARIANTS TypeOK OnTime HandlesAlive
PROPERTIES CancelledNeverRuns EventRuns
