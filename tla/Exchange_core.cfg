SPECIFICATION Spec
CONSTANTS
  a = a
  b = b
  gem = gem
  pike = pike
  book1 = book1
  book2 = book2
  ring = ring
  card = card
  soul1 = soul1
  soul2 = soul2
  Players = {a, b}
  Items = {gem, pike, book1, book2, ring, card, soul1, soul2}
  Cards = {card}
  NoOne = NoOne
  NoItem = NoItem
  MaxSlots = 2
  Cols = 1
  GoldMax = 2
  Room <- CoreRoom
  Kind <- CoreKind
  Size <- CoreSize
  Mem <- CoreMem
  Starts <- CoreStarts
INVARIANTS TypeOK MarksMatchWindows NoOverlap
PROPERTIES ItemsMoveByConsent FirstItemArrives
