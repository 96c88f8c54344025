CONSTANTS
  d1 = d1
  d2 = d2
  a = a
  b = b
  Devices = {d1, d2}
  Base = 4
  Sets = {1, 2}
  Items = {11, 12, 13, 14}
  AtStart = 2
  MaxTasks = 2
  f1 = f1
  f2 = f2
  f3 = f3
  s1 = s1
  s2 = s2
  p1 = p1
  Root = Root
  Folders = {f1, f2, f3}
  Songs = {s1, s2}
  Placements = {p1}
  Me = d1
  Arrangements = {1, 2, 3}
  PrefRows = {11, 12}
  There = {1, 2}
  MaxTyped = 1
  MaxActs = 2
  MarkIds = {1, 2, 3}
  Sheet = {1}
  People = {a, b}
  MaxStrokes = 2
  MaxUndos = 1
  Capos = {0, 1, 11}
  MaxPicks = 2
  MaxAsked = 3
SPECIFICATION Spec
INVARIANTS OrdersAreKept LibraryStaysWhole OneDefaultArrangement MarksAreKept 
PROPERTIES TypingIsKept 
CHECK_DEADLOCK FALSE
