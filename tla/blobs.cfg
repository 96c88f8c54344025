CONSTANTS
  d1 = d1
  d2 = d2
  s1 = s1
  s2 = s2
  f1 = f1
  f2 = f2
  None = None
  Devices = {d1, d2}
  Sheets = {s1}
  Files = {f1, f2}
  Makers = {d1}
  Viewers = {d1}
  Keepers = {d2}
  Size <- Sizes
  MaxChanges = 2
  MaxViews = 1
  MaxFaults = 1
SPECIFICATION SmallSpec
INVARIANTS FirstFileIsSafe RowsAreServed
 
CHECK_DEADLOCK FALSE
