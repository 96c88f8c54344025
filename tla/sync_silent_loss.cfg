CONSTANTS
  d1 = d1
  d2 = d2
  s1 = s1
  s2 = s2
  title = title
  notes = notes
  NoOne = NoOne
  None = None
  Devices = {d1, d2}
  Values = {0, 1}
  DefaultFlag = title
  SongOf <- OwnSong
  Records = {s1}
  Fields = {title}
  OpIds = {1, 2, 3}
  Tables = 1
  TableOf <- OneTable
  PageLimit = 2
  MaxClock = 8
  Writers = {d1, d2}
  Edits <- FlipTitle
  BatchSize = 2
  Seed <- HasS1
  Newcomers = {}
  MaxFaults = 1
SPECIFICATION Spec
PROPERTY LoserIsKept
