CONSTANTS
  d1 = d1
  d2 = d2
  s1 = s1
  s2 = s2
  title = title
  notes = notes
  NoOne = NoOne
  None = None
  Devices = {d1}
  Values = {0, 1}
  DefaultFlag = title
  SongOf <- OwnSong
  Records = {s1}
  Fields = {title}
  OpIds = {1, 2}
  Tables = 1
  TableOf <- OneTable
  PageLimit = 2
  MaxClock = 0
  Writers = {d1}
  Edits <- CreateEditDelete
  BatchSize = 2
  Seed <- HasS1
  Newcomers = {}
  MaxFaults = 2
SPECIFICATION Spec
PROPERTIES OutboxHolds PullsNeverGoBack
