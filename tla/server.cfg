CONSTANTS
  a1 = a1
  a2 = a2
  song = song
  flag = flag
  body = body
  d1 = d1
  d2 = d2
  NoOne = NoOne
  None = None
  Records = {a1, a2}
  Fields = {flag, body}
  Values = {0, 1}
  DefaultFlag = flag
  SongOf <- MCSongOf
  Devices = {d1, d2}
  OpIds = {1, 2, 3, 4}
  Tables = 2
  TableOf <- TwoTables
  PageLimit = 1
  MaxClock = 3
  Ops <- DefaultOps
  Pullers = {d1}
  MaxBatch = 2
  MaxSeq = 3
SPECIFICATION Spec
INVARIANTS IInv AtMostOnce OneDefault PullSound
 
CHECK_DEADLOCK FALSE
