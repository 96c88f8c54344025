CONSTANTS
  d1 = d1
  d2 = d2
  Devices = {d1, d2}
  MaxCodes = 2
  MaxJoins = 2
  MaxFaults = 1
  MaxItems = 2
  MaxLines = 4
  Laptops = {d1, d2}
  Images = {"i1", "i2"}
  MaxUploads = 2
  MaxPaints = 2
  MaxCuts = 1
  Limit = 2
  MaxEdits = 2
  MaxTyped = 3
  MaxKeys = 8
  Windows = {d1, d2}
  Files = {"f1", "f2"}
  NameOf <- OneName
  MaxComing = 3
  MaxWrong = 1
SPECIFICATION DeskSpec
INVARIANTS OneDevicePerCode SlidesTellTheSet  SearchAnswersTheBox ColumnsSurvive FilesLand
PROPERTIES JoinsEnd
CHECK_DEADLOCK FALSE
