CONSTANTS
  SliceLength = 2
  Threads = 2
  CHAR_BIT = 2
  HashBits = 16
  HashFactor = 31153
  CellsPerValue = 1
  CombineFactor = 31161
  TenPower = 3
  Keys1 = {1}
  Keys2 = {2}
  Values1 = {2}
  Queries <- FilteredQueries
SPECIFICATION Spec
INVARIANT FiltersUnchanged
CHECK_DEADLOCK FALSE
