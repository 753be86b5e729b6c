CONSTANTS
  SliceLength = 2
  Threads = 2
  CHAR_BIT = 2
  HashBits = 16
  HashFactor = 31153
  CellsPerValue = 1
  CombineFactor = 31161
  TenPower = 3
  Keys1 = {1, 9}
  Keys2 = {2, 9}
  Values1 = {0, 2}
  Queries <- MCQueries
SPECIFICATION Spec
INVARIANTS
  SelectExact
  HashTableExact
  JoinExact
  LIPExact
  HashAggregateExact
  GroupAggregateExact
  AnswerOrdered
PROPERTY QueryEnds
CHECK_DEADLOCK FALSE
