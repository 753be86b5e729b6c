CONSTANTS
  d1 = d1
  d2 = d2
  t1 = t1
  t2 = t2
  Database = {d1, d2}
  TableName = {t1, t2}
  BlockCapacity = 7
  WordWidth = 2
  EncodedWidth = 1
  RowId = {1, 2}
  Value = {0, 1}
  Size = {0}
  Workload <- MCWorkload
  MaxRecords = 2
SPECIFICATION Spec
INVARIANTS
  Mirror
  LogIsDifference
  NothingLeftBehind
