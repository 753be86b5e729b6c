CONSTANTS
  BlockCapacity = 7
  WordWidth = 2
  EncodedWidth = 1
  Workload = {{"insert", "update", "batch"}, {"insert", "update_string", "delete", "blocks"}, {"insert", "blocks", "csv", "file"}, {"insert", "csv", "large"}}
  FixedWidths = {1, 2}
  RowId = {1, 2, 3}
  Value = {0, 1}
  Size = {0, 2, 6, 7}
  MaxRows = 3
  MaxCopies = 2
SPECIFICATION Spec
INVARIANTS
  PoolIsLive
  BlocksFit
  RowsCounted
  RowsFound
\* A full table stops.
CHECK_DEADLOCK FALSE
