CONSTANTS
  BlockCapacity = 7
  WordWidth = 2
  FixedWidths = {2}
  EncodedWidth = 1
  Workload = {{"insert", "delete"}}
  RowId = {1, 2, 3}
  Value = {0}
  Size = {0}
  MaxRows = 3
  MaxCopies = 2
SPECIFICATION Spec
INVARIANTS
  RowsHeld
\* A full table stops.
CHECK_DEADLOCK FALSE
