CONSTANTS
  num_rows <- MCRows
  MaxTerms = 4
SPECIFICATION Spec
INVARIANTS
  FiltersExact
  JoinsExact
  ProducersLinked
  ReorderExact
\* Planning ends.
CHECK_DEADLOCK FALSE
