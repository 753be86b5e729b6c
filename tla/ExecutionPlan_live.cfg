CONSTANTS
  num_workers = 2
  kContinuationMask = 10
  MaxContinuations = 5
  NumOperators = 1
SPECIFICATION FairQuerySpec
PROPERTIES
  QueryReturns
\* A plan that stops is what QueryReturns rules out; ExecutionPlan_safety
\* checks for deadlock.
CHECK_DEADLOCK FALSE
