CONSTANTS
  num_workers = 2
  kContinuationMask = 11
  MaxContinuations = 6
  NumOperators = 3
SPECIFICATION QuerySpec
CONSTRAINT Connected
INVARIANTS
  ProducersFirst
  ResultComplete
