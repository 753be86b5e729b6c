CONSTANTS
  num_workers = 2
  kContinuationMask = 4
  MaxContinuations = 1
SPECIFICATION FairSpec
PROPERTIES
  EveryTaskRuns
  JoinTerminates
