CONSTANTS
  num_workers = 2
  kContinuationMask = 5
  MaxContinuations = 2
SPECIFICATION Spec
INVARIANTS
  TypeOK
  DependenciesFirst
  WorkersConserved
  TasksConserved
  ReleaseFindsTask
  JoinLosesNothing
PROPERTIES
  ImplementsTaskGraph
