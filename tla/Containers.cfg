CONSTANTS
  kWidth = 4
  LoadFactor = 4
  H2Bits = 2
  HashOf <- MCHash
  kNodeValues = 3
  KeysOf <- MCKeys
  ValsOf <- MCVals
  Sources <- MCSources
  Sizes = {4}
  ParallelBits = 1
  ClearLimit = 3
  MaxCopies <- MCCopies
  blockLength = 3
  slotsize = 2
  XOR_MAX_ITERATIONS = 2
  FilterKeys <- MCFilterKeys
  PosOf <- MCPos
  stripe_len = 4
  internal_buffer_stripes = 2
  nbStripesPerBlock = 3
  midsize_max = 7
  MaxLen = 70
  Words <- MCWords
SPECIFICATION Spec
INVARIANTS MapExact TableVerified TreeVerified TreeExact EraseReturnsNext XorExact StreamExact RecordExact
