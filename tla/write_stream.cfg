SPECIFICATION Spec
CONSTANTS
  Length = 6
  kMaxChunkSize = 2
INVARIANTS TypeOK StoredAsGiven
PROPERTY WriteReturns
CHECK_DEADLOCK FALSE
