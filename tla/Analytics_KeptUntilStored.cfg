CONSTANTS
  Instant <- MCInstant
  Token <- MCToken
  Batch <- MCBatch
  MaxRetries = 1
  MaxAccess = 2
  MaxAmbiguous = 1
  MaxStarts = 1
SPECIFICATION Spec
INVARIANT
  KeptUntilStored
CHECK_DEADLOCK FALSE
