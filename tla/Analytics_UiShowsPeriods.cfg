CONSTANTS
  Instant <- MCInstant
  Token <- MCToken
  Batch <- MCBatch
  MaxRetries = 1
  MaxAccess = 1
  MaxAmbiguous = 0
  MaxStarts = 1
SPECIFICATION FairSpec
PROPERTIES
  UiShowsPeriods
CHECK_DEADLOCK FALSE
