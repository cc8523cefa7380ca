CONSTANTS
  Instant <- MCInstant
  Token <- MCToken
  Batch <- MCBatch
  MaxRetries = 2
  MaxAccess = 2
  MaxAmbiguous = 1
  MaxStarts = 2
SPECIFICATION FairSpec
INVARIANTS
  TypeOK
  NothingLost
  NothingInvented
  TotalsMatchStore
  BucketsAddUp
PROPERTIES
  StatsNeverGoBack
  EventuallyStored
CHECK_DEADLOCK FALSE
