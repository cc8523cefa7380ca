CONSTANTS
  Api = {2, 3}
  Ui = {9}
  Uploads = {3, 9}
  IpOf <- MCIpOf
  MaxPerIp = 1
  MaxConcurrent = 1
  MaxQueue = 1
  Workers = 1
  Nobody = 0
SPECIFICATION FairSpec
INVARIANTS
  BacklogIsAwaited
  FileThereWhileAwaited
  LeftoverOnlyIfGivenUp
  CountsResults
PROPERTIES
  EveryRequestEnds
CHECK_DEADLOCK FALSE
