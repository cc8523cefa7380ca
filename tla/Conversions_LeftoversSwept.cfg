CONSTANTS
  Api = {1}
  Ui = {9}
  Uploads = {1}
  IpOf <- MCIpOf
  MaxPerIp = 1
  MaxConcurrent = 1
  MaxQueue = 1
  Workers = 1
  Nobody = 0
SPECIFICATION FairSpec
PROPERTY
  LeftoversSwept
CHECK_DEADLOCK FALSE
