CONSTANTS
  Api = {1, 2, 3}
  Ui = {}
  Uploads = {1}
  IpOf <- MCIpOf
  MaxPerIp = 1
  MaxConcurrent = 1
  MaxQueue = 1
  Workers = 2
  Nobody = 0
SPECIFICATION Spec
INVARIANT
  InFlightBounded
CHECK_DEADLOCK FALSE
