CONSTANTS
  Api = {1, 2, 3, 4}
  Ui = {}
  Uploads = {1}
  IpOf <- MCIpOf
  MaxPerIp = 1
  MaxConcurrent = 1
  MaxQueue = 1
  Workers = 1
  Nobody = 0
SPECIFICATION Spec
INVARIANTS
  TypeOK
  NothingHeldAfterwards
  NoMonopoly
CHECK_DEADLOCK FALSE
