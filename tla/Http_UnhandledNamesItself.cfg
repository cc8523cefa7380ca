CONSTANTS
  Request = {1, 2}
  Ip = {"a", "b"}
  IpOf <- MCIpOf
  MaxPerIp = 1
  IdleEvict = 1
  MaxTime = 1
  SentId <- MCSentId
  FreshId <- MCFreshId
  NoId = 0
  NoField = 1
  Unrouted = {400, 404, 405}
  enable_security_headers = FALSE
  Raised = {"QueueFullError"}
SPECIFICATION HttpSpec
INVARIANTS
  UnhandledNamesItself
CHECK_DEADLOCK FALSE
