CONSTANTS
  Request = {1, 2, 3, 4}
  Ip = {"a", "b"}
  IpOf <- MCIpOf
  MaxPerIp = 2
  IdleEvict = 1
  MaxTime = 2
  SentId <- MCSentId
  FreshId <- MCFreshId
  NoId = 0
  NoField = 1
  Unrouted = {400}
  enable_security_headers = TRUE
  Raised = {"ValidationError", "QueueFullError"}
SPECIFICATION HttpSpec
INVARIANTS
  SlotsExact
  FairShare
  HttpTypeOK
  IdsAgree
  SecuredUnlessUnhandled
CHECK_DEADLOCK FALSE
