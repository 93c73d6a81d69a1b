SPECIFICATION Spec
CONSTANTS
  HaveHmac = TRUE
  MaxCalls = 1
  Requests <- DocRequests
INVARIANT
  CompatibleKeysTried
CHECK_DEADLOCK FALSE
