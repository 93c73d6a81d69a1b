SPECIFICATION Spec
CONSTANTS
  HaveHmac = TRUE
  MaxCalls = 1
  Requests <- DocRequests
INVARIANT
  ThumbprintNamesOneKey
CHECK_DEADLOCK FALSE
