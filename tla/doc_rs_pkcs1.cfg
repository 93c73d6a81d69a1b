SPECIFICATION Spec
CONSTANTS
  HaveHmac = TRUE
  MaxCalls = 1
  Requests <- PssRequests
INVARIANT
  RsIsPkcs1
CHECK_DEADLOCK FALSE
