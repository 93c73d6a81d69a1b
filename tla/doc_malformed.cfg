SPECIFICATION Spec
CONSTANTS
  HaveHmac = TRUE
  MaxCalls = 1
  Requests <- MalformedRequests
INVARIANT
  MalformedReported
CHECK_DEADLOCK FALSE
