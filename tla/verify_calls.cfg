SPECIFICATION FairSpec
CONSTANTS
  HaveHmac = TRUE
  MaxCalls = 2
  Requests <- CallRequests
INVARIANTS
  TypeOK
PROPERTIES
  PolicySpec
  Answers
CHECK_DEADLOCK FALSE
