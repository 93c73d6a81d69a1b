SPECIFICATION FairSpec
CONSTANTS
  MaxJwtSize = 14
  MaxJwtHeader = 5
  Tokens <- AllTokens
  Faults = {"alloc", "cleanup", "json"}
INVARIANTS
  TypeOK
  DecodesExactly
  TokenWhole
  JsonReachable
  OctetsCleansed
PROPERTIES
  KeepsCustody
  EventuallyReclaimed
CHECK_DEADLOCK FALSE
