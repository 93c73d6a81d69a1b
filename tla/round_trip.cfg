SPECIFICATION MCSpec
CONSTANTS
  HaveHmac = TRUE
  MaxJwtSize = 16384
  MaxJwtHeader = 8192
  MaxKeys = 2
  MinRsaBits = 2048
  MaxRsaBits = 16384
  IssueFaults = {"alloc", "json", "openssl"}
  KeysetFaults = {"build"}
  DecodeFaults = {"alloc"}
  VerifyFaults = {"setup", "verify"}
  Orders <- AllOrders
  Docs <- AllDocs
INVARIANTS
  TypeOK
  IssuesExactly
  OutputWhole
  KeyReleased
  IssuedDecodes
  AcceptedExactly
CHECK_DEADLOCK FALSE
