SPECIFICATION Spec
CONSTANTS
  HaveHmac = TRUE
  MaxKeys = 3
  MinRsaBits = 2048
  MaxRsaBits = 16384
  Docs <- KeyvalRsa
  Faults = {}
INVARIANT
  RsaBounded
CHECK_DEADLOCK FALSE
