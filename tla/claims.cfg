SPECIFICATION Spec
CONSTANTS
  Payloads <- AllPayloads
  Names = {"sub", "exp", "iat", "ok", "aud", "a"}
  MaxReads = 4
INVARIANTS
  AnswersAtPath
  NoStaleOutput
CHECK_DEADLOCK FALSE
