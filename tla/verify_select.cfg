SPECIFICATION Spec
CONSTANTS
  HaveHmac = TRUE
  MaxCalls = 1
  Requests <- OneCallRequests
INVARIANTS
  VerdictCorrect
  NoKeyConfusion
  ByKidMirrorsPass1
  OrderIrrelevant
  FaultsOnlyDecline
  InternalErrorReported
  EachKeyOnce
  QueriesDisambiguate
  AlgRespected
CHECK_DEADLOCK FALSE
