SPECIFICATION FairSpec
CONSTANTS
  HaveHmac = TRUE
  MaxKeys = 3
  MinRsaBits = 2048
  MaxRsaBits = 16384
  Docs <- AllDocs
  Faults = {"alloc", "dup", "build", "tp"}
INVARIANTS
  TypeOK
  EveryHandleOwned
  LiveMeansArmed
  NoDanglingViews
  SlotInBounds
  UsableKeys
  KeysetIsFilter
  NoSilentLoss
  ThumbprintCanonical
PROPERTIES
  KeepsCustody
  EventuallyReclaimed
CHECK_DEADLOCK FALSE
