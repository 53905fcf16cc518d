SPECIFICATION FairSpec
CONSTANTS
  HopStep = 4
  PktMax <- MCPktMax
  HitDiff <- MCHitDiff
  AlwaysSlots <- MCAlwaysSlots
  HoldSlots = 1
  KeyboardSupport = TRUE
  Retry = 1
  SyncTh = 1
  SearchTh = 2
  Kinds = {"kb"}
  Search = Search
  NoAck = NoAck
INVARIANTS
  SharedChannel
PROPERTIES
  SearchesWhenDeaf
