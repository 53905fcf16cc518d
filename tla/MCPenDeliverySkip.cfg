SPECIFICATION Spec
CONSTANTS
  N = 2
  SeqMod = 16
  NoAckMax = 3
  Debounce = 2
  MaxPut = 6
INVARIANT SkipsOnlySamePacket
