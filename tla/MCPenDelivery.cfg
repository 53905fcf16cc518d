SPECIFICATION FairSpec
CONSTANTS
  N = 4
  SeqMod = 3
  NoAckMax = 2
  Debounce = 2
  MaxPut = 8
INVARIANTS
  TypeOK
  QueueHoldsLatest
  AckedWasPassedOn
  BudgetLasts
PROPERTIES
  InOrderOnce
  KeyIsReleased
