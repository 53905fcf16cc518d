SPECIFICATION FairSpec
CONSTANTS
  Keys = {a}
  None = None
  Free = Free
  MaxEvents = 3
INVARIANTS
  Remembered
PROPERTIES
  KeysReleased
