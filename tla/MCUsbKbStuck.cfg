SPECIFICATION FairSpec
CONSTANTS
  Keys = {a}
  None = None
  Free = Free
  MaxEvents = 2
PROPERTY TimeoutReleases
