SPECIFICATION MCFair
CONSTANTS
  N = 4
  MaxPno = 2
  MaxPut = 5
  MaxEvents = 1
  Free = Free
  RC_BUTTON_OVER_THRESH = 3
INVARIANTS
  MouseTypeOK
  NewestSurvives
PROPERTIES
  InOrderOnce
  ButtonReleased
  OneKeyPerPress
  OneLongPress
