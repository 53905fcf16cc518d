SPECIFICATION MCFair
CONSTANTS
  LedCfgs <- MCLedCfgs
  KP_POWER_ON = 1
  KP_PAIRING = 3
  KP_NO_QUICK = 5
  KP_NO_LINK = 4
  KP_BASIC = 3
  KP_LONG = 1
  KP_IDLE = 2
  KP_WINDOW = 3
  KP_BATT = 5
  KP_LED = 1
  VC_DEBOUNCE = 2
  VC_REPEAT = 1
  VC_RETRY = 3
  VC_BASIC = 1
  VC_NO_LINK = 3
  VC_NO_QUICK = 1
  VcSeqs = 2
  VC_SEQ_SAVED = 1
  VcChords <- MCVcChords
  VcStill = 5
  VR_TIMEOUT = 4
  PpQueue = 2
  PpNoAck = 3
  PpDebounce = 2
  PpSyncLoops = 6
  PP_8MS = 3
  PP_100MS = 2
  PpLed = 3
  PpSleepEn = TRUE
  PpQuickEn = TRUE
  UcChunk = 2
  UcDescLen <- MCDescLen
  UcLengths = {1, 6}
  BltFifo = 2
  BltSuper = 1
  BltInstTop = 4
  BltAhead = {2}
  BltMaps = {m1, m2}
  BltPutMax = 2
  BltCmdMax = 2
INVARIANTS
  LiveTypeOK
  LedShown
  SleepTakesNothing
  VcSettled
  UcExact
  BltMapFollows
PROPERTIES
  DevicesRest
  VcBalanced
  HostServed
  RwNoSpuriousWake
  BltInOrder
  BltArrives
