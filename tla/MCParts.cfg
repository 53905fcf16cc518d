SPECIFICATION MCSpec
CONSTANTS
  pen = pen
  kb = kb
  mouse = mouse
  Devices = {pen, kb, mouse}
  Pens = {pen}
  DevType <- MCDevType
  NoDid = NoDid
  ZeroDid = ZeroDid
  BadDid = BadDid
  Slots = 2
  MaxResets = 2
  KbChords <- MCKbChords
  VK_LOCK = "lock"
  KB_WINDOW = 6
  KB_REPEAT = 6
  KB_IDLE = 8
  KB_RETRY = 3
  KB_RING = 2
  KEY_BUF_SIZE = 4
  KB_RETURN_KEY_MAX = 2
  KbMaxStalls = 3
  KB_ID_KEYS = 2
  KmRows = 2
  KmCols = {"x", "y"}
  KmFingers = 4
  KM_WINDOW = 6
  VrKeys = {"a"}
  VrRing = 4
  VR_RELEASE = 2
  VR_SUSPEND = 6
  MMEM_SIZE = 3
  MmBlocks = {b1, b2, b3}
  MmSizes = {0, 1, 2}
  RbSize = 3
  RbMax = 8
  AttTables <- MCAttTables
  AttMtu = 23
INVARIANTS
  PartsTypeOK
  Durable
  KbFlushed
  KbLocks
  KmSettled
  VrRingIsQueue
  VrReleaseLast
  MmKeeps
  AttDiscovered
PROPERTIES
  WorkingStays
  KmNoPhantom
  RbInOrder
CHECK_DEADLOCK FALSE
