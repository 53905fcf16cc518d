SPECIFICATION Spec
CONSTANTS
  pen = pen
  kb = kb
  mouse = mouse
  Devices = {pen, kb, mouse}
  Pens = {pen}
  DevType <- MCDevType
  NoDid = NoDid
  ZeroDid = ZeroDid
  BadDid = BadDid
  Slots = 2
  MaxResets = 2
INVARIANT AskedIsBound
