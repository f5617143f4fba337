SPECIFICATION Spec
CONSTANTS
  Source = {"video"}
  MinCache = 1
  MaxCache = 2
  CacheStep = 2
  CacheingTime = 0
  MaxGap = 1
  MaxJump = 3
  MaxDts = 5
  MaxPacket = 3
  MaxInput = 1
INVARIANTS
  TypeOK
  InOrderNoLoss
  StatusTold
  BufferBounded
CHECK_DEADLOCK FALSE
