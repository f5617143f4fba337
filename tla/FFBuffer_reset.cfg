SPECIFICATION Spec
CONSTANTS
  Source = {"video"}
  MinCache = 1
  MaxCache = 2
  CacheStep = 1
  CacheingTime = 1
  MaxGap = 1
  MaxJump = 1
  MaxDts = 3
  MaxPacket = 3
  MaxInput = 1
INVARIANT TimeIsReset
CHECK_DEADLOCK FALSE
