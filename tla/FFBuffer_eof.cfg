SPECIFICATION FairSpec
CONSTANTS
  Source = {"audio", "video"}
  MinCache = 1
  MaxCache = 2
  CacheStep = 1
  CacheingTime = 1
  MaxGap = 1
  MaxJump = 1
  MaxDts = 2
  MaxPacket = 2
  MaxInput = 0
PROPERTIES
  KeepsQueue
  EofCloses
CHECK_DEADLOCK FALSE
