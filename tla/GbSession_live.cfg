SPECIFICATION ServedSpec
CONSTANTS
  Thread = {t1, t2, t3}
  NoThread = NoThread
  Limit = 0
  Wrap = 3
  MaxCtx = 2
  MaxStart = 1
  MaxRelease = 0
  MaxOut = 2
PROPERTIES
  LapseNoticed
  RegistrationRetried
CHECK_DEADLOCK FALSE
