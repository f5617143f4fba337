SPECIFICATION Spec
CONSTANTS
  Thread = {t1, t2, t3}
  NoThread = NoThread
  Limit = 1
  Wrap = 5
  MaxCtx = 2
  MaxStart = 1
  MaxRelease = 1
  MaxOut = 3
INVARIANTS
  OneKeepAlive
  TypeOK
  LeakBound
  SingleDriver
  Accounting
PROPERTIES
  KeepsSession
SYMMETRY ThreadSymmetry
CHECK_DEADLOCK FALSE
