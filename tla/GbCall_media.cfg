SPECIFICATION Spec
CONSTANTS
  MaxCall = 2
  MaxTalk = 1
  MaxGiveUp = 1
INVARIANTS
  TypeOK
  IdsExact
CHECK_DEADLOCK FALSE
