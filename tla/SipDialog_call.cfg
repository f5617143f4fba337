SPECIFICATION FairSpec
CONSTANT MaxIncoming = 2
INVARIANTS
  TypeOK
  
  Agreement
  
  
PROPERTIES
  
  CallerDecides
  EndsTogether
CHECK_DEADLOCK FALSE
