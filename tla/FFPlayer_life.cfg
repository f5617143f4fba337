SPECIFICATION FairSpec
INVARIANTS
  TypeOK
  NeverSilent
  
PROPERTIES
  ToldInOrder
  StopReturns
  KeepsTrying
  ReplayHeeded
  SeekReopens
