SPECIFICATION FairSpec
INVARIANTS
  TypeOK
  NoUseAfterFree
  Decodable
PROPERTIES
  Reconnects
  VideoResumes
  StopReturns
