SPECIFICATION FairSpec
CONSTANTS
  MaxCall = 1
  MaxTalk = 2
  MaxGiveUp = 1
INVARIANTS
  AudioMatches
PROPERTIES
  InviteHandled
CHECK_DEADLOCK FALSE
