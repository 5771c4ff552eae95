SPECIFICATION FairSpec
CONSTANTS
  NoChannel = NoChannel
  Configs <- HopConfigs
CHECK_DEADLOCK FALSE
INVARIANTS
  TypeOK
  FairRound
  Balanced
  NoNeedlessRepeat
  StopCostsOneStep
  HopsFollowSchedule
PROPERTIES
  IsService
  EveryChannelComesRound
