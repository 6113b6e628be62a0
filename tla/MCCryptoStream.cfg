SPECIFICATION FairSpec
CONSTANTS
  Configs <- MCConfigs
  MaxPackets = 2
  MaxStarts = 1
  MaxEngines = 2
  MaxClicks = 1
INVARIANTS
  SecureKeys
  NoOldKeys
  ClosedHasNoKeys
  StopIsAnswered
  ExchangeIsHeard
PROPERTIES
  CloseEnds
CHECK_DEADLOCK FALSE
