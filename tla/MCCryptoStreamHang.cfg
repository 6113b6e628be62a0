SPECIFICATION FairSpec
CONSTANTS
  Configs <- DefaultConfigs
  MaxPackets = 2
  MaxStarts = 1
  MaxEngines = 2
  MaxClicks = 1
PROPERTIES
  RtpThreadGoesOn
CHECK_DEADLOCK FALSE
