SPECIFICATION TaskSpec
CONSTANTS
  Temps = {20}
  Hums = {50}
  BootConfig <- MCSkipOne
  Configs <- MCLongGap
  Env = {}
  SensorMayFail = FALSE
  ReadAttempts = 2
  MaxPolls = 8
  MaxAcks = 0
  AckOverlap = TRUE
  MaxConfigs = 1
  HeaterPolls = 0
  AwakePolls = 1
INVARIANTS
  SafeguardIsSilent
