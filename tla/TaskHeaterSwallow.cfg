SPECIFICATION TaskSpec
CONSTANTS
  Temps = {20, 22}
  Hums = {50}
  BootConfig <- MCSkipOneHeater
  Configs <- MCNone
  Env = {"lost"}
  SensorMayFail = FALSE
  ReadAttempts = 2
  MaxPolls = 3
  MaxAcks = 0
  AckOverlap = TRUE
  MaxConfigs = 0
  HeaterPolls = 3
  AwakePolls = 1
INVARIANTS
  LeftoverIsHandled
