SPECIFICATION TaskSpec
CONSTANTS
  Temps = {20}
  Hums = {50}
  BootConfig <- MCEveryPollHeater
  Configs <- MCNone
  Env = {"lost"}
  SensorMayFail = FALSE
  ReadAttempts = 2
  MaxPolls = 4
  MaxAcks = 0
  AckOverlap = TRUE
  MaxConfigs = 0
  HeaterPolls = 9
  AwakePolls = 1
INVARIANTS
  StallRebootMeansDead
