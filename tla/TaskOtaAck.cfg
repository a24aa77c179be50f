SPECIFICATION TaskSpec
CONSTANTS
  Temps = {20, 22}
  Hums = {50}
  BootConfig <- MCEveryPoll
  Configs <- MCNone
  Env = {"publish", "ota"}
  SensorMayFail = FALSE
  ReadAttempts = 2
  MaxPolls = 4
  MaxAcks = 0
  AckOverlap = TRUE
  MaxConfigs = 0
  HeaterPolls = 0
  AwakePolls = 1
INVARIANTS
  AckedWasDelivered
