SPECIFICATION FairTaskSpec
CONSTANTS
  Temps = {20}
  Hums = {50}
  BootConfig <- MCEveryPollHeater
  Configs <- MCNone
  Env = {"publish", "lost", "dead"}
  SensorMayFail = FALSE
  ReadAttempts = 2
  MaxPolls = 3
  MaxAcks = 0
  AckOverlap = TRUE
  MaxConfigs = 0
  HeaterPolls = 4
  AwakePolls = 1
INVARIANTS StallRebootMeansDead
PROPERTIES
  DeadIsRebooted FlagIsSeen
