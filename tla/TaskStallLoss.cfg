SPECIFICATION TaskSpec
CONSTANTS
  Temps = {20, 22}
  Hums = {50}
  BootConfig <- MCSkipOne
  Configs <- MCNone
  Env = {"publish", "stall"}
  SensorMayFail = FALSE
  ReadAttempts = 2
  MaxPolls = 3
  MaxAcks = 0
  AckOverlap = TRUE
  MaxConfigs = 0
  HeaterPolls = 0
  AwakePolls = 1
INVARIANTS
  TriedIsKept
