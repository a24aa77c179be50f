SPECIFICATION TaskSpec
CONSTANTS
  Temps = {20, 22}
  Hums = {50}
  BootConfig <- MCSkipOne
  Configs <- MCNone
  Env = {"attach", "publish", "lost", "fall", "dead"}
  SensorMayFail = TRUE
  ReadAttempts = 1
  MaxPolls = 4
  MaxAcks = 0
  AckOverlap = TRUE
  MaxConfigs = 0
  HeaterPolls = 0
  AwakePolls = 1
INVARIANTS
  AckedWasDelivered TriedIsKept PublishedOnce LeftoverIsHandled SafeguardIsSilent
