SPECIFICATION Spec
CONSTANTS
  Temps = {20, 22}
  Hums = {50, 60}
  BootConfig <- MCPlain
  Configs <- MCNone
  SensorMayFail = TRUE
  ReadAttempts = 1
  MaxPolls = 4
  MaxAcks = 2
  AckOverlap = TRUE
  MaxConfigs = 0
INVARIANTS
  BaselineIsAcked
