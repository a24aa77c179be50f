SPECIFICATION Spec
CONSTANTS
  Temps = {20}
  Hums = {88, 95}
  BootConfig <- MCPlain
  Configs <- MCTunedSet
  SensorMayFail = TRUE
  ReadAttempts = 1
  MaxPolls = 1
  MaxAcks = 0
  AckOverlap = FALSE
  MaxConfigs = 1
INVARIANTS
  ConfigReadOnce
