SPECIFICATION Spec
CONSTANTS
  Temps = {20, 22}
  Hums = {50}
  BootConfig <- MCPlain
  Configs <- MCNone
  SensorMayFail = TRUE
  ReadAttempts = 10
  MaxPolls = 2
  MaxAcks = 0
  AckOverlap = FALSE
  MaxConfigs = 0
INVARIANTS
  FallThroughNotTorn
