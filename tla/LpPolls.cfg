SPECIFICATION Spec
CONSTANTS
  Temps = {20, 22}
  Hums = {95}
  BootConfig <- MCCoarse
  Configs <- MCTunedSet
  SensorMayFail = TRUE
  ReadAttempts = 2
  MaxPolls = 3
  MaxAcks = 1
  AckOverlap = FALSE
  MaxConfigs = 1
INVARIANTS
  LpTypeOK CleanReadIsStable BaselineIsAcked SilenceBounded
PROPERTIES
  CleanReadIsCurrent UndeliveredIsFlagged
