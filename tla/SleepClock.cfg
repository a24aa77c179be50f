SPECIFICATION LightSpec
CONSTANTS
  Periods <- MCPeriods
  Bands <- MCBands
  RingMax = 3
  MaxRejectRun = 3
  Requests <- MCRequests
  PeriodSecs <- MCPeriodSecs
  Word = 3
  MaxPeriod = 3
INVARIANTS MeanIsOfNewest MeanSettles NoLostPeriodChange AwakeIsTrue
