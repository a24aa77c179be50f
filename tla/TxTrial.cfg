SPECIFICATION FairTxSpec
CONSTANTS
  Requests <- MCInRange
  Works <- MCWorks
  YamlDbm = 20
  LinkMayFail = TRUE
  UpdateDue = TRUE
  NvsMayFail = TRUE
  MaxRequests = 2
  MaxBoots = 1
INVARIANTS
  RadioPower
PROPERTIES
  PromotedInItsBoot BrokenTrialReverts
