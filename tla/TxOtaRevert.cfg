SPECIFICATION TxSpec
CONSTANTS
  Requests <- MCInRange
  Works <- MCAll
  YamlDbm = 20
  LinkMayFail = FALSE
  UpdateDue = TRUE
  NvsMayFail = FALSE
  MaxRequests = 2
  MaxBoots = 1
PROPERTIES
  RevertHasEvidence
