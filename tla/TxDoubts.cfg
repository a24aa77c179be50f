SPECIFICATION TxSpec
CONSTANTS
  Requests <- MCOutOfRange
  Works <- MCWorks
  YamlDbm = 20
  LinkMayFail = TRUE
  UpdateDue = TRUE
  NvsMayFail = FALSE
  MaxRequests = 2
  MaxBoots = 1
\* Violated; so is, in its place, each of the INVARIANTS PromotedSurvives,
\* KnownGoodIsProven and NoTrialIsKnownGood; ReportedIsRadio is one of TxTrial.cfg.
PROPERTIES
  RejectedNotRetried
