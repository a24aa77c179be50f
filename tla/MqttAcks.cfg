SPECIFICATION MqttFairSpec
CONSTANTS
  Groups = {"temp", "batt"}
  GroupMsgs <- MCGroupMsgs
  Optional = {"batt"}
  BackfillBatches = 1
  MaxChanges = 1
  MaxFaults = 3
  MqttEnv = {"loss", "forget", "acl", "boot"}
INVARIANTS OkMeansReceived SkippedWasReceived ReplayedWasReceived OkMeansUpToDate
PROPERTIES ChangeArrives
