SPECIFICATION MqttSpec
CONSTANTS
  Groups = {"temp"}
  GroupMsgs <- MCGroupMsgs
  Optional = {}
  BackfillBatches = 1
  MaxChanges = 2
  MaxFaults = 2
  MqttEnv = {"loss", "forget"}
INVARIANTS SkippedIsSubscribed
