SPECIFICATION CfgFairSpec
CONSTANTS
  Requests <- MCEdges
  Yaml <- MCYaml
  PollSec = 25
  MaxRequests = 2
  MaxBoots = 1
  MaxFaults = 1
INVARIANTS SavedIsCurrent CyclesMatchSettings
PROPERTIES Converges OrderlyCommandIsApplied
