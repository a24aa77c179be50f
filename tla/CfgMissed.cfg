SPECIFICATION CfgFairSpec
CONSTANTS
  Requests <- MCEdges
  Yaml <- MCYaml
  PollSec = 25
  MaxRequests = 1
  MaxBoots = 0
  MaxFaults = 1
\* Violated; so is, in its place, DisplayIsReality and, as an INVARIANT,
\* AppliedIsDurable.
PROPERTIES CommandIsApplied
