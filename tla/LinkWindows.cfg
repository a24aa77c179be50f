\* Two parents and two prefixes are enough to be on the wrong one.
SPECIFICATION LinkFairSpec
CONSTANTS
  Transports = {"thread", "wifi"}
  Parents = {"p1", "p2"}
  Prefixes = {"n1", "n2"}
  MaxMoves = 3
  MaxApFaults = 2
  MaxConnectErrors = 0
  MaxFaults = 1
  MaxOta = 1
INVARIANTS PollMatchesWindow LinkStateIsCurrent
PROPERTIES LinkRecovers
