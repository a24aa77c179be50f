SPECIFICATION LinkFairSpec
CONSTANTS
  Transports = {"wifi"}
  Parents = {"p1", "p2"}
  Prefixes = {"n1", "n2"}
  MaxMoves = 3
  MaxApFaults = 2
  MaxConnectErrors = 1
  MaxFaults = 1
  MaxOta = 1
PROPERTIES LinkRecovers
