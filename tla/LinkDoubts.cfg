SPECIFICATION LinkSpec
CONSTANTS
  Transports = {"thread", "wifi"}
  Parents = {"p1", "p2"}
  Prefixes = {"n1", "n2"}
  MaxMoves = 3
  MaxApFaults = 2
  MaxConnectErrors = 0
  MaxFaults = 1
  MaxOta = 1
\* Violated; so is, in its place, each of StatsAreOfOneParent, StatsMeanAttached
\* and WifiReadyIsRouted.
INVARIANTS UriIsWhole
