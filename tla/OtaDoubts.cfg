SPECIFICATION OtaFairSpec
CONSTANTS
  Images = {"factory", "a", "b"}
  Size <- MCSize
  Factory = "factory"
  ChunkSizes = {2}
  MaxChunk = 2
  SlotSize = 6
  MaxStagings = 2
  OtaEnv = {"battery", "clear", "idle"}
\* Violated; so is, in its place, each of ManifestHasItsChunks and
\* InstallWasApproved, and of the PROPERTIES ZeroProgressCounts,
\* RequestIsNotLockedOut and RequestSurvives.
INVARIANTS LowBatteryDefers
