SPECIFICATION OtaFairSpec
CONSTANTS
  Images = {"factory", "a", "b"}
  Size <- MCSize
  Factory = "factory"
  ChunkSizes = {2, 3}
  MaxChunk = 2
  SlotSize = 5
  MaxStagings = 1
  OtaEnv = {"loss", "idle", "slow", "crash", "battery", "click"}
PROPERTIES CycleReturns RequestIsServed
