SPECIFICATION OtaSpec
CONSTANTS
  Images = {"factory", "a", "b"}
  Size <- MCSize
  Factory = "factory"
  ChunkSizes = {2}
  MaxChunk = 2
  SlotSize = 6
  MaxStagings = 2
  OtaEnv = {"loss", "clear", "quit", "flash"}
INVARIANTS BootsWholeImage ResumePoint
