SPECIFICATION LogSpec
CONSTANTS
  Capacity = 4
  SizeMax = 16
  Batch = 3
  MaxBatches = 2
  Overlap = TRUE
  MaxAppends = 22
INVARIANTS
  ReplayOrdered
