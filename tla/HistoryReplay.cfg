\* A ring of 4 slots whose counters wrap at 16, and enough appends to lap the
\* ring and to wrap.
SPECIFICATION LogSpec
CONSTANTS
  Capacity = 4
  SizeMax = 16
  Batch = 3
  MaxBatches = 2
  Overlap = FALSE
  MaxAppends = 22
INVARIANTS
  ReplayOrdered
PROPERTIES
  ImplementsQueue
