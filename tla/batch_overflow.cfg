SPECIFICATION BatchSpec
CONSTANTS
  LeafBits = 1
  BucketSize = 1
  StashCapacity = 2
  LogicalBlocks = 3
  EvictionsPerAccess = 2
  Payloads = {p1, p2}
  ZeroPayload = zero
  Keep = keep
  MaxAccesses = 3
  MaxBudget = 2
  MaxBatch = 2
PROPERTIES
  BatchIsSequential
SYMMETRY PayloadSymmetry
