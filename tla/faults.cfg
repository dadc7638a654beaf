SPECIFICATION FaultsSpec
CONSTANTS
  LeafBits = 1
  BucketSize = 1
  StashCapacity = 2
  LogicalBlocks = 2
  EvictionsPerAccess = 1
  Payloads = {p1, p2}
  ZeroPayload = zero
  Keep = keep
  MaxAccesses = 2
  MaxBudget = 2
  MaxBatch = 2
  MaxFaults = 2
  DrainMetaFaults = FALSE
INVARIANTS
  ReachableUnlessRefused
PROPERTIES
  SuccessfulBatchIsSequential
  ImplementsBatchArray
  FailsClosed
SYMMETRY PayloadSymmetry
