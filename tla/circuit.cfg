SPECIFICATION Spec
CONSTANTS
  LeafBits = 1
  BucketSize = 2
  StashCapacity = 2
  LogicalBlocks = 3
  EvictionsPerAccess = 1
  Payloads = {p1, p2}
  ZeroPayload = zero
  Keep = keep
  MaxAccesses = 3
  MaxBudget = 2
INVARIANTS
  TypeOK
  OneCopy
  OnLabelledPath
  EvictionFits
  DummiesScrubbed
PROPERTIES
  StashGrowsByAccessOnly
  ImplementsArray
SYMMETRY PayloadSymmetry
