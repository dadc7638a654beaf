SPECIFICATION RunsSpec
CONSTANTS
  LeafBits = 2
  BucketSize = 1
  StashCapacity = 4
  LogicalBlocks = 3
  EvictionsPerAccess = 2
  EMPTY_BLOCK = EMPTY_BLOCK
  NoCap = NoCap
  TotalOps = 3
  Drains = {0, 1, 2}
  BurstIntervals = {0, 2}
  BurstBudgets = {0, 4}
  DebtCaps = {NoCap, 3}
  DummySlots = {0, 2}
  EvictionPeriods = {0, 1, 3}
CHECK_DEADLOCK FALSE
INVARIANTS
  NoBlockIsLost
  DebtStaysPaid
  DummiesLast
PROPERTIES
  EvictionsPack
  RunsEnd
