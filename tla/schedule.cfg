SPECIFICATION FairScheduleSpec
CONSTANTS
  LeafBits = 3
  BucketSize = 1
  StashCapacity = 4
  LogicalBlocks = 1
  EvictionsPerAccess = 3
  CounterMax = 40
  MaxAccesses = 50
  MaxBudget = 5
INVARIANTS
  ScheduleTypeOK
  NeverAheadOfSchedule
  VisitsBalanced
PROPERTIES
  CountersNeverWrap
  ScheduledEvictionsComplete
