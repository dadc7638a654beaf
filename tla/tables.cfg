SPECIFICATION TablesSpec
CONSTANTS
  Zero = zero
  EvictionsPerAccess = 1
  Records = 5
  Hashes = {h1, h2}
  Bins = 3
  SlotsPerBin = 2
  HashFns = 2
  MaxKicks = 3
  PackFactors = {2}
  Budgets = {0, 2}
  MaxDebt = 6
  MaxItems = 5
  ItemsPerBlock = {1, 2, 3}
  MaxBatch = 2
INVARIANTS
  RecordsInCandidateBins
PROPERTIES
  LookupsCostTheSame
  IndexAnswersTheFile
  ItemsAnswerTheFile
  IndexBuildEnds
VIEW WithoutReply
CHECK_DEADLOCK FALSE
