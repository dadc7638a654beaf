SPECIFICATION StoresSpec
CONSTANTS
  PageCount = 3
  LeafBits = 2
  TrustedLevels = {1, 3}
  HashesPerPage = 2
  Values = {v1, v2}
  Blank = blank
  Torn = torn
  MaxWrites = 3
  MaxFaults <- LostPages
  BucketPages = 5
  PathRequests <- DeepPaths
  FewWrites = 2
  FewFaults = 1
INVARIANTS
  NoStalePage
  Heals
  RootCovers
  CacheIsCommitted
PROPERTIES
  ReadsExactly
VIEW WithoutReply
SYMMETRY ValueSymmetry
