SPECIFICATION Spec
CONSTANTS
  PageCount = 3
  LeafBits = 2
  TrustedLevels = {1}
  HashesPerPage = 2
  Values = {v1, v2}
  Blank = blank
  Torn = torn
  MaxWrites = 2
  MaxFaults <- TwoLostPages
INVARIANTS
  NoStalePages
VIEW WithoutReply
SYMMETRY ValueSymmetry
