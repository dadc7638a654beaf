SPECIFICATION Spec
CONSTANTS
  Values = {v1, v2}
  Zero = zero
  Garbled = garbled
  Stacks <- SealedAndPlain
INVARIANTS
  StackTypeOK
  CleanPagesMatchFile
PROPERTIES
  KeepsPromises
SYMMETRY ValueSymmetry
VIEW WithoutReply
