SPECIFICATION Spec
CONSTANT
  Deployments <- ThreeDeployments
INVARIANTS
  ReadsMatchState
  ReadsMatchTable
  SavedImagesReopen
