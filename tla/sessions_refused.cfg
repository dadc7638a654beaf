SPECIFICATION Spec
CONSTANT
  Deployments <- ForgottenFlag
PROPERTIES
  RefusedOpenKeepsImage
