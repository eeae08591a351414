CONSTANTS
  Modules <- MCModules
SPECIFICATION Spec
INVARIANTS
  TypeOK
  BuffersBalance
  ResultIsProduct
  CountsMatchRun
  LegalizedSound
PROPERTIES
  EverythingReleased
CHECK_DEADLOCK FALSE
