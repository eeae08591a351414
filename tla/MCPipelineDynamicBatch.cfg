CONSTANTS
  Modules <- DynamicBatch
SPECIFICATION Spec
INVARIANT
  ResultIsProduct
CHECK_DEADLOCK FALSE
