\* One weight outside, one inside; a counterexample is expected.
CONSTANTS
  Weights = {w1, w2}
  NoWeight = NoWeight
  Loops = {1, 2}
  MaxTiles = 2
  MaxFlattenedSteps = 12
  MaxBody = 1
  MaxTrip = 2
  Sources <- ReuseAcrossLoop
SPECIFICATION Spec
INVARIANTS MvmFindsItsWeight
CHECK_DEADLOCK FALSE
