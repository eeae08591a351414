\* Every loop body of up to 5 uses of 4 weights on 1 to 3 tiles, trips 0 to 3;
\* 5 is the least at which pin-and-stream wins. The emitted program ends: no
\* deadlock check.
CONSTANTS
  Weights = {w1, w2, w3, w4}
  NoWeight = NoWeight
  Loops = {1, 2}
  MaxTiles = 3
  MaxFlattenedSteps = 12
  MaxBody = 5
  MaxTrip = 3
  Sources <- FlatSources
SPECIFICATION Spec
SYMMETRY Symmetry
INVARIANTS TypeOK PassSucceeds MvmFindsItsWeight NeverMorePrograms CostIsAsCompared OptimumIsBound
CHECK_DEADLOCK FALSE
