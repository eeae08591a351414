\* Any schedule for up to 4 uses, and the schedules of bodies of up to 4 uses
\* of 4 weights on 1 to 3 tiles: all weights fit, or one or more spill.
\* The validator returns: no deadlock check.
CONSTANTS
  Weights = {w1, w2, w3, w4}
  NoWeight = NoWeight
  MaxTiles = 3
  MaxSteps = 12
  MaxBody = 4
  MaxFree = 4
SPECIFICATION MCSpec
SYMMETRY Symmetry
INVARIANTS NoDuplicate Ledger NeverRejected LeastForOneBody
PROPERTIES RepetitionIsFixedPoint
CHECK_DEADLOCK FALSE
