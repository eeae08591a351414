\* Every use sequence of up to 6 uses of 4 weights, on 0 to 3 tiles, under
\* each policy: the engine's books are right, Belady is optimal, the schedule
\* is one the validator accepts, and the engine returns.
\* The engine stops when it returns: no deadlock check.
CONSTANTS
  Weights = {1, 2, 3, 4}
  NoWeight = 0
  MaxTiles = 3
  MaxSteps = 6
SPECIFICATION MCSpec
INVARIANTS TypeOK ResidencyExact NextUseExact BeladyIsOptimal EngineComputesBelady
PROPERTIES ScheduleIsAccepted BeladyEvictsFurthest BaselinesEvictOldest Terminates
CHECK_DEADLOCK FALSE
