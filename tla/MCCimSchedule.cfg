\* Every function of up to 4 ops and a nest of two loops, on two devices. The
\* run of a function ends: no deadlock check.
CONSTANTS
  Devices = {d1, d2}
  Depth = 3
  MaxOps = 4
  Trips = 2
  LoopsRewrite = FALSE
SPECIFICATION Spec
INVARIANTS TypeOK NothingReadsUnfinished BlockLeavesNothingOutstanding ResultsAreSequential
CHECK_DEADLOCK FALSE
