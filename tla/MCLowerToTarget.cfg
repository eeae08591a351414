\* Every function of up to 3 connected ops, reductions of 2 operands, loops of 0
\* or 2 iterations. The run of the emitted code ends: no deadlock check.
SPECIFICATION Spec
CONSTANTS
  MaxOps = 3
  MaxOperands = 2
  Trips <- MCTrips
  InPlace <- MCInPlace
  Features = {}
INVARIANTS TypeOK BuffersAreLive ComputesAsInterpreted OnlyUnfreedValuesRemain
CHECK_DEADLOCK FALSE
