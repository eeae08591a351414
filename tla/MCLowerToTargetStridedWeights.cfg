\* A strided weight block; a counterexample is expected.
SPECIFICATION Spec
CONSTANTS
  MaxOps = 2
  MaxOperands = 2
  Trips <- MCTrips
  InPlace <- MCInPlace
  Features = {"stridedWeights"}
INVARIANT ComputesAsInterpreted
CHECK_DEADLOCK FALSE
