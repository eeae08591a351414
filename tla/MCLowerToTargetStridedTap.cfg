\* A strided operand of reduce_max in a loop; a counterexample is expected.
SPECIFICATION Spec
CONSTANTS
  MaxOps = 2
  MaxOperands = 2
  Trips <- MCTrips
  InPlace <- MCInPlace
  Features = {"stridedTapInLoop"}
INVARIANT BuffersAreLive
CHECK_DEADLOCK FALSE
