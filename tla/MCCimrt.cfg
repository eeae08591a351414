\* Every sequence of up to 7 calls on 2 device and 2 buffer addresses; the
\* target has one tile of one row and one column. The call bound ends a
\* behaviour: no deadlock check.
CONSTANTS
  Devices = {d1, d2}
  Buffers = {b1, b2}
  NoDevice = NoDevice
  Tiles = {0}
  Sizes = {1, 4}
  WeightBytes = 1
  ActivationBytes = 1
  ResultBytes = 4
  MaxOpens = 2
  MaxCalls = 7
SPECIFICATION Spec
SYMMETRY Symmetry
INVARIANTS TypeOK RegistryExact OwnerIsBirthDevice TransfersCharged
PROPERTIES ProfileReportsWindow
CHECK_DEADLOCK FALSE
