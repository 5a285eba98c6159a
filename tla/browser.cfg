SPECIFICATION Spec
CONSTANTS
  Key <- MCKey
  ByteMax = 2
  MaxKeys = 3
  SliceTurns = 3
  ClockLimit = 2
INVARIANTS TypeOK KeysConserved
PROPERTIES KeysShown
CHECK_DEADLOCK FALSE
