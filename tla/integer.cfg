SPECIFICATION InsSpec
CONSTANTS
  XLEN = 8
  WORD = 4
  Words <- MCWords
  Contents = {0, 1, 2, 3, 7, 8, 9, 15, 16, 24, 100, 127, 128, 129, 136, 240, 248, 254, 255}
  Immediates = {0, 1, 4, 8, 127, 128, 240, 255}
  Pcs = {4, 250}
INVARIANTS InsTypeOK ImmediatesExact
PROPERTIES ResultsExact ControlExact
CHECK_DEADLOCK FALSE
