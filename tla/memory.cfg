CONSTANTS
  WORD = 3
  DOUBLEWORD = 6
  RESET = 1
  ALIGN = 2
  RomRange = 7
  DramSize = 7
  UartSize = 2
  MaxAccesses = 1
  MaxTicks = 9
  Checked = FALSE
  Contents <- MCContents
  Binary <- MCBinary
  Data <- MCData
  Deadlines <- MCDeadlines
  Dtbs <- MCDtbs
SPECIFICATION Spec
INVARIANTS TypeOK TimeIsWhole
PROPERTIES ImplementsBytes TimerIsDue
CHECK_DEADLOCK FALSE
