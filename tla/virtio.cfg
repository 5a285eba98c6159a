SPECIFICATION Spec
CONSTANTS
  Slots = {0}
  Sectors = {0, 1}
  WildSectors = {2}
  Careless = TRUE
  Queues = {0, 9999}
  Data = {0, 1}
  BufferBytes <- MCBufferBytes
  MaxAccesses = 9
  Resets = TRUE
INVARIANTS TypeOK CompletionIsWhole CompletionIsSeen
PROPERTIES ImplementsBlock
CHECK_DEADLOCK FALSE
