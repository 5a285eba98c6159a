SPECIFICATION Spec
CONSTANTS
  Slots = {0, 1}
  Sectors = {0, 1}
  WildSectors = {}
  Careless = FALSE
  Queues = {0}
  Data = {0, 1}
  BufferBytes <- MCBufferBytes
  MaxAccesses = 4
  Resets = FALSE
PROPERTIES AvailProcessed
CHECK_DEADLOCK FALSE
