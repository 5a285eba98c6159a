SPECIFICATION Spec
CONSTANTS
  Bytes = 2
  Requests = 2
  Threshold = 0
PROPERTIES InterruptPerAccess
