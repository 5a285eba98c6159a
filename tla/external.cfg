SPECIFICATION Spec
CONSTANTS
  Bytes = 4
  Requests = 4
  Threshold = 0
INVARIANTS TypeOK ClaimIsJustified
PROPERTIES AccessIsSeen ByteIsRead
