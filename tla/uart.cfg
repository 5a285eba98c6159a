SPECIFICATION Spec
CONSTANTS
  Byte = {0, 1, 2}
  Input <- MCInput
  Eof = TRUE
  MaxReceived = 8
INVARIANTS TypeOK Conserved DataIsSignalled StatusStable
PROPERTIES AllReceived ImplementsChannel
