SPECIFICATION Spec
CONSTANTS
  WORD = 2
  XLEN = 4
  MemSize = 8
  ReadOnly = {4, 5, 6, 7}
  Phys <- MCPhys
  Ops = {"add", "swap", "xor", "or", "and", "min", "max", "minu", "maxu"}
  Values = {7}
  AmoAddrs = {0, 2, 4}
  AmoSizes = {2, 4}
  LrAddrs = {0, 4}
  LrSizes = {2, 4}
  StoreAddrs = {0, 1, 8}
  StoreSizes = {1, 2}
  DmaAddrs = {1}
  MaxCopies = 2
INVARIANTS TypeOK
PROPERTIES ScNeedsLr AmoAtomic
