SPECIFICATION Spec
CONSTANTS
  Frontend = "cli"
  Checked = FALSE
  AddrSpace = 8
  TimeMod = 2
  InitPc = 0
  Mapped = {0, 4}
  Targets = {0}
  Codes = {8, 12}
  DataAddrs = {}
  SystemInsts = {"mret", "sret"}
  CsrOps <- NestedCsrOps
  TrapCsrWrites <- None
  ClintStores <- None
  Irqs = {}
  Limited = FALSE
  Restarts = FALSE
INVARIANTS TypeOK SavedContext NoMissedInterrupt PagingFollowsSatp NoDebugMode
PROPERTIES ReturnResumes
CHECK_DEADLOCK FALSE
