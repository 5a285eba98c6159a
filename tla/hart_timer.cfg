SPECIFICATION Spec
CONSTANTS
  Frontend = "cli"
  Checked = TRUE
  AddrSpace = 8
  TimeMod = 4
  InitPc = 0
  Mapped = {0, 4}
  Targets = {0}
  Codes = {}
  DataAddrs = {}
  SystemInsts = {"wfi", "mret", "uret"}
  CsrOps <- TimerCsrOps
  TrapCsrWrites <- TimerTrapCsrWrites
  ClintStores <- TimerClintStores
  Irqs = {10}
  Limited = TRUE
  Restarts = TRUE
INVARIANTS ClintPosted
PROPERTIES IdleWakes
CHECK_DEADLOCK FALSE
