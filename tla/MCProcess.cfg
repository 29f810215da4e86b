SPECIFICATION Spec
CONSTANTS
  Pages = {p1, p2, p3}
  Main = main
  Idle = idle
  NULL = NULL
  Thread <- MCThread
  TIME_SLICE = 1
  ExitCode = {7}
  KernelPages = 12
  MaxTid = 5
  AnyTid = TRUE
SYMMETRY PageSymmetry
CHECK_DEADLOCK FALSE
INVARIANTS
  ActivePagedirExists
  OwnPagedirActive
  WokenWithStatus
