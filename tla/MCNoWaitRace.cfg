SPECIFICATION Spec
CONSTANTS
  Pages = {p1, p2}
  Main = main
  Idle = idle
  NULL = NULL
  Thread <- MCThread
  TIME_SLICE = 1
  ExitCode = {7}
  KernelPages = 9
  MaxTid = 4
  AnyTid = FALSE
SYMMETRY PageSymmetry
CHECK_DEADLOCK FALSE
INVARIANTS
  NoWaitRace
