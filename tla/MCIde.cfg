SPECIFICATION FairSpec
CONSTANTS
  Main = main
  Thread = {main, t1}
  Disk = {0, 1}
  Capacity = 2
  Part <- MCPart
  Value = {v1, v2}
  NULL = NULL
INVARIANTS
  NoStaleCompletion
  IssuedWhenIdle
  DiskAgrees
PROPERTIES
  RequestsComplete
CHECK_DEADLOCK FALSE
