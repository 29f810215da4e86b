SPECIFICATION Spec
CONSTANTS
  Proc = {p1, p2}
  First = p1
  Name = {a}
  Sector = {root, s1}
  ROOT = root
  InodeId = {i1, i2, i3}
  FD_CNT = 3
  MaxExec = 1
  NULL = NULL
INVARIANTS
  InodesReferenced
  OpenFilesKept
PROPERTIES
  LockComesFree
CHECK_DEADLOCK FALSE
