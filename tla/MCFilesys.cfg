SPECIFICATION Spec
CONSTANTS
  SectorCnt = 8
  SlotCnt = 2
  Name = {a, b}
  Handle = {h1, h2}
  MaxLength = 2
  NULL = NULL
SYMMETRY Symmetry
INVARIANTS
  FilesDisjoint
  SectorsAccounted
  InodesCounted
CHECK_DEADLOCK FALSE
