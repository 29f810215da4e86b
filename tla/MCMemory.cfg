SPECIFICATION Spec
CONSTANTS
  Thread = {t1, t2}
  NULL = NULL
  PageCnt = 3
  Desc = {d1}
  PerArena = 2
  blocks_per_arena <- MCblocks_per_arena
  MaxRun = 2
SYMMETRY ThreadSymmetry
INVARIANTS
  UsedExactly
  PagesExclusive
  BlocksAccounted
