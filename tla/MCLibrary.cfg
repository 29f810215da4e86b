SPECIFICATION Spec
CONSTANTS
  W = 4
  MaxLen = 6
  MaxKey = 3
  MaxByte = 10
  BLOCK_SECTOR_SIZE = 4
  MaxBit = 6
  ELEM_BITS = 3
  HashKey = {0, 1, 2, 3, 5}
  MinBuckets = 1
  BEST_ELEMS_PER_BUCKET = 1
  MaxSector = 7
  DeviceSize = 5
  MaxDepth = 4
  MaxText = 4
  MaxTyped = 2
  CharBits = 4
  ShortBits = 6
  IntBits = 8
  MaxBits = 14
  BufSize = 8
  PGSIZE = 16
  PtCnt = 2
  PdCnt = 3
  PointerCnt = 3
  VmPage = {3, 4}
  FrameCnt = 2
  KernelPages = 4
  NoEntry = NoEntry
  NULL = NULL
INVARIANTS
  ListsRight
  ArraysRight
  TableHoldsContents
  PartitionsInside
  ChunksCover
  BitmapsAgree
  QuotientsRight
  StringsRight
  FormatsRight
  ModifiersTracked
  MappingsRight
  LoadsRight
CHECK_DEADLOCK FALSE
