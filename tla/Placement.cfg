SPECIFICATION Spec
CONSTANTS
  BlockSize = 3
  FileSizes <- Sizes
  NodeLists <- Lists
INVARIANTS
  TypeOK
  ChunksTileFile
  ReplicasDistinct
  AskedWhereStored
  PlanInv
CHECK_DEADLOCK FALSE
