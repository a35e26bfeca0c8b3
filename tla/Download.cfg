SPECIFICATION FairSpec
CONSTANTS
  NodeCount = 3
  ChunkCount = 2
  Size <- FourThenTwo
  ReadSize = 2
  ErrorLength = 1
INVARIANTS
  TypeOK
  RefusedOnlyWithoutReplica
  RightLengthIsRightFile
PROPERTIES
  ChunkArrivesWhole
  DownloadEnds
  ReliableReplicaSuffices
CHECK_DEADLOCK FALSE
