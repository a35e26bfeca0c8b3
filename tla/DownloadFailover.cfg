SPECIFICATION Spec
CONSTANTS
  NodeCount = 3
  ChunkCount = 1
  Size <- TwoUnitsEach
  ReadSize = 2
  ErrorLength = 1
INVARIANTS
  FailoverIsTransparent
CHECK_DEADLOCK FALSE
