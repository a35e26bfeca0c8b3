SPECIFICATION Spec
CONSTANTS
  N = 3
  Size = 2
INVARIANTS
  NoTruncatedBlock
CHECK_DEADLOCK FALSE
