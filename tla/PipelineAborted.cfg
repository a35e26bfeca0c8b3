SPECIFICATION Spec
CONSTANTS
  N = 3
  Size = 1
INVARIANTS
  ErrorLeavesNoBlock
CHECK_DEADLOCK FALSE
