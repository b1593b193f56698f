CONSTANTS
  Node <- MCNode
  NULL = 0
  MaxBlocks = 7
SPECIFICATION Spec
INVARIANT MergingSucceeds
CHECK_DEADLOCK FALSE
