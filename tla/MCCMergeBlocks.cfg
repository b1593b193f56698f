CONSTANTS
  Node <- MCNode
  NULL = 0
  MaxBlocks = 7
SPECIFICATION Spec
INVARIANTS TypeOK EndsWell MergedInOrder
PROPERTY Stops
CHECK_DEADLOCK FALSE
