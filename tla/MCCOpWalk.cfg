CONSTANTS
  Node = {n1, n2, n3, n4, n5, n6}
  NULL = null
  Lo <- MCLo
  Hi = 2
  Modulus = 4
  MaxOps = 5
  Blocks <- MCBlocks
SYMMETRY MCSymmetry
SPECIFICATION WalkSpec
INVARIANTS TypeOK Intact WalkFolds
CHECK_DEADLOCK FALSE
