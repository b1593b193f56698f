CONSTANTS
  Addr = {a1, a2, a3}
  Null = null
  MaxLoops = 5
SPECIFICATION Spec
INVARIANTS TypeOK NoWildDereference ChainMirrorsCalls LiveLoopsAreOpen BranchesPair
PROPERTY ClosesInnermostLoop
CHECK_DEADLOCK FALSE
