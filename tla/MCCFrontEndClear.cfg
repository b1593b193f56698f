CONSTANTS
  Lo <- MCLo
  Hi = 2
  Modulus = 4
  Fuel = 60
  Files <- LoopFiles
  Levels = {2}
  Inputs <- MCInputs
SPECIFICATION Spec
INVARIANT ClearedOnlyCountdowns
CHECK_DEADLOCK FALSE
