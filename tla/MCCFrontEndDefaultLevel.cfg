CONSTANTS
  Lo <- MCLo
  Hi = 2
  Modulus = 4
  Fuel = 60
  Files <- MCClearFiles
  Levels = {2}
  Inputs <- MCInputs
SPECIFICATION Spec
INVARIANT OptimizedRunsAsSource
CHECK_DEADLOCK FALSE
