CONSTANTS
  Lo <- MCLo
  Hi = 2
  Modulus = 4
  Fuel = 60
  Files <- LoopFiles
  Stdin <- MCStdin
  Unset <- MCUnset
  MaxPrinted = 6
  MaxStray = 2
SPECIFICATION Spec
INVARIANT OptimizedRunsAsSource
CHECK_DEADLOCK FALSE
