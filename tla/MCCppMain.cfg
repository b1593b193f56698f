CONSTANTS
  Lo <- MCLo
  Hi = 2
  Modulus = 4
  Fuel = 60
  Files <- MCFiles
  Stdin <- MCStdin
  Unset <- MCUnset
  MaxPrinted = 6
  MaxStray = 2
SPECIFICATION Spec
INVARIANTS TypeOK PrefixUnderstood TreeMatchesBrackets FusedOut ShiftsAtTheEdges CoherentCacheIsInvisible
PROPERTIES PassesPreserveRuns Terminates
CHECK_DEADLOCK FALSE
