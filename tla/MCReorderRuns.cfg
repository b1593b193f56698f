CONSTANTS
  Lo <- MCLo
  Hi = 1
  Modulus = 3
  Code <- MCCode
  Inputs <- MCInputs
  MaxShift = 2
  MaxOut = 2
SPECIFICATION Spec
INVARIANTS TypeOK InStep
PROPERTY BoundaryMeets
CHECK_DEADLOCK FALSE
