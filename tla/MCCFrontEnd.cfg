CONSTANTS
  Lo <- MCLo
  Hi = 2
  Modulus = 4
  Fuel = 60
  Files <- MCFiles
  Levels <- MCLevels
  Inputs <- MCInputs
SPECIFICATION Spec
INVARIANTS TypeOK PrefixUnderstood CrashesAfterStray ProgramMeansText OtherLevelsRunAsSource
PROPERTIES PassesPreserveRuns Terminates
CHECK_DEADLOCK FALSE
