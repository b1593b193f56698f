CONSTANTS
  Lo <- MCLo
  Hi = 2
  Modulus = 4
  Fuel = 30
  Texts <- MCTexts
  Levels <- MCLevels
  Inputs <- MCInputs
  MaxLines = 2
  Addr = {a1, a2}
  Null = null
  MaxLoops = 3
SPECIFICATION MainSpec
INVARIANTS TypeOK OnlySignaturesPileUp UsedWhenGone OnlyTheHistoryDangles DiesOfItsText LoopsEndWithFunction
PROPERTIES JumpsNest AnswersAsTyped ComesBack
CHECK_DEADLOCK FALSE
