SPECIFICATION Spec
CONSTANTS
  Word = 4
  IntBits = 4
  ByteBits = 2
  Files <- MCFiles
  Menu <- MCMenu
  Inputs <- MCInputs
  Builds <- MCBuilds
INVARIANT TypeOK
INVARIANT OpExact
INVARIANT WrittenIsRead
INVARIANT EvaluateExact
INVARIANT InterningExact
CHECK_DEADLOCK FALSE
