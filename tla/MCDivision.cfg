SPECIFICATION Spec
CONSTANTS
  Word = 4
  IntBits = 4
  ByteBits = 2
  Files <- MCFiles
  Menu <- MCMenu
  Inputs <- MCInputs
  Builds <- MCBuilds
INVARIANT ConsistentWithZ3
CHECK_DEADLOCK FALSE
