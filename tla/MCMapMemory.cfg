SPECIFICATION Spec
CONSTANTS
  Input <- MCInput
  Width = 4
  Byte = {0, 1}
  Image <- MCImage
  Unknown <- MCUnknown
  Pointer <- MCPointer
  Value <- MCValue
  Constraint <- MCConstraint
  Behavior = {"RET_SYM", "THROW_ERR"}
  MaxLen = 2
  MaxRead = 3
  MaxCalls = 3
INVARIANT TypeOK
INVARIANT NoGuess
PROPERTY ImplementsFlat
