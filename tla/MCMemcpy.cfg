SPECIFICATION LibcSpec
CONSTANTS
  Input <- MCInput
  Width = 4
  Byte = {0, 1}
  Image <- MCImage
  Unknown <- MCUnknown
  Pointer = {}
  Value = {}
  Constraint = {}
  Behavior = {"RET_SYM"}
  MaxLen = 2
  MaxRead = 3
  MaxCalls = 2
PROPERTY CopyKeepsBytes
