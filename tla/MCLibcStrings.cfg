SPECIFICATION Spec
CONSTANTS
  Input <- MCInput
  Width = 6
  Byte = {0, 1}
  Memory <- MCMemory
  Request <- MCRequest
  Id = {1, 2, 3, 4}
  MaxForks = 1
  MaxForksCat = 1
  MaxCmp = 4
  IntLimit = 3
  MaxCalls = 2
INVARIANT TypeOK
INVARIANT DividesInputs
INVARIANT EveryInputReturns
INVARIANT ResultsAsInC
