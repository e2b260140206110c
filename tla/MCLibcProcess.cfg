SPECIFICATION Spec
CONSTANTS
  p1 = p1
  p2 = p2
  Path = {p1, p2}
  FirstPath = p1
  Input <- SmallInputs
  Admits <- MCAdmits
  HeapStart = 1
  MaxAddr = 24
  MaxBlocks = 4
  PtrBytes = 1
  Sizes = {1, 4}
  Args <- LongArgs
  Deg = 3
  Sep = 1
  Multiplier = 5
  Modulus = 7
  WordValues = 16
  Seeds = {0}
  Printable = {33}
  MaxCalls = 5
INVARIANT BlocksKeep
INVARIANT DrawsAsC
INVARIANT OnePathPerInput
