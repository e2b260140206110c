SPECIFICATION Spec
CONSTANTS
  Path <- MCPath
  FirstPath = "a"
  Name <- MCName
  StdIn = "in"
  StdOut = "out"
  StdErr = "err"
  Chunk <- MCChunk
  MaxOff = 2
  MaxFd = 5
  MaxCalls = 4
INVARIANT TypeOK
INVARIANT FreshDescriptor
INVARIANT DumpShowsInput
PROPERTY ImplementsPosix
