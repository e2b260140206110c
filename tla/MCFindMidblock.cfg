SPECIFICATION Spec
CONSTANTS
  Input <- MCInput
  Addr <- MCAddr
  Val <- MCVal
  Id <- MCId
  Job <- MidJob
  Conf <- MidConf
  Steps <- MCSteps
  Run <- MidRun
  NoId = NoId
  MaxDest = 3
  MaxPtr = 2
INVARIANT AddressNotReached
