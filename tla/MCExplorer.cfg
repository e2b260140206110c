SPECIFICATION FairSpec
CONSTANTS
  Input <- MCInput
  Addr <- MCAddr
  Val <- MCVal
  Id <- MCId
  Job <- MCJob
  Conf <- MCConf
  Steps <- MCSteps
  Run <- MCRun
  NoId = NoId
  MaxDest = 3
  MaxPtr = 2
INVARIANT TypeOK
INVARIANT Sound
INVARIANT NoInputTwice
INVARIANT NoInputLost
INVARIANT OwnedOnce
INVARIANT FoundIsWitness
INVARIANT NotFoundIsProof
INVARIANT BFSFindsShortest
INVARIANT CovDistinct
INVARIANT EagerFeasible
INVARIANT PathsCoverInputs
PROPERTY Termination
PROPERTY RefinesRuns
