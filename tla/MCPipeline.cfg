SPECIFICATION FairSpec
CONSTANTS
  w1 = w1
  w2 = w2
  Worker <- MCWorker
  NumFiles = 4
  NumEarly = 1
  ChanCap = 2
  PoolThreads = 3
  Policies <- MCPolicies
INVARIANTS
  TypeOK
  Conveyed
  OneWorkerPerFile
  DoneIsAccurate
  NothingDropped
  QuitIsReported
  BoundedOverrun
  FewAsksAfterAll
PROPERTIES
  Termination
  ContractSpec
