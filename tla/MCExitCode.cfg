SPECIFICATION Spec
CONSTANTS
  w1 = w1
  w2 = w2
  Worker <- MCWorker
  NumFiles = 2
  NumEarly = 1
  ChanCap = 1
  PoolThreads = 3
  Policies <- MCDirect
INVARIANT ErrorsExitNonZero
