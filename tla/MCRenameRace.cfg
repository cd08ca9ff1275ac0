SPECIFICATION Spec
CONSTANTS
  f1 = f1
  f2 = f2
  None = None
  File <- MCFile
  Plans <- MCSamePlan
  Olds <- MCOlds
  Configs <- MCRenameNew
  w1 = w1
  w2 = w2
  Worker <- MCWorker
  MaxSuffix = 6
  MaxFaults = 0
  MaxLaunches = 1
INVARIANT RenamesKeepAll
