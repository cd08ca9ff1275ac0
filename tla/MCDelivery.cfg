SPECIFICATION Spec
CONSTANTS
  f1 = f1
  f2 = f2
  None = None
  File <- MCFile
  Plans <- MCPlans
  Olds <- MCOlds
  Configs <- MCConfigs
  w1 = w1
  w2 = w2
  Worker <- MCWorker
  MaxSuffix = 6
  MaxFaults = 1
  MaxLaunches = 2
SYMMETRY MCSymmetry
INVARIANTS
  TypeOK
  NothingLost
  MetadataStayInReach
  CompletedIsDelivered
  ProgressIsHonest
