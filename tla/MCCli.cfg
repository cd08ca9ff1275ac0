SPECIFICATION FairSpec
CONSTANTS
  f1 = f1
  f2 = f2
  f3 = f3
  File <- MCFile
  Parallelism = 2
  MaxEarly = 1
  Settings <- MCSettings
INVARIANTS
  TypeOK
  NothingUnseen
  SummaryIsTrue
  ExitCodeIsRight
PROPERTY Exits
