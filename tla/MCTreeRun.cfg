SPECIFICATION Spec
CONSTANTS
  root = root
  dir1 = dir1
  dir2 = dir2
  dir3 = dir3
  file1 = file1
  file2 = file2
  link1 = link1
  Entry <- MCEntry
  Kind <- MCKind
  Parent <- MCParent
  Root = root
  DirOrder <- MCDirOrder
  Configs <- MCConfigs
  MaxFaults = 2
INVARIANTS
  TypeOK
  NothingLost
  SuccessMeansMoved
