SPECIFICATION FairSpec
CONSTANTS
  Path <- MCPath
  Trees <- MCTrees
  SourceLists <- MCSources
  Options <- MCOptions
  MaxDepth = 5
  MaxChanges = 1
INVARIANTS
  TypeOK
  PlacedByRelative
  StaysUnderRoot
  PlanIsTree
  OkMeansNoError
  ReturnsByLink
PROPERTY PlanReturns
