SPECIFICATION Spec
CONSTANTS
  Path <- MCPath
  Trees <- MCTrees
  SourceLists <- MCOneSource
  Options <- MCFollow
  MaxDepth = 5
  MaxChanges = 0
INVARIANT FollowedInPlace
