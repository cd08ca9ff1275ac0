SPECIFICATION Spec
CONSTANTS
  blockA = blockA
  blockB = blockB
  old = old
  Zero = Zero
  s1 = s1
  j1 = j1
  d1 = d1
  t1 = t1
  OldContents <- MCOld
  Inode <- MCInode
  Job <- MCJob
  Source <- MCSource
  SrcOf <- MCSrcOf
  Name <- MCName
  DstOf <- MCDstOf
  TmpOf <- MCTmpOf
  Contents <- MCTwoContents
  Configs <- MCReflinkCopy
  RangeResults <- MCBadPointer
  MaxRuns = 1
INVARIANT NeverHalfWritten
