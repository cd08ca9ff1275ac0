SPECIFICATION FairSpec
CONSTANTS
  blockA = blockA
  blockB = blockB
  old = old
  Zero = Zero
  s1 = s1
  j1 = j1
  d1 = d1
  t1 = t1
  OldContents <- MCOld
  Inode <- MCInode
  Job <- MCJob
  Source <- MCSource
  SrcOf <- MCSrcOf
  Name <- MCName
  DstOf <- MCDstOf
  TmpOf <- MCTmpOf
  Contents <- MCContents
  Configs <- MCAll
  RangeResults <- MCWhole
  MaxRuns = 2
INVARIANTS
  TypeOK
  DstAtomic
  OkMeansCopied
  OkIsDurable
  NoLoss
  ErrNeedsFault
PROPERTIES
  KeepsGoodPrefix
  IsAtomicCopy
  Returns
