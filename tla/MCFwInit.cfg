CONSTANTS
  MaxPending = 8
  CfmIds = {"READ", "WRITE", "MASK_WRITE", "BLOCK_WRITE", "START_APP"}
  Products = {"Aic8801", "Aic8800D80"}
  SyscfgLen = 10
  PatchTblLen = 3
  MaskLen = 2
  FwBlocks = 9
  PatchBlocks = 1
SPECIFICATION FairSpec
INVARIANT TypeOK
INVARIANT InOrder
INVARIANT OnlyKeptOccupy
INVARIANT OthersFailForCause
PROPERTY InitEnds
CHECK_DEADLOCK FALSE
