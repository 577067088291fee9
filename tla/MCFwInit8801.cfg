CONSTANTS
  MaxPending = 8
  CfmIds = {"READ", "WRITE", "MASK_WRITE", "BLOCK_WRITE", "START_APP"}
  Products = {"Aic8801"}
  SyscfgLen = 10
  PatchTblLen = 3
  MaskLen = 2
  FwBlocks = 9
  PatchBlocks = 1
SPECIFICATION Spec
INVARIANT FailsForCause
CHECK_DEADLOCK FALSE
