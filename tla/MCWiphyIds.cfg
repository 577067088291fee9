CONSTANTS
  m1 = m1
  m2 = m2
  Ops <- DelOps
  CfmIds <- McIds
  MaxPending = 2
  MaxVif = 1
  MaxKeys = 2
  TableLen = 2
  HwKeys = {0, 1}
  StaIdxs = {1, 2}
  Macs = {m1, m2}
  MaxCalls = 2
  MaxCmds = 2
  MaxLost = 0
  MaxInds = 1
SPECIFICATION Spec
INVARIANT ConfirmedByCfm
CHECK_DEADLOCK FALSE
