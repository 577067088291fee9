CONSTANTS
  m1 = m1
  m2 = m2
  Ops <- AllOps
  CfmIds <- McIds
  MaxPending = 2
  MaxVif = 1
  MaxKeys = 2
  TableLen = 2
  HwKeys = {0, 1}
  StaIdxs = {1, 2}
  Macs = {m1, m2}
  MaxCalls = 3
  MaxCmds = 3
  MaxLost = 1
  MaxInds = 1
SPECIFICATION FairSpec
INVARIANT TypeOK
INVARIANT ReportsTruth
INVARIANT KeysAgree
INVARIANT StationsTold
PROPERTY OpsReturn
CHECK_DEADLOCK FALSE
