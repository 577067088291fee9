CONSTANTS
  Kinds = {"cmd52", "chunk", "blocks"}
  Bases = {2, 3}
  Totals = {2}
  Boundary = 4
  CmdErrors = {"TIMEOUT", "INDEX"}
  DataErrors = {"DATA_CRC"}
SPECIFICATION FairSpec
INVARIANT TypeOK
INVARIANT OkMeansDone
INVARIANT DmaInBuffer
INVARIANT ControllerReleased
PROPERTY CardIntAccounted
PROPERTY LockReleased
