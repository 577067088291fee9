CONSTANTS
  p1 = p1
  Pollers = {p1}
  Packets <- McPackets
  BufSize = 512
  StraySizes = {63}
  MaxFrames = 3
  MaxStray = 1
  MaxPolls = 1
  MaxAgains = 1
  MaxFaults = 1
  MaxInits = 2
SPECIFICATION FairSpec
INVARIANT TypeOK
INVARIANT ScanDoneComplete
INVARIANT OnlyRealMessages
PROPERTY ServiceSpec
PROPERTY Drained
PROPERTY BusrxStops
CHECK_DEADLOCK FALSE
