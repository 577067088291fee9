CONSTANTS
  c1 = c1
  c2 = c2
  Clients = {c1, c2}
  MaxChunks = 2
  MaxCmds = 2
  MaxInits = 2
  MaxCardInts = 1
SPECIFICATION FairSpec
INVARIANT TypeOK
INVARIANT WrittenOnce
INVARIANT OwnResult
PROPERTY SubmitEnds
PROPERTY BustxStops
CHECK_DEADLOCK FALSE
