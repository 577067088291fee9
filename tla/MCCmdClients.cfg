CONSTANTS
  c1 = c1
  c2 = c2
  dbg = dbg
  lmac = lmac
  Clients = {c1, c2}
  CfmIds = {dbg, lmac}
  MaxPending = 2
  MaxCmds = 3
  MaxInits = 2
SPECIFICATION FairSpec
INVARIANT TypeOK
INVARIANT QueueSzBound
INVARIANT QueueSzExact
INVARIANT OwnSlot
INVARIANT CfmIsMine
PROPERTY SlotLifecycle
PROPERTY CommandEnds
