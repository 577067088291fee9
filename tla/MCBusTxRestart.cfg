CONSTANTS
  c1 = c1
  c2 = c2
  Clients = {c1}
  MaxChunks = 2
  MaxCmds = 3
  MaxInits = 2
  MaxCardInts = 1
SPECIFICATION Spec
INVARIANT StartedMeansRunning
CHECK_DEADLOCK FALSE
