CONSTANTS
  t1 = t1
  t2 = t2
  Callers = {t1, t2}
  Chips = {"8801", "8800DC"}
  MaxCmd5 = 2
  MaxCalls = 3
  MaxFails = 1
SPECIFICATION FairSpec
INVARIANT TypeOK
INVARIANT OnMeansUp
INVARIANT OffMeansDown
PROPERTY CallsReturn
CHECK_DEADLOCK FALSE
