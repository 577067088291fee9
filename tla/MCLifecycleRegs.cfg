CONSTANTS
  t1 = t1
  t2 = t2
  Callers = {t1}
  Chips = {"8801"}
  MaxCmd5 = 1
  MaxCalls = 1
  MaxFails = 0
SPECIFICATION Spec
INVARIANT F1Configured
CHECK_DEADLOCK FALSE
