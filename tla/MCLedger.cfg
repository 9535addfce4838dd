SPECIFICATION Spec
CONSTANTS
  Jobs = {j1, j2}
  Cap = 1
  MaxCost = 1
  MaxTries = 2
  MaxStops = 0
INVARIANT LedgerAccumulates
CHECK_DEADLOCK FALSE
