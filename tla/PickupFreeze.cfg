SPECIFICATION Spec
CONSTANTS
  Features = {f1, f2}
  Loops = {l1, l2}
  MaxRecords = 4
  MaxHandlers = 2
INVARIANTS TypeOK ExhaustionIsSeen StaleFreezeExplained FreezeHolds
CHECK_DEADLOCK FALSE
