SPECIFICATION Spec
CONSTANTS
  Runs = {r1, r2}
  Answers = {a1, a2}
  MaxPlans = 2
  MaxStops = 1
  NoRun = NoRun
INVARIANTS TypeOK ApprovedByUser OneLiveRun PendingIsAwaited
PROPERTY AbstractSpec
CHECK_DEADLOCK FALSE
