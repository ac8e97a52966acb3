SPECIFICATION Spec
CONSTANTS
  Loops = {l1}
  Features = {f1, f2}
  Runs = {r1, r2}
  Timers = {t1}
  UserCalls = {user}
  CooldownCall = cooldownCall
  ManualFeatures = {f1}
  RetriedFeatures = {f1}
  MaxConcurrency = 1
  FailureThreshold = 1
  MainWorktree = TRUE
  None = None
SYMMETRY LoopSymmetry
INVARIANTS TypeOK SeenSlotBound SlotsAccounted
CHECK_DEADLOCK FALSE
