SPECIFICATION Spec
CONSTANTS
  Loops = {l1}
  Features = {f1, f2}
  Runs = {r1, r2}
  Timers = {t1}
  UserCalls = {user}
  CooldownCall = cooldownCall
  ManualFeatures = {}
  RetriedFeatures = {}
  MaxConcurrency = 1
  FailureThreshold = 3
  MainWorktree = FALSE
  None = None
INVARIANT SlotBound
CHECK_DEADLOCK FALSE
