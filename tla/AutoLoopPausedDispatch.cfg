SPECIFICATION Spec
CONSTANTS
  Loops = {l1}
  Features = {f1, f2}
  Runs = {r1, r2}
  Timers = {t1}
  UserCalls = {user}
  CooldownCall = cooldownCall
  ManualFeatures = {}
  RetriedFeatures = {}
  MaxConcurrency = 2
  FailureThreshold = 3
  MainWorktree = TRUE
  None = None
PROPERTY NoDispatchWhilePaused
CHECK_DEADLOCK FALSE
