SPECIFICATION FairSpec
CONSTANTS
  Loops = {l1, l2}
  Features = {f1}
  Runs = {r1}
  Timers = {t1}
  UserCalls = {user}
  CooldownCall = cooldownCall
  ManualFeatures = {}
  RetriedFeatures = {}
  MaxConcurrency = 1
  FailureThreshold = 1
  MainWorktree = TRUE
  None = None
INVARIANTS NoOrphanLoop TrippedLoopIsPaused
PROPERTIES StoppedLoopExits SlotsFreed AbstractSpec
CHECK_DEADLOCK FALSE
