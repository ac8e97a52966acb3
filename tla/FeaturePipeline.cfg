SPECIFICATION Spec
CONSTANTS
  MaxTransitions = 14
  MaxSameState = 3
  MaxAgentRetries = 2
  MaxInfraRetries = 2
  MaxPlanRetries = 1
  MaxRemediations = 2
  MaxMergeRetries = 2
  MaxGateRejections = 2
  Faults = {"crash", "edit", "delete", "gh"}
  None = None
INVARIANTS TypeOK DoneMeansMerged CrashLosesAtMostOne BudgetNeverSpent
CHECK_DEADLOCK FALSE
