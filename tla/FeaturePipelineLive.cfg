SPECIFICATION FairSpec
CONSTANTS
  MaxTransitions = 9
  MaxSameState = 2
  MaxAgentRetries = 2
  MaxInfraRetries = 1
  MaxPlanRetries = 1
  MaxRemediations = 1
  MaxMergeRetries = 2
  MaxGateRejections = 2
  Faults = {"crash", "noPr"}
  None = None
PROPERTIES PipelineReturns MergedStaysDone
CHECK_DEADLOCK FALSE
