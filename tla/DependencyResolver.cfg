SPECIFICATION Spec
CONSTANTS
  N = 3
  MaxDeps = 2
  Priorities = {1, 2}
INVARIANTS TypeOK TopologicalOrder PriorityRespected EveryFeatureOnce OnlyCyclesRemain CycleReported
PROPERTY AbstractSpec
CHECK_DEADLOCK FALSE
