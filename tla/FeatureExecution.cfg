SPECIFICATION FairSpec
CONSTANTS
  Calls = {c1, c2}
  Waiter = c1
  LoopRetries = 1
  TurnRetries = 1
  ErrorRetries = 1
  MaxStops = 1
  MaxLease = 2
  Disturbances = {"pipeline", "resume", "follow_up", "stop", "board", "restart"}
  NoCall = NoCall
INVARIANTS TypeOK EntryIsLive HandleIsLive LeaseExplained
PROPERTIES WaitOutlastsRun WaitEnds
CHECK_DEADLOCK FALSE
