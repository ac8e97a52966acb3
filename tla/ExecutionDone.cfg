SPECIFICATION Spec
CONSTANTS
  Calls = {c1, c2}
  Waiter = c1
  LoopRetries = 2
  TurnRetries = 3
  ErrorRetries = 3
  MaxStops = 2
  MaxLease = 2
  Disturbances = {"pipeline", "resume", "follow_up", "stop", "board", "restart"}
  NoCall = NoCall
PROPERTIES DoneIsKept
CHECK_DEADLOCK FALSE
