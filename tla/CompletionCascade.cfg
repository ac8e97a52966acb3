\* Two features and their epic, two milestones, two handlers at a time.
CONSTANTS
  Features = {"a", "b", "e"}
  Epics = {"e"}
  Milestones = {"m1", "m2"}
  Project = "p"
  None = "none"
  epicOf <- MCEpicOf
  milestoneOf <- MCMilestoneOf
  Handlers = {1, 2}
  MaxDisturbances = 1
  Ongoing = FALSE
SPECIFICATION FairSpec
INVARIANTS TypeOK  
PROPERTY CascadeEnds
CHECK_DEADLOCK FALSE
