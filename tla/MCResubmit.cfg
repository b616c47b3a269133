SPECIFICATION FairSpec
CONSTANTS
  Jobs = {1,2,3,4,5,6,7,8,9}
  MaxTries = 2
  MaxUser = 3
  MaxCancels = 1
  MaxFaults = 2
  Hurried = FALSE
CHECK_DEADLOCK FALSE
INVARIANTS OneWriter NotOvertaken
PROPERTIES QueueDrains
