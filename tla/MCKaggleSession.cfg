SPECIFICATION FairSpec
CONSTANTS
  Total = 3
  HubKeep = 1
  MaxSessions = 3
  MaxFailures = 2
CHECK_DEADLOCK FALSE
INVARIANTS HubIsOneRun FinishedIsCarried
PROPERTIES HubNeverGoesBack SessionComesToAnEnd
