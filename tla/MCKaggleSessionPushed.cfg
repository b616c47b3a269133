SPECIFICATION Spec
CONSTANTS
  Total = 3
  HubKeep = 1
  MaxSessions = 1
  MaxFailures = 0
CHECK_DEADLOCK FALSE
INVARIANTS PushedIsOnTheHub
