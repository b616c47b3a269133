SPECIFICATION Spec
CONSTANTS
  LastStep = 4
  ToKeep = 2
  Every = 1
  Keep = 2
  MaxLives = 1
  MaxSignals = 1
  Timely = TRUE
CHECK_DEADLOCK FALSE
INVARIANTS KeptAreWhole
