SPECIFICATION Spec
CONSTANTS
  LastStep = 4
  ToKeep = 2
  Every = 2
  Keep = 1
  MaxLives = 2
  MaxSignals = 1
  Timely = TRUE
CHECK_DEADLOCK FALSE
INVARIANTS TrackerIsResumable KeptStepsAreNotRewritten NoLandmarkLost
PROPERTIES StageOutIsIdempotent
