SPECIFICATION Spec
CONSTANTS
  Total = 3
  SaveFreq = 2
  Patience = 2
  RiseAfter = 1
  MaxAttempts = 2
  MaxReruns = 1
  MaxErrors = 1
  MaxBlind = 1
CHECK_DEADLOCK FALSE
INVARIANTS LoggedIsCheckpointed LogIsOfTheKeptRun NoSustainedDrift DoneMeansTrained
