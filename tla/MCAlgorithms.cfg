SPECIFICATION Spec
CONSTANTS
  Tokens = {a, b, c, d}
  MaxUnits = 3
  MaxK = 5
  MaxSequences = 5
  MaxLength = 4
  Budgets = {4, 6, 7}
  One = 2
  MaxRollouts = 4
  MaxTokens = 2
  Blank = "blank"
  Norm <- AnswerNorm
  NoAnswer = "none"
  Digitless = {"pi"}
  MaxSamples = 5
  MaxText = 7
  MaxCalls = 2
  MaxLines = 4
  MaxRaw = 3
  Nodes = {n1, n2}
  RunConfigs <- SomeConfigs
  MaxStarts = 3
  MaxSaves = 3
  MaxChecks = 4
  MaxTime = 6
  SafeCharacters = {"a"}
  MaxTag = 2
CHECK_DEADLOCK FALSE
INVARIANTS
  CutsTakesTheLikeliest PatchesHold GroupMetricsAreRight ScoringIsRight
  PreflightIsRight TablesAgree DataAreRight RunsAreContinued WatchSurvivesResumes
