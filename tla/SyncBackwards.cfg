SPECIFICATION CallerFairSpec
CONSTANTS
  None = None
  DurMax = 12
  Drift = 2
  Grain = 2
  Monotone = FALSE
  Builds = {TRUE, FALSE}
  AttemptMax = 3
  Deadline = 3
  Limit = 3
  Policy = {"deadline", "feedback", "zero", "custom", "attempts", "immediate", "composed"}
  Callers = {"any"}
  Scripts <- MCScripts
  Timeout <- PolicyTimeouts
  StopAnswers <- PolicyStops
  WaitAnswers <- PolicyLongWaits
INVARIANTS
  StatsTellTheTruth
PROPERTIES
  SpentBudgetIsFinal
  DebugReadsAreTrue
  LimitedTerminate
