SPECIFICATION CallerFairSpec
CONSTANTS
  None = None
  DurMax = 16
  Drift = 4
  Grain = 1
  Monotone = TRUE
  Builds = {TRUE}
  AttemptMax = 4
  Deadline = 4
  Limit = 3
  Policy = {"attempts", "deadline", "feedback", "elapsed", "zero", "immediate", "composed", "spin", "custom"}
  Callers = {"any", "flag", "script"}
  Scripts <- MCScripts
  Timeout <- PolicyTimeouts
  StopAnswers <- PolicyStops
  WaitAnswers <- PolicyWaits
INVARIANTS
  CancelLatency
  CancelIsAborted
  FirstSettledOutcome
  BudgetIsSpentExactly
  TypeOK
  WaitWithinTimeout
  AttemptsLimited
PROPERTIES
  FlagEndsTheRun
  FinalAttemptAtDeadline
  ImplementsFairRetryLoop
  BoundedTerminate
