SPECIFICATION ParitySpec
CONSTANTS
  None = None
  DurMax = 12
  Drift = 3
  Grain = 2
  Monotone = TRUE
  Builds = {FALSE}
  AttemptMax = 3
  Deadline = 3
  Limit = 3
  SpuriousPolls = TRUE
  Wakers = {w1, w2}
  Policy = {"deadline", "custom"}
  Timeout <- PolicyTimeouts
  StopAnswers <- PolicyStops
  WaitAnswers <- PolicyWaits
PROPERTIES
  FinalAttemptAtDeadline
