SPECIFICATION ParitySpec
CONSTANTS
  None = None
  DurMax = 6
  Drift = 2
  Grain = 2
  Monotone = FALSE
  Builds = {TRUE, FALSE}
  AttemptMax = 3
  Deadline = 2
  Limit = 2
  SpuriousPolls = TRUE
  Wakers = {w1}
  Policy = {"attempts", "deadline", "feedback", "zero", "custom"}
  Timeout <- PolicyTimeouts
  StopAnswers <- PolicyStops
  WaitAnswers <- PolicyLongWaits
PROPERTIES
  ImplementsSyncEngine
