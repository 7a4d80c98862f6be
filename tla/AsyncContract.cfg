SPECIFICATION ParitySpec
CONSTANTS
  None = None
  DurMax = 12
  Drift = 3
  Grain = 1
  Monotone = TRUE
  Builds = {FALSE}
  AttemptMax = 3
  Deadline = 3
  Limit = 3
  SpuriousPolls = TRUE
  Wakers = {w1, w2}
  Policy = {"attempts", "deadline", "feedback", "elapsed", "zero", "immediate", "composed", "spin", "custom"}
  Timeout <- PolicyTimeouts
  StopAnswers <- PolicyStops
  WaitAnswers <- PolicyWaits
INVARIANTS
  TypeOK
  StatsTellTheTruth
PROPERTIES
  ImplementsSyncEngine
