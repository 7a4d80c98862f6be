SPECIFICATION RaceSpec
CONSTANTS
  None = None
  DurMax = 4
  Drift = 1
  Grain = 1
  Monotone = TRUE
  Builds = {FALSE}
  AttemptMax = 2
  Deadline = 2
  Limit = 2
  SpuriousPolls = TRUE
  Wakers = {w1, w2}
  Races = {"none", "select", "timeout"}
  Policy = {"attempts", "deadline", "feedback", "elapsed", "zero", "immediate", "composed", "spin", "custom"}
  Timeout <- PolicyTimeouts
  StopAnswers <- PolicyStops
  WaitAnswers <- PolicyWaits
INVARIANTS
  TaskIsWoken
  OneMoreAttempt
PROPERTIES
  TaskYields
  SignalEndsTheRace
  BoundedResolve
  ImplementsFairRetryLoop
