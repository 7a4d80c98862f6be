CONSTANTS
  Users <- MCUsers
  DefaultStop <- MCDefaultStop
  DefaultWait <- MCDefaultWait
  Stops <- MCStops
  Waits <- MCWaits
  DefaultClassifier <- MCDefaultClassifier
  Clocks = {virtual}
  SystemClock = system
  Timeouts = {deadline}
  None = None
SPECIFICATION Spec
INVARIANTS
  TypeOK
  CallsInOrder
  EndIsTheLastVerdict
  PredicatesSteer
