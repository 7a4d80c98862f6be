CONSTANTS
  DurMax = 12
  None = None
  Adapters = {"system", "futures", "tokio", "gloo", "embassy", "virtual"}
  NanosPerMilli = 3
  NanosPerMicro = 2
  MicrosPerSec = 5
  TickHz = 3
  MaxMillis = 2
  MaxTicks = 2
  InstantMax = 9
  FarFuture = 5
  Requests = {1, 4, 12}
  Futures = {f1, f2}
  MaxTime = 13
  MaxVirtual = 3
SPECIFICATION Spec
INVARIANTS
  TypeOK
  CompletedWaitIsReflected
  VirtualTimeAddsUp
PROPERTY
  OneRecordPerWait
