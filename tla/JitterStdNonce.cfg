CONSTANTS
  DurMax = 7
  None = None
  WordSize = 4
  Gamma = 3
  Shifts <- MCShifts
  Multipliers <- MCMultipliers
  ExclusiveOr <- MCXor
  DefaultSeed = 2
  Targets <- MCStd
  Threads = {t1}
  Instances = {i1, i2}
  Kinds = {"full"}
  MaxJitter = 2
  Seeds = {1}
  Nonces = {0, 3}
  Bases = {0, 2}
  Previous = {None}
  MaxDraws = 3
  MaxNonces = 3
SPECIFICATION Spec
INVARIANTS
  FreshInstancesDiffer
