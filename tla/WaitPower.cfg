CONSTANTS
  DurMax = 60
  None = None
  FloatMax = 100
  Infinity = Infinity
  NaN = NaN
  Bases = {0, 1, 2, 3, 5, 11, Infinity, NaN}
  Initials = {0, 1, 7, 60}
  Attempts = {1, 2, 3, 4, 5, 6, 7, 8}
SPECIFICATION Spec
INVARIANTS
  OverflowIsDeserved
  DelayIsThePower
