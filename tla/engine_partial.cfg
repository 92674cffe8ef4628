CONSTANTS
  None = None
  Contents = {c1, c2}
  SizeOf <- MCSameSize
  Res = 1
  N = 3
  Retain = 2
  Mtimes = {0, 1}
  MidPass = FALSE
  MaxWrites = 2
  MaxFaults = 1
  MaxRequests = 1
SPECIFICATION Spec
INVARIANT SettledMeansMirroredFaultless
PROPERTY AbortIsRedetected
SYMMETRY Symmetry
