CONSTANTS
  None = None
  Contents = {c1, c2}
  SizeOf <- MCSameSize
  Res = 1
  N = 2
  Retain = 2
  Mtimes = {0, 1}
  MidPass = TRUE
  MaxWrites = 1
  MaxFaults = 0
  MaxRequests = 0
SPECIFICATION Spec
INVARIANT SettledMeansMirrored
