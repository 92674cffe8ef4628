CONSTANTS
  None = None
  Contents = {c1, c2, c3}
  SizeOf <- MCSameSize
  Res = 2
  N = 2
  Retain = 2
  Mtimes = {1, 2}
  MidPass = TRUE
  MaxWrites = 2
  MaxFaults = 1
  MaxRequests = 1
SPECIFICATION Spec
INVARIANTS TypeOK IInv
PROPERTIES CaptureGate PollSparesChangers ManifestDescribesRealBytes
PROPERTIES UserChoiceVisible ResolutionReachesAll
SYMMETRY Symmetry
